SPECIFICATION Spec
CONSTANTS
    h1 = h1
    h2 = h2
    h3 = h3
    s1 = s1
    s2 = s2
    Host = {h1, h2, h3}
    StreamId = {s1, s2}
    NoStream = NoStream
    Chunk = {0, 1, 2}
    MaxStreams = 2
    MaxTurns = 5
    Scripts <- HostScripts
INVARIANTS
    OneChunkAtATime
    ChunksInOrder
    NoLateTranscript
    PartialsOfTheirStream
    TurnsAreReleased
PROPERTY
    TurnsEndForAReason
CHECK_DEADLOCK FALSE
