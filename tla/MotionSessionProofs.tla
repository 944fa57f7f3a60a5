------------------------- MODULE MotionSessionProofs -------------------------
(***************************************************************************)
(* The safety of the VTube Studio transport and of the motion session that *)
(* drives it, for any number of host threads, transports, tasks and        *)
(* clients and any calls.                                                  *)
(*                                                                         *)
(* The transport first.  SingleFlight and ReadyMeansUsable are not         *)
(* inductive on their own: they need to know what each stage of a          *)
(* preflight has established on its transport (Fits), that a closed        *)
(* transport keeps neither its client nor its readiness (Coherent), and    *)
(* that no two transports share a client (ClientsAreOwned).                *)
(***************************************************************************)
EXTENDS MotionSession, SequenceTheorems, TLAPS

(* The awaits of preflight().                                                *)
Stage == {"connect", "authenticate", "inventory", "discard"}

(* A transport's state on its own.                                           *)
Coherent(state) ==
    /\ state.closed => ~state.ready /\ state.client = NoClient
    /\ state.ready => /\ state.client # NoClient
                      /\ state.connected /\ state.authenticated /\ state.inventory

(* A task and the transport it works on: as long as the transport is open,    *)
(* the client of a stage is the transport's and the earlier stages hold.     *)
Fits(task, state) ==
    /\ task.at \in Stage => ~state.ready /\ task.client # NoClient
    /\ task.at \in Stage \ {"discard"} /\ ~state.closed => state.client = task.client
    /\ task.at \in {"authenticate", "inventory"} /\ ~state.closed => state.connected
    /\ task.at = "inventory" /\ ~state.closed => state.authenticated
    /\ task.at = "discard" => task.result \notin {"ready", "completed"}
    /\ task.at = "close" => state.closed /\ task.kind = "close"

(* No client is used by two transports, or after it was discarded.           *)
ClientsAreOwned ==
    /\ discarded \subseteq 1..created
    /\ \A t \in Transport : transport[t].client \in (0..created) \ discarded
    /\ \A t, u \in Transport :
          transport[t].client = transport[u].client /\ transport[t].client # NoClient => t = u

(* The inductive invariant.                                                  *)
TransportInvariant ==
    /\ TransportTypes
    /\ ClientsAreOwned
    /\ \A t \in Transport : Coherent(transport[t])
    /\ \A o \in Operation : Fits(operation[o], On(o))
    /\ SingleFlight

(* A record that is not in use is a task record.                             *)
LEMMA NoTaskType == NoTask \in OperationState /\ NoTask.at = "free"
<1>1. (CHOOSE t \in Transport : TRUE) \in Transport
    BY TransportAssumption
<1> QED BY <1>1 DEF NoTask, OperationState, Kind, Result, NoClient

(* The transports start open, idle and without a client.                     *)
LEMMA Initially == TransportInit => TransportInvariant
<1> SUFFICES ASSUME TransportInit PROVE TransportInvariant
    OBVIOUS
<1>1. TransportTypes
    BY NoTaskType, TransportAssumption
    DEF TransportInit, TransportTypes, NewTransport, TransportState, NoClient
<1>2. ClientsAreOwned
    BY DEF TransportInit, ClientsAreOwned, NewTransport, NoClient
<1>3. \A t \in Transport : Coherent(transport[t])
    BY DEF TransportInit, Coherent, NewTransport, NoClient
<1>4. \A o \in Operation : operation[o].at = "free"
    BY NoTaskType DEF TransportInit
<1>5. \A o \in Operation : Fits(operation[o], On(o))
    BY <1>4 DEF Fits, Stage
<1>6. SingleFlight
    BY <1>4 DEF TransportInit, SingleFlight, Holds, Provider, NewTransport
<1> QED BY <1>1, <1>2, <1>3, <1>5, <1>6 DEF TransportInvariant

(* One task's step: it leaves its transport in state and its own record as    *)
(* task.  A client is created for the transport, kept or detached; and the   *)
(* single-flight reservation is taken when it is free and held as long as    *)
(* the task awaits the provider.                                             *)
Steps(o, state, task) ==
    LET t == operation[o].on IN
    /\ transport' = [transport EXCEPT ![t] = state]
    /\ operation' = [operation EXCEPT ![o] = task]
    /\ created' \in created..MaxClients
    /\ \/ discarded' = discarded
       \/ /\ transport[t].client # NoClient /\ state.client # transport[t].client
          /\ discarded' = discarded \cup {transport[t].client}
    /\ \/ state.client \in {transport[t].client, NoClient}
       \/ state.client = created + 1 /\ created' = created + 1
    /\ task.at \in Awaiting => task.on = t
    /\ Coherent(state)
    /\ task.on = t => Fits(task, state)
    /\ \A p \in Operation \ {o} : operation[p].on = t => Fits(operation[p], state)
    /\ task.at \in Provider => operation[o].at \in Provider \/ ~transport[t].active
    /\ state.active <=> \/ task.at \in Provider
                        \/ transport[t].active /\ operation[o].at \notin Provider

(* Such a step keeps the invariant.                                          *)
LEMMA StepKeeps ==
    ASSUME TransportInvariant,
           NEW o \in Operation, NEW state \in TransportState, NEW task \in OperationState,
           Steps(o, state, task)
    PROVE  TransportInvariant'
<1>0. operation[o].on \in Transport
    BY DEF TransportInvariant, TransportTypes, OperationState
<1> SUFFICES ASSUME NEW t \in Transport, t = operation[o].on,
                    transport' = [transport EXCEPT ![t] = state],
                    operation' = [operation EXCEPT ![o] = task],
                    created' \in created..MaxClients,
                    \/ discarded' = discarded
                    \/ /\ transport[t].client # NoClient /\ state.client # transport[t].client
                       /\ discarded' = discarded \cup {transport[t].client},
                    \/ state.client \in {transport[t].client, NoClient}
                    \/ state.client = created + 1 /\ created' = created + 1,
                    task.at \in Awaiting => task.on = t,
                    Coherent(state),
                    task.on = t => Fits(task, state),
                    \A p \in Operation \ {o} : operation[p].on = t => Fits(operation[p], state),
                    task.at \in Provider => operation[o].at \in Provider \/ ~transport[t].active,
                    state.active <=> \/ task.at \in Provider
                                     \/ transport[t].active /\ operation[o].at \notin Provider
             PROVE  TransportInvariant'
    BY <1>0 DEF Steps
<1>1. /\ transport \in [Transport -> TransportState]
      /\ operation \in [Operation -> OperationState]
      /\ created \in 0..MaxClients /\ MaxClients \in Nat /\ created' \in Nat
    BY TransportAssumption DEF TransportInvariant, TransportTypes
<1>2. /\ \A u \in Transport : transport'[u] = IF u = t THEN state ELSE transport[u]
      /\ \A p \in Operation : operation'[p] = IF p = o THEN task ELSE operation[p]
    BY <1>1
<1>3. transport[t].client \in Nat /\ state.client \in Nat
    BY <1>1 DEF TransportState
<1>4. /\ discarded \subseteq 1..created
      /\ \A u \in Transport : transport[u].client \in (0..created) \ discarded
      /\ \A u, v \in Transport :
            transport[u].client = transport[v].client /\ transport[u].client # NoClient => u = v
    BY DEF TransportInvariant, ClientsAreOwned
<1>10. discarded' \subseteq 1..created'
    <2>1. transport[t].client # NoClient => transport[t].client \in 1..created
        BY <1>1, <1>4 DEF NoClient
    <2>2. 1..created \subseteq 1..created'
        BY <1>1
    <2> QED BY <1>4, <2>1, <2>2
<1>5. TransportTypes'
    <2>1. discarded' \in SUBSET Nat
        BY <1>1, <1>10
    <2> QED BY <1>1, <2>1 DEF TransportTypes
<1>6. ClientsAreOwned'
    <2>2. \A u \in Transport : transport'[u].client \in (0..created') \ discarded'
        BY <1>1, <1>2, <1>3, <1>4 DEF NoClient
    <2>3. \A u, v \in Transport :
            transport'[u].client = transport'[v].client /\ transport'[u].client # NoClient => u = v
        BY <1>1, <1>2, <1>3, <1>4 DEF NoClient
    <2> QED BY <1>10, <2>2, <2>3 DEF ClientsAreOwned
<1>7. \A u \in Transport : Coherent(transport'[u])
    BY <1>2 DEF TransportInvariant
<1>8. \A p \in Operation : Fits(operation'[p], transport'[operation'[p].on])
    <2>1. Fits(operation'[o], transport'[operation'[o].on])
        BY <1>1, <1>2 DEF Fits, Stage, Awaiting, Provider
    <2>2. ASSUME NEW p \in Operation \ {o}
          PROVE  Fits(operation'[p], transport'[operation'[p].on])
        <3>1. operation[p].on \in Transport
            BY <1>1 DEF OperationState
        <3> QED BY <1>2, <3>1 DEF TransportInvariant, On
    <2> QED BY <2>1, <2>2
<1>9. SingleFlight'
    <2>1. \A u \in Transport :
             /\ transport[u].active <=> \E p \in Operation : Holds(p, u)
             /\ \A p, q \in Operation : Holds(p, u) /\ Holds(q, u) => p = q
        BY DEF TransportInvariant, SingleFlight
    <2>2. /\ \A p \in Operation \ {o}, u \in Transport : Holds(p, u)' <=> Holds(p, u)
          /\ \A u \in Transport : Holds(o, u)' <=> task.at \in Provider /\ task.on = u
          /\ \A u \in Transport : Holds(o, u) <=> operation[o].at \in Provider /\ u = t
        BY <1>2 DEF Holds
    <2>3. task.at \in Provider => task.on = t
        BY DEF Awaiting
    <2>4. \A u \in Transport : transport'[u].active <=> \E p \in Operation : Holds(p, u)'
        <3>1. transport'[t].active <=> \E p \in Operation : Holds(p, t)'
            BY <1>2, <2>1, <2>2, <2>3
        <3>2. ASSUME NEW u \in Transport \ {t}
              PROVE  transport'[u].active <=> \E p \in Operation : Holds(p, u)'
            BY <1>2, <2>1, <2>2, <2>3
        <3> QED BY <3>1, <3>2
    <2>5. \A u \in Transport, p, q \in Operation : Holds(p, u)' /\ Holds(q, u)' => p = q
        BY <2>1, <2>2, <2>3
    <2> QED BY <2>4, <2>5 DEF SingleFlight
<1> QED BY <1>5, <1>6, <1>7, <1>8, <1>9 DEF TransportInvariant, On

(* What a step may rely on before it is taken.                               *)
LEMMA Before ==
    ASSUME TransportInvariant, NEW o \in Operation
    PROVE  /\ operation[o] \in OperationState /\ operation[o].on \in Transport
           /\ On(o) \in TransportState /\ On(o) = transport[operation[o].on]
           /\ Coherent(On(o)) /\ Fits(operation[o], On(o))
           /\ created \in created..MaxClients
           /\ operation[o].at \in Provider =>
                 \A p \in Operation \ {o} :
                     operation[p].on = operation[o].on => operation[p].at \notin Provider
           /\ \A p \in Operation : Fits(operation[p], On(p))
           /\ operation[o].at \in Provider => On(o).active
<1>1. /\ transport \in [Transport -> TransportState]
      /\ operation \in [Operation -> OperationState]
      /\ created \in 0..MaxClients /\ MaxClients \in Nat
    BY TransportAssumption DEF TransportInvariant, TransportTypes
<1>2. operation[o].on \in Transport
    BY <1>1 DEF OperationState
<1>3. Coherent(On(o)) /\ \A p \in Operation : Fits(operation[p], On(p))
    BY <1>2 DEF TransportInvariant, On
<1>4. operation[o].at \in Provider =>
          /\ On(o).active
          /\ \A p \in Operation \ {o} :
                operation[p].on = operation[o].on => operation[p].at \notin Provider
    BY <1>2 DEF TransportInvariant, SingleFlight, Holds, On
<1> QED BY <1>1, <1>2, <1>3, <1>4 DEF On

(* The record a task that ends leaves.                                       *)
LEMMA FinishedTask ==
    ASSUME TransportInvariant, NEW o \in Operation, NEW r \in Result, Finish(o, r)
    PROVE  \E task \in OperationState :
              operation' = [operation EXCEPT ![o] = task] /\ task.at \notin Awaiting \cup Stage
<1>1. operation[o] \in OperationState
    BY Before
<1>2. [operation[o] EXCEPT !.at = "done", !.client = NoClient, !.result = r, !.cancel = "no"]
         \in OperationState
    BY <1>1 DEF OperationState, NoClient
<1> QED BY <1>1, <1>2, NoTaskType DEF Finish, Awaiting, Provider, Stage, OperationState

(* A task that ends and leaves the transport as it is.                       *)
LEMMA EndKeeps ==
    ASSUME TransportInvariant, NEW o \in Operation, NEW r \in Result, Finish(o, r),
           operation[o].at \notin Provider,
           UNCHANGED <<transport, created, discarded>>
    PROVE  TransportInvariant'
<1>1. PICK task \in OperationState :
          operation' = [operation EXCEPT ![o] = task] /\ task.at \notin Awaiting \cup Stage
    BY FinishedTask
<1>2. transport' = [transport EXCEPT ![operation[o].on] = On(o)]
    BY DEF TransportInvariant, TransportTypes, On
<1>3. Fits(task, On(o))
    BY <1>1 DEF Fits, Awaiting, Stage
<1> DEFINE t == operation[o].on
<1>4. /\ \A p \in Operation \ {o} : operation[p].on = t => Fits(operation[p], On(o))
      /\ task.at \notin Provider
    BY <1>1, Before DEF On, Awaiting
<1>5. On(o).client \in {transport[t].client, NoClient} /\ On(o).active = transport[t].active
    BY DEF On
<1>6. On(o).active \in BOOLEAN
    BY Before DEF TransportState
<1>7. Steps(o, On(o), task)
    BY <1>1, <1>2, <1>3, <1>4, <1>5, <1>6, Before DEF Steps, Awaiting
<1> QED BY <1>7, Before, StepKeeps

(* A step of the task that holds the reservation: no other task that awaits   *)
(* the provider looks at the transport.                                      *)
LEMMA HolderKeeps ==
    ASSUME TransportInvariant,
           NEW o \in Operation, NEW state \in TransportState, NEW task \in OperationState,
           operation[o].at \in Provider,
           SetOn(o, state), operation' = [operation EXCEPT ![o] = task],
           UNCHANGED created,
           \/ discarded' = discarded /\ state.client = On(o).client
           \/ /\ On(o).client # NoClient /\ state.client = NoClient
              /\ discarded' = discarded \cup {On(o).client},
           state.closed = On(o).closed, Coherent(state), Fits(task, state),
           task.at \in Awaiting => task.on = operation[o].on,
           state.active <=> task.at \in Provider
    PROVE  TransportInvariant'
<1>1. \A p \in Operation \ {o} : operation[p].on = operation[o].on => Fits(operation[p], state)
    <2> SUFFICES ASSUME NEW p \in Operation \ {o}, operation[p].on = operation[o].on
                 PROVE  Fits(operation[p], state)
        OBVIOUS
    <2>1. operation[p].at \notin Provider /\ Fits(operation[p], On(o))
        BY Before DEF On
    <2> QED BY <2>1 DEF Fits, Provider, Stage
<1>2. Steps(o, state, task)
    BY <1>1, Before DEF Steps, SetOn
<1> QED BY <1>2, StepKeeps

(* The task that holds the reservation ends and gives it back.               *)
LEMMA ReleaseKeeps ==
    ASSUME TransportInvariant,
           NEW o \in Operation, NEW state \in TransportState, NEW r \in Result,
           operation[o].at \in Provider,
           SetOn(o, Released(state)), Finish(o, r), UNCHANGED <<created, discarded>>,
           state.client = On(o).client, state.closed = On(o).closed, Coherent(state)
    PROVE  TransportInvariant'
<1>1. PICK task \in OperationState :
          operation' = [operation EXCEPT ![o] = task] /\ task.at \notin Awaiting \cup Stage
    BY FinishedTask
<1> DEFINE released == Released(state)
<1>2. /\ released \in TransportState /\ ~released.active
      /\ released.client = state.client /\ released.closed = state.closed
      /\ Coherent(released)
    BY DEF Released, TransportState, Coherent
<1> HIDE DEF released
<1>3. Fits(task, released) /\ task.at \notin Awaiting /\ task.at \notin Provider
    BY <1>1 DEF Fits, Awaiting, Stage
<1>4. SetOn(o, released)
    BY DEF released
<1> QED BY <1>1, <1>2, <1>3, <1>4, HolderKeeps

(* A completion that finds its generation changed is suppressed.             *)
LEMMA SuppressedKeeps ==
    ASSUME TransportInvariant, NEW o \in Operation, operation[o].at \in Provider, Suppressed(o)
    PROVE  TransportInvariant'
BY Before, ReleaseKeeps DEF Suppressed, Result

(* A stage that fails discards its client, unless close() has done so.        *)
LEMMA DiscardKeeps ==
    ASSUME TransportInvariant, NEW o \in Operation, NEW state \in TransportState,
           NEW r \in Result \ {"ready", "completed"},
           operation[o].at \in Stage \ {"discard"},
           state.client = On(o).client, state.closed = On(o).closed,
           state.active = On(o).active, state.ready = On(o).ready,
           DiscardFailedClient(o, state, r)
    PROVE  TransportInvariant'
<1>1. /\ operation[o].at \in Provider /\ operation[o].client # NoClient
      /\ ~state.ready /\ state.active /\ Coherent(state) /\ operation[o] \in OperationState
    BY Before DEF Stage, Provider, Fits, Coherent
<1>2. CASE /\ state.client = operation[o].client
           /\ SetOn(o, [state EXCEPT !.client = NoClient])
           /\ discarded' = discarded \cup {state.client}
           /\ operation' = [operation EXCEPT ![o].at = "discard", ![o].result = r]
           /\ UNCHANGED created
    <2> DEFINE detached == [state EXCEPT !.client = NoClient]
               task == [operation[o] EXCEPT !.at = "discard", !.result = r]
    <2>1. /\ detached \in TransportState /\ detached.active /\ ~detached.ready
          /\ detached.client = NoClient /\ detached.closed = state.closed
        BY <1>1 DEF TransportState, NoClient
    <2>2. /\ task \in OperationState /\ task.at = "discard" /\ task.result = r
          /\ task.client = operation[o].client /\ task.on = operation[o].on
        BY <1>1 DEF OperationState, Awaiting, Provider
    <2>3. operation' = [operation EXCEPT ![o] = task] /\ SetOn(o, detached)
        BY <1>2 DEF TransportInvariant, TransportTypes
    <2> HIDE DEF detached, task
    <2>4. Coherent(detached) /\ Fits(task, detached)
        BY <1>1, <2>1, <2>2 DEF Coherent, Fits
    <2>5. task.at \in Provider
        BY <2>2 DEF Provider
    <2> QED BY <1>1, <1>2, <2>1, <2>2, <2>3, <2>4, <2>5, HolderKeeps
<1>3. CASE /\ state.client # operation[o].client
           /\ SetOn(o, Released(Reset(state)))
           /\ Finish(o, r)
           /\ UNCHANGED <<created, discarded>>
    <2> DEFINE reset == Reset(state)
    <2>1. /\ reset \in TransportState /\ reset.client = state.client
          /\ reset.closed = state.closed /\ Coherent(reset)
        BY <1>1 DEF Reset, TransportState, Coherent
    <2> HIDE DEF reset
    <2> QED BY <1>1, <1>3, <2>1, ReleaseKeeps DEF reset
<1> QED BY <1>2, <1>3 DEF DiscardFailedClient

(* A step of a task that does not hold the reservation and leaves its        *)
(* transport alone.                                                          *)
LEMMA RecordKeeps ==
    ASSUME TransportInvariant, NEW o \in Operation, NEW task \in OperationState,
           operation' = [operation EXCEPT ![o] = task], task.at \notin Provider,
           task.at \in Awaiting => task.on = operation[o].on,
           operation[o].at \notin Provider,
           task.on = operation[o].on => Fits(task, On(o)),
           UNCHANGED <<transport, created, discarded>>
    PROVE  TransportInvariant'
<1>1. transport' = [transport EXCEPT ![operation[o].on] = On(o)]
    BY DEF TransportInvariant, TransportTypes, On
<1>2. \A p \in Operation \ {o} : operation[p].on = operation[o].on => Fits(operation[p], On(o))
    BY Before DEF On
<1>3. On(o).active \in BOOLEAN
    BY Before DEF TransportState
<1>4. Steps(o, On(o), task)
    BY <1>1, <1>2, <1>3, Before DEF Steps
<1> QED BY <1>4, Before, StepKeeps

-----------------------------------------------------------------------------
(* One lemma for each step of the event loop.                                *)
LEMMA StartPreflightKeeps ==
    ASSUME TransportInvariant, NEW o \in Operation, StartPreflight(o)
    PROVE  TransportInvariant'
<1>1. operation[o].at \notin Provider /\ operation[o] \in OperationState
    BY Before DEF StartPreflight, Provider
<1>2. CASE /\ \E r \in Result : Finish(o, r)
           /\ UNCHANGED <<transport, created, discarded>>
    BY <1>1, <1>2, EndKeeps
<1>3. CASE /\ ~On(o).closed /\ ~(On(o).ready /\ On(o).client # NoClient) /\ ~On(o).active
           /\ created < MaxClients
           /\ created' = created + 1
           /\ SetOn(o, [On(o) EXCEPT !.active = TRUE, !.client = created + 1])
           /\ operation' = [operation EXCEPT ![o].at = "connect", ![o].client = created + 1]
           /\ UNCHANGED discarded
    <2> DEFINE state == [On(o) EXCEPT !.active = TRUE, !.client = created + 1]
               task == [operation[o] EXCEPT !.at = "connect", !.client = created + 1]
    <2>0. created \in Nat /\ MaxClients \in Nat
        BY TransportAssumption DEF TransportInvariant, TransportTypes
    <2>1. created + 1 \in Nat /\ created + 1 # 0 /\ created' \in created..MaxClients
        BY <1>3, <2>0
    <2>2. /\ state \in TransportState /\ state.active /\ state.client = created + 1
          /\ ~state.closed /\ ~state.ready
        <3>1. /\ On(o) \in TransportState /\ ~On(o).closed /\ ~On(o).ready
            BY <1>3, Before DEF Coherent
        <3>2. \A n \in Nat :
                 LET started == [On(o) EXCEPT !.active = TRUE, !.client = n]
                 IN  /\ started \in TransportState /\ started.active /\ started.client = n
                     /\ ~started.closed /\ ~started.ready
            BY <3>1 DEF TransportState
        <3> QED BY <2>1, <3>2
    <2>3. /\ task \in OperationState /\ task.at = "connect" /\ task.client = created + 1
          /\ task.on = operation[o].on
        <3>1. \A n \in Nat :
                 LET started == [operation[o] EXCEPT !.at = "connect", !.client = n]
                 IN  /\ started \in OperationState /\ started.at = "connect"
                     /\ started.client = n /\ started.on = operation[o].on
            BY <1>1 DEF OperationState, Awaiting, Provider
        <3> QED BY <2>1, <3>1
    <2>4. operation' = [operation EXCEPT ![o] = task] /\ SetOn(o, state)
        BY <1>3 DEF TransportInvariant, TransportTypes
    <2> HIDE DEF state, task
    <2>5. Coherent(state) /\ Fits(task, state) /\ task.at \in Provider
        BY <2>1, <2>2, <2>3 DEF Coherent, Fits, Stage, NoClient, Provider
    <2>6. ASSUME NEW p \in Operation \ {o}, operation[p].on = operation[o].on
          PROVE  Fits(operation[p], state)
        <3>1. operation[p].at \notin Provider /\ Fits(operation[p], On(o))
            BY <1>3, <2>6, Before DEF On
        <3> QED BY <1>3, <3>1 DEF Fits, Provider, Stage
    <2>7. Steps(o, state, task)
        BY <1>3, <2>1, <2>2, <2>3, <2>4, <2>5, <2>6 DEF Steps, SetOn, On
    <2> QED BY <2>2, <2>3, <2>7, StepKeeps
<1> QED BY <1>2, <1>3 DEF StartPreflight, Result

(* connect() returned, failed or timed out.                                 *)
LEMMA ConnectReturnsKeeps ==
    ASSUME TransportInvariant, NEW o \in Operation, ConnectReturns(o)
    PROVE  TransportInvariant'
<1> DEFINE connected == [On(o) EXCEPT !.connected = TRUE]
<1>1. /\ operation[o].at = "connect" /\ operation[o].at \in Stage \ {"discard"}
      /\ operation[o].at \in Provider
    BY DEF ConnectReturns, Stage, Provider
<1>2. /\ connected \in TransportState /\ connected.connected
      /\ connected.client = On(o).client /\ connected.closed = On(o).closed
      /\ connected.active = On(o).active /\ connected.ready = On(o).ready
      /\ On(o) \in TransportState /\ operation[o] \in OperationState
      /\ Coherent(On(o)) /\ Fits(operation[o], On(o)) /\ On(o).active
    BY <1>1, Before DEF TransportState
<1>3. CASE \E r \in {"timed_out", "unavailable"} : DiscardFailedClient(o, On(o), r)
    BY <1>1, <1>2, <1>3, DiscardKeeps DEF Result
<1>4. CASE Suppressed(o)
    BY <1>1, <1>4, SuppressedKeeps
<1>5. CASE DiscardFailedClient(o, connected, "authentication")
    BY <1>1, <1>2, <1>5, DiscardKeeps DEF Result
<1>6. CASE /\ ~On(o).closed /\ SetOn(o, connected) /\ Await(o, "authenticate")
           /\ UNCHANGED <<created, discarded>>
    <2> DEFINE task == [operation[o] EXCEPT !.at = "authenticate"]
    <2>1. /\ task \in OperationState /\ task.at = "authenticate"
          /\ task.client = operation[o].client /\ task.on = operation[o].on
        BY <1>2 DEF OperationState, Awaiting, Provider
    <2>2. operation' = [operation EXCEPT ![o] = task]
        BY <1>6 DEF Await
    <2> HIDE DEF task, connected
    <2>3. Coherent(connected) /\ Fits(task, connected) /\ task.at \in Provider
        BY <1>1, <1>2, <1>6, <2>1 DEF Coherent, Fits, Stage, Provider
    <2> QED BY <1>1, <1>2, <1>6, <2>1, <2>2, <2>3, HolderKeeps
<1> QED BY <1>3, <1>4, <1>5, <1>6 DEF ConnectReturns

(* authenticate() returned or failed; what connect() established still holds.*)
LEMMA AuthenticateReturnsKeeps ==
    ASSUME TransportInvariant, NEW o \in Operation, AuthenticateReturns(o)
    PROVE  TransportInvariant'
<1> DEFINE authenticated == [On(o) EXCEPT !.authenticated = TRUE]
<1>1. /\ operation[o].at = "authenticate" /\ operation[o].at \in Stage \ {"discard"}
      /\ operation[o].at \in Provider
    BY DEF AuthenticateReturns, Stage, Provider
<1>2. /\ authenticated \in TransportState /\ authenticated.authenticated
      /\ authenticated.connected = On(o).connected
      /\ authenticated.client = On(o).client /\ authenticated.closed = On(o).closed
      /\ authenticated.active = On(o).active /\ authenticated.ready = On(o).ready
      /\ On(o) \in TransportState /\ operation[o] \in OperationState
      /\ Coherent(On(o)) /\ Fits(operation[o], On(o)) /\ On(o).active
    BY <1>1, Before DEF TransportState
<1>3. CASE DiscardFailedClient(o, On(o), "authentication")
    BY <1>1, <1>2, <1>3, DiscardKeeps DEF Result
<1>4. CASE Suppressed(o)
    BY <1>1, <1>4, SuppressedKeeps
<1>5. CASE DiscardFailedClient(o, authenticated, "failed")
    BY <1>1, <1>2, <1>5, DiscardKeeps DEF Result
<1>6. CASE /\ ~On(o).closed /\ SetOn(o, authenticated) /\ Await(o, "inventory")
           /\ UNCHANGED <<created, discarded>>
    <2> DEFINE task == [operation[o] EXCEPT !.at = "inventory"]
    <2>1. /\ task \in OperationState /\ task.at = "inventory"
          /\ task.client = operation[o].client /\ task.on = operation[o].on
        BY <1>2 DEF OperationState, Awaiting, Provider
    <2>2. operation' = [operation EXCEPT ![o] = task]
        BY <1>6 DEF Await
    <2> HIDE DEF task, authenticated
    <2>3. Coherent(authenticated) /\ Fits(task, authenticated) /\ task.at \in Provider
        BY <1>1, <1>2, <1>6, <2>1 DEF Coherent, Fits, Stage, Provider
    <2> QED BY <1>1, <1>2, <1>6, <2>1, <2>2, <2>3, HolderKeeps
<1> QED BY <1>3, <1>4, <1>5, <1>6 DEF AuthenticateReturns

(* The inventory arrived: only an open transport becomes ready.             *)
LEMMA InventoryReturnsKeeps ==
    ASSUME TransportInvariant, NEW o \in Operation, InventoryReturns(o)
    PROVE  TransportInvariant'
<1> DEFINE prepared == [On(o) EXCEPT !.inventory = TRUE, !.ready = TRUE]
<1>1. /\ operation[o].at = "inventory" /\ operation[o].at \in Stage \ {"discard"}
      /\ operation[o].at \in Provider /\ operation[o].at \in Stage
    BY DEF InventoryReturns, Stage, Provider
<1>2. On(o) \in TransportState /\ Coherent(On(o)) /\ Fits(operation[o], On(o))
    BY Before
<1>3. CASE \E r \in {"timed_out", "failed", "model"} : DiscardFailedClient(o, On(o), r)
    BY <1>1, <1>2, <1>3, DiscardKeeps DEF Result
<1>4. CASE Suppressed(o)
    BY <1>1, <1>4, SuppressedKeeps
<1>5. CASE /\ ~On(o).closed /\ SetOn(o, Released(prepared))
           /\ Finish(o, "ready") /\ UNCHANGED <<created, discarded>>
    <2>1. /\ prepared \in TransportState /\ prepared.inventory
          /\ prepared.client = On(o).client /\ prepared.closed = On(o).closed
          /\ prepared.connected = On(o).connected
          /\ prepared.authenticated = On(o).authenticated
        BY <1>2 DEF TransportState
    <2> HIDE DEF prepared
    <2>2. Coherent(prepared)
        BY <1>1, <1>2, <1>5, <2>1 DEF Coherent, Fits
    <2> QED BY <1>1, <1>5, <2>1, <2>2, ReleaseKeeps DEF Result
<1> QED BY <1>3, <1>4, <1>5 DEF InventoryReturns

(* The failed client is closed and the runtime state reset.                 *)
LEMMA DiscardReturnsKeeps ==
    ASSUME TransportInvariant, NEW o \in Operation, DiscardReturns(o)
    PROVE  TransportInvariant'
<1> DEFINE reset == Reset(On(o))
<1>1. operation[o].at \in Provider /\ operation[o].result \in Result
    BY Before DEF DiscardReturns, Provider, OperationState
<1>2. /\ reset \in TransportState /\ reset.client = On(o).client
      /\ reset.closed = On(o).closed /\ Coherent(reset)
    BY Before DEF Reset, TransportState, Coherent
<1>3. /\ SetOn(o, Released(reset)) /\ Finish(o, operation[o].result)
      /\ UNCHANGED <<created, discarded>>
    BY DEF DiscardReturns
<1> HIDE DEF reset
<1> QED BY <1>1, <1>2, <1>3, ReleaseKeeps

(* A trigger takes the reservation of a ready and idle transport.           *)
LEMMA StartTriggerKeeps ==
    ASSUME TransportInvariant, NEW o \in Operation, StartTrigger(o)
    PROVE  TransportInvariant'
<1>1. operation[o].at \notin Provider /\ operation[o] \in OperationState
    BY Before DEF StartTrigger, Provider
<1>2. CASE /\ \E r \in Result : Finish(o, r)
           /\ UNCHANGED <<transport, created, discarded>>
    BY <1>1, <1>2, EndKeeps
<1>3. CASE /\ ~On(o).closed /\ ~On(o).active
           /\ SetOn(o, [On(o) EXCEPT !.active = TRUE])
           /\ operation' = [operation EXCEPT ![o].at = "trigger", ![o].client = On(o).client]
           /\ UNCHANGED <<created, discarded>>
    <2> DEFINE state == [On(o) EXCEPT !.active = TRUE]
               task == [operation[o] EXCEPT !.at = "trigger", !.client = On(o).client]
    <2>1. /\ state \in TransportState /\ state.active /\ state.client = On(o).client
          /\ ~state.closed /\ Coherent(state)
        BY <1>3, Before DEF TransportState, Coherent
    <2>2. /\ task \in OperationState /\ task.at = "trigger" /\ task.on = operation[o].on
        BY <1>1, Before DEF OperationState, TransportState, Awaiting, Provider
    <2>3. operation' = [operation EXCEPT ![o] = task] /\ SetOn(o, state)
        BY <1>3 DEF TransportInvariant, TransportTypes
    <2> HIDE DEF state, task
    <2>4. Fits(task, state) /\ task.at \in Provider
        BY <2>2 DEF Fits, Stage, Provider
    <2>5. ASSUME NEW p \in Operation \ {o}, operation[p].on = operation[o].on
          PROVE  Fits(operation[p], state)
        <3>1. operation[p].at \notin Provider /\ Fits(operation[p], On(o))
            BY <1>3, <2>5, Before DEF On
        <3> QED BY <1>3, <3>1 DEF Fits, Provider, Stage
    <2>6. Steps(o, state, task)
        BY <1>3, <2>1, <2>2, <2>3, <2>4, <2>5, Before DEF Steps, SetOn, On
    <2> QED BY <2>1, <2>2, <2>6, StepKeeps
<1> QED BY <1>2, <1>3 DEF StartTrigger, Result

(* A trigger gives its reservation back however it ends.                    *)
LEMMA TriggerReturnsKeeps ==
    ASSUME TransportInvariant, NEW o \in Operation, TriggerReturns(o)
    PROVE  TransportInvariant'
<1>1. operation[o].at \in Provider
    BY DEF TriggerReturns, Provider
<1>2. CASE /\ \E r \in {"timed_out", "failed", "completed"} : Finish(o, r)
           /\ SetOn(o, Released(On(o))) /\ UNCHANGED <<created, discarded>>
    BY <1>1, <1>2, Before, ReleaseKeeps DEF Result
<1>3. CASE Suppressed(o)
    BY <1>1, <1>3, SuppressedKeeps
<1> QED BY <1>2, <1>3 DEF TriggerReturns

(* close() detaches the client in the step that marks the transport closed. *)
LEMMA StartCloseKeeps ==
    ASSUME TransportInvariant, NEW o \in Operation, StartClose(o)
    PROVE  TransportInvariant'
<1> DEFINE detached == [On(o) EXCEPT !.closed = TRUE, !.ready = FALSE,
                                     !.inventory = FALSE, !.client = NoClient]
           lost == [detached EXCEPT !.connected = FALSE, !.authenticated = FALSE]
<1>1. /\ operation[o].at \notin Provider /\ operation[o].kind = "close"
      /\ operation[o] \in OperationState
    BY Before DEF StartClose, Provider
<1>2. ASSUME NEW state \in {detached, lost}
      PROVE  /\ state \in TransportState /\ Coherent(state)
             /\ state.closed /\ ~state.ready /\ state.client = NoClient
             /\ state.active = On(o).active
             /\ \A p \in Operation : operation[p].on = operation[o].on
                                        => Fits(operation[p], state)
    <2>1. /\ state \in TransportState /\ state.closed /\ ~state.ready
          /\ state.client = NoClient /\ state.active = On(o).active
        <3>1. /\ detached \in TransportState /\ detached.closed /\ ~detached.ready
              /\ detached.client = NoClient /\ detached.active = On(o).active
            BY Before DEF TransportState, NoClient
        <3> HIDE DEF detached
        <3>2. /\ lost \in TransportState /\ lost.closed /\ ~lost.ready
              /\ lost.client = NoClient /\ lost.active = On(o).active
            BY <3>1 DEF TransportState
        <3> HIDE DEF lost
        <3> QED BY <1>2, <3>1, <3>2
    <2>2. \A p \in Operation : operation[p].on = operation[o].on => Fits(operation[p], On(o))
        BY Before DEF On
    <2>3. \A p \in Operation : operation[p].on = operation[o].on => Fits(operation[p], state)
        BY <2>1, <2>2 DEF Fits, Stage
    <2> QED BY <2>1, <2>3 DEF Coherent
<1>3. CASE /\ On(o).closed /\ Finish(o, "completed")
           /\ UNCHANGED <<transport, created, discarded>>
    BY <1>1, <1>3, EndKeeps DEF Result
<1>4. CASE /\ SetOn(o, lost) /\ Finish(o, "completed") /\ UNCHANGED <<created, discarded>>
    <2>1. PICK task \in OperationState :
              operation' = [operation EXCEPT ![o] = task] /\ task.at \notin Awaiting \cup Stage
        BY <1>4, FinishedTask DEF Result
    <2> HIDE DEF lost
    <2>2. Fits(task, lost) /\ task.at \notin Provider /\ task.at \notin Awaiting
        BY <2>1 DEF Fits, Awaiting, Stage
    <2>3. Steps(o, lost, task)
        BY <1>1, <1>2, <1>4, <2>1, <2>2, Before DEF Steps, SetOn, On, TransportState
    <2> QED BY <1>2, <2>1, <2>3, StepKeeps
<1>5. CASE /\ On(o).client # NoClient
           /\ SetOn(o, detached)
           /\ discarded' = discarded \cup {On(o).client}
           /\ Await(o, "close")
           /\ UNCHANGED created
    <2> DEFINE task == [operation[o] EXCEPT !.at = "close"]
    <2>1. /\ task \in OperationState /\ task.at = "close" /\ task.kind = "close"
          /\ task.on = operation[o].on
        BY <1>1 DEF OperationState, Awaiting
    <2>2. operation' = [operation EXCEPT ![o] = task]
        BY <1>5 DEF Await
    <2> HIDE DEF detached, task
    <2>3. Fits(task, detached) /\ task.at \notin Provider
        BY <1>2, <2>1 DEF Fits, Stage, Provider
    <2>4. Steps(o, detached, task)
        BY <1>1, <1>2, <1>5, <2>1, <2>2, <2>3, Before DEF Steps, SetOn, On, TransportState
    <2> QED BY <1>2, <2>1, <2>4, StepKeeps
<1> QED BY <1>3, <1>4, <1>5 DEF StartClose

(* close() returns over a transport that is closed already.                 *)
LEMMA CloseReturnsKeeps ==
    ASSUME TransportInvariant, NEW o \in Operation, CloseReturns(o)
    PROVE  TransportInvariant'
<1> DEFINE state == [On(o) EXCEPT !.connected = FALSE, !.authenticated = FALSE]
<1>1. operation[o].at = "close" /\ operation[o].at \notin Provider
    BY DEF CloseReturns, Provider
<1>2. On(o).closed /\ On(o) \in TransportState /\ Coherent(On(o))
    BY <1>1, Before DEF Fits
<1>3. /\ state \in TransportState /\ state.closed /\ ~state.ready
      /\ state.client = On(o).client /\ state.active = On(o).active /\ Coherent(state)
    BY <1>2 DEF TransportState, Coherent
<1>4. PICK task \in OperationState :
          operation' = [operation EXCEPT ![o] = task] /\ task.at \notin Awaiting \cup Stage
    BY FinishedTask DEF CloseReturns, Result
<1>5. SetOn(o, state) /\ UNCHANGED <<created, discarded>>
    BY DEF CloseReturns
<1> HIDE DEF state
<1>6. /\ Fits(task, state) /\ task.at \notin Provider /\ task.at \notin Awaiting
      /\ \A p \in Operation \ {o} : operation[p].on = operation[o].on => Fits(operation[p], state)
    <2>1. \A p \in Operation \ {o} : operation[p].on = operation[o].on => Fits(operation[p], On(o))
        BY Before DEF On
    <2> QED BY <1>3, <1>4, <2>1 DEF Fits, Awaiting, Stage
<1>7. Steps(o, state, task)
    BY <1>1, <1>3, <1>4, <1>5, <1>6, Before DEF Steps, SetOn, On, TransportState
<1> QED BY <1>3, <1>4, <1>7, StepKeeps

(* A cancelled task releases what it holds.                                 *)
LEMMA CancelledKeeps ==
    ASSUME TransportInvariant, NEW o \in Operation, Cancelled(o)
    PROVE  TransportInvariant'
<1>1. Finish(o, "cancelled") /\ "cancelled" \in Result /\ UNCHANGED <<created, discarded>>
    BY DEF Cancelled, Result
<1>2. CASE operation[o].at \in Provider
    BY <1>1, <1>2, Before, ReleaseKeeps DEF Cancelled
<1>3. CASE operation[o].at \notin Provider
    BY <1>1, <1>3, EndKeeps DEF Cancelled
<1> QED BY <1>2, <1>3

(* What the bridge does with a task keeps the invariant too.                 *)
LEMMA SubmitKeeps ==
    ASSUME TransportInvariant, NEW o \in Operation, NEW t \in Transport, NEW kind \in Kind,
           Submit(o, t, kind)
    PROVE  TransportInvariant'
<1> DEFINE task == [kind |-> kind, on |-> t, at |-> "scheduled", client |-> NoClient,
                    result |-> "none", cancel |-> "no"]
<1>1. task \in OperationState /\ task.at = "scheduled"
    BY DEF OperationState, Result, NoClient, Awaiting, Kind
<1>2. operation' = [operation EXCEPT ![o] = task] /\ UNCHANGED <<transport, created, discarded>>
    BY DEF Submit
<1> HIDE DEF task
<1>3. task.at \notin Awaiting /\ task.at \notin Provider /\ Fits(task, On(o))
    BY <1>1 DEF Awaiting, Provider, Fits, Stage
<1>4. operation[o].at \notin Provider
    BY DEF Submit, Free, Provider
<1> QED BY <1>1, <1>2, <1>3, <1>4, RecordKeeps

(* A result that is taken frees the record.                                 *)
LEMMA TakeKeeps ==
    ASSUME TransportInvariant, NEW o \in Operation, Take(o)
    PROVE  TransportInvariant'
<1>1. NoTask.at \notin Awaiting /\ NoTask.at \notin Provider /\ Fits(NoTask, On(o))
    BY NoTaskType DEF Awaiting, Provider, Fits, Stage
<1>2. operation[o].at \notin Provider
    BY DEF Take, Provider
<1> QED BY <1>1, <1>2, NoTaskType, RecordKeeps DEF Take

(* A step that changes only whom a task will tell, or that it is cancelled.   *)
LEMMA CancellingKeeps ==
    ASSUME TransportInvariant,
           operation' \in [Operation -> OperationState],
           \A o \in Operation :
              /\ operation'[o].at = operation[o].at /\ operation'[o].on = operation[o].on
              /\ operation'[o].kind = operation[o].kind
              /\ operation'[o].client = operation[o].client
              /\ operation'[o].result = operation[o].result,
           UNCHANGED <<transport, created, discarded>>
    PROVE  TransportInvariant'
<1>1. TransportTypes' /\ ClientsAreOwned' /\ \A t \in Transport : Coherent(transport'[t])
    BY DEF TransportInvariant, TransportTypes, ClientsAreOwned
<1>2. \A o \in Operation : Fits(operation'[o], transport'[operation'[o].on])
    BY DEF TransportInvariant, On, Fits
<1>3. SingleFlight'
    BY DEF TransportInvariant, SingleFlight, Holds
<1> QED BY <1>1, <1>2, <1>3 DEF TransportInvariant, On

(* Giving up on a task changes nothing of its work.                         *)
LEMMA AbandonKeeps ==
    ASSUME TransportInvariant, NEW o \in Operation, Abandon(o)
    PROVE  TransportInvariant'
<1>1. operation \in [Operation -> OperationState]
    BY DEF TransportInvariant, TransportTypes
<1>2. [operation[o] EXCEPT !.cancel = "abandoned"] \in OperationState
    BY <1>1 DEF OperationState
<1>3. operation' \in [Operation -> OperationState]
    BY <1>1, <1>2 DEF Abandon
<1>4. \A p \in Operation :
         /\ operation'[p].at = operation[p].at /\ operation'[p].on = operation[p].on
         /\ operation'[p].kind = operation[p].kind
         /\ operation'[p].client = operation[p].client
         /\ operation'[p].result = operation[p].result
    BY <1>1 DEF Abandon, OperationState
<1> QED BY <1>3, <1>4, CancellingKeeps DEF Abandon

(* Nor does cancelling the tasks of a transport.                            *)
LEMMA CancelAllKeeps ==
    ASSUME TransportInvariant, NEW t \in Transport, CancelAll(t)
    PROVE  TransportInvariant'
<1>1. operation \in [Operation -> OperationState]
    BY DEF TransportInvariant, TransportTypes
<1>2. \A p \in Operation :
         LET cancelled == [operation[p] EXCEPT !.cancel = "cancelled"]
         IN  /\ cancelled \in OperationState
             /\ cancelled.at = operation[p].at /\ cancelled.on = operation[p].on
             /\ cancelled.kind = operation[p].kind /\ cancelled.client = operation[p].client
             /\ cancelled.result = operation[p].result
    BY <1>1 DEF OperationState
<1>3. /\ \A p \in Operation :
            operation'[p] \in {operation[p], [operation[p] EXCEPT !.cancel = "cancelled"]}
      /\ operation' = [p \in Operation |-> operation'[p]]
    BY DEF CancelAll
<1>4. operation' \in [Operation -> OperationState]
    BY <1>1, <1>2, <1>3
<1>5. \A p \in Operation :
         /\ operation'[p].at = operation[p].at /\ operation'[p].on = operation[p].on
         /\ operation'[p].kind = operation[p].kind
         /\ operation'[p].client = operation[p].client
         /\ operation'[p].result = operation[p].result
    BY <1>2, <1>3
<1> QED BY <1>4, <1>5, CancellingKeeps DEF CancelAll

-----------------------------------------------------------------------------
(* Every step of the transport keeps the invariant.                          *)
LEMMA InvariantKept ==
    ASSUME TransportInvariant, [TransportNext]_transportVars
    PROVE  TransportInvariant'
<1>1. ASSUME NEW o \in Operation, LoopStep(o)
      PROVE  TransportInvariant'
    BY <1>1, StartPreflightKeeps, ConnectReturnsKeeps, AuthenticateReturnsKeeps,
       InventoryReturnsKeeps, DiscardReturnsKeeps, StartTriggerKeeps, TriggerReturnsKeeps,
       StartCloseKeeps, CloseReturnsKeeps, CancelledKeeps DEF LoopStep
<1>2. ASSUME NEW o \in Operation, Take(o) \/ Abandon(o)
      PROVE  TransportInvariant'
    BY <1>2, TakeKeeps, AbandonKeeps
<1>3. CASE \E o \in Operation, t \in Transport, kind \in Kind : Submit(o, t, kind)
    BY <1>3, SubmitKeeps
<1>4. CASE \E t \in Transport : CancelAll(t)
    BY <1>4, CancelAllKeeps
<1>5. CASE UNCHANGED transportVars
    <2>1. /\ \A o \in Operation : operation'[o] = operation[o]
          /\ operation' \in [Operation -> OperationState]
          /\ UNCHANGED <<transport, created, discarded>>
        BY <1>5 DEF transportVars, TransportInvariant, TransportTypes
    <2> QED BY <2>1, CancellingKeeps
<1> QED BY <1>1, <1>2, <1>3, <1>4, <1>5 DEF TransportNext

(* The inductive invariant holds of every behaviour.                         *)
THEOREM TransportInvariantHolds == TransportSpec => []TransportInvariant
<1>1. TransportInit => TransportInvariant
    BY Initially
<1>2. TransportInvariant /\ [TransportNext]_transportVars => TransportInvariant'
    BY InvariantKept
<1> QED BY <1>1, <1>2, PTL DEF TransportSpec

(* The transport and its tasks keep their types, for any number of them.     *)
THEOREM TransportIsTyped == TransportSpec => []TransportTypes
<1>1. TransportInvariant => TransportTypes
    BY DEF TransportInvariant
<1> QED BY <1>1, TransportInvariantHolds, PTL

(* One preflight or trigger at a time talks to a transport's provider, and   *)
(* the reservation is set exactly while one does.                            *)
THEOREM OneOperationInFlight == TransportSpec => []SingleFlight
<1>1. TransportInvariant => SingleFlight
    BY DEF TransportInvariant
<1> QED BY <1>1, TransportInvariantHolds, PTL

(* A transport that is ready has everything preflight established, over a    *)
(* client nobody has closed.                                                 *)
THEOREM ReadyIsUsable == TransportSpec => []ReadyMeansUsable
<1>1. ASSUME TransportInvariant, NEW t \in Transport, transport[t].ready
      PROVE  /\ ~transport[t].closed
             /\ transport[t].client \in (1..created) \ discarded
             /\ transport[t].connected /\ transport[t].authenticated /\ transport[t].inventory
    <2>1. /\ ~transport[t].closed /\ transport[t].client # NoClient
          /\ transport[t].connected /\ transport[t].authenticated /\ transport[t].inventory
        BY <1>1 DEF TransportInvariant, Coherent
    <2>2. transport[t].client \in (0..created) \ discarded /\ created \in Nat
        BY <1>1, TransportAssumption DEF TransportInvariant, ClientsAreOwned, TransportTypes
    <2> QED BY <2>1, <2>2 DEF NoClient
<1>2. TransportInvariant => ReadyMeansUsable
    BY <1>1 DEF ReadyMeansUsable
<1> QED BY <1>2, TransportInvariantHolds, PTL

(* No preflight becomes READY and no trigger COMPLETED once close has marked *)
(* the transport closed.                                                     *)
THEOREM LateCompletionIsSuppressed == TransportSpec => LateCompletionSuppressed
<1> DEFINE Suppresses ==
        \A o \in Operation :
            /\ operation[o].kind # "close" /\ operation[o].at # "done"
            /\ operation'[o].at = "done" /\ operation'[o].result \in {"ready", "completed"}
            => ~transport[operation[o].on].closed
<1>1. ASSUME TransportInvariant, NEW p \in Operation, LoopStep(p), NEW o \in Operation,
             operation[o].kind # "close", operation[o].at # "done",
             operation'[o].at = "done", operation'[o].result \in {"ready", "completed"}
      PROVE  ~On(o).closed
    <2>1. operation[p] \in OperationState /\ Fits(operation[p], On(p))
        BY <1>1, Before
    <2>2. operation \in [Operation -> OperationState]
        BY <1>1 DEF TransportInvariant, TransportTypes
    <2>3. CASE o # p
        <3>1. operation'[o] = operation[o]
            BY <1>1, <2>2, <2>3 DEF LoopStep, StartPreflight, ConnectReturns, AuthenticateReturns,
               InventoryReturns, DiscardReturns, StartTrigger, TriggerReturns, StartClose,
               CloseReturns, Cancelled, Suppressed, DiscardFailedClient, Finish, Await
        <3> QED BY <1>1, <3>1
    <2>4. CASE o = p
        <3>1. ASSUME NEW r \in Result, Finish(o, r)
              PROVE  r \in {"ready", "completed"}
            BY <1>1, <2>2, <3>1, NoTaskType DEF Finish, OperationState
        <3>2. ASSUME NEW r \in Result, NEW state, DiscardFailedClient(o, state, r)
              PROVE  r \in {"ready", "completed"}
            <4>1. Finish(o, r)
                BY <1>1, <2>2, <3>2 DEF DiscardFailedClient, OperationState
            <4> QED BY <3>1, <4>1
        <3>3. ~Suppressed(o)
            BY <3>1 DEF Suppressed, Result
        <3>4. \A point \in {"authenticate", "inventory"} : ~Await(o, point)
            BY <1>1, <2>2 DEF Await, OperationState
        <3>5. CASE StartPreflight(o)
            BY <1>1, <2>1, <2>2, <2>4, <3>1, <3>5 DEF StartPreflight, Result
        <3>6. CASE ConnectReturns(o)
            BY <3>2, <3>3, <3>4, <3>6 DEF ConnectReturns, Result
        <3>7. CASE AuthenticateReturns(o)
            BY <3>2, <3>3, <3>4, <3>7 DEF AuthenticateReturns, Result
        <3>8. CASE InventoryReturns(o)
            BY <3>2, <3>3, <3>8 DEF InventoryReturns, Result
        <3>9. CASE DiscardReturns(o)
            BY <1>1, <2>1, <2>4, <3>1, <3>9 DEF DiscardReturns, Fits, OperationState
        <3>10. CASE StartTrigger(o)
            BY <1>1, <2>1, <2>2, <2>4, <3>1, <3>10 DEF StartTrigger, Result
        <3>11. CASE TriggerReturns(o)
            BY <1>1, <2>4, <3>1, <3>11 DEF TriggerReturns, Suppressed, Result
        <3>12. CASE StartClose(o) \/ CloseReturns(o)
            BY <1>1, <2>1, <2>4, <3>12 DEF StartClose, CloseReturns, Fits
        <3>13. CASE Cancelled(o)
            BY <1>1, <2>4, <3>1, <3>13 DEF Cancelled, Result
        <3> QED BY <1>1, <2>4, <3>5, <3>6, <3>7, <3>8, <3>9, <3>10, <3>11, <3>12, <3>13
                DEF LoopStep
    <2> QED BY <2>3, <2>4
<1>2. ASSUME TransportInvariant, [TransportNext]_transportVars,
             ~ \E p \in Operation : LoopStep(p)
      PROVE  \A o \in Operation : operation'[o].at = "done" => operation[o].at = "done"
    <2>1. operation \in [Operation -> OperationState]
        BY <1>2 DEF TransportInvariant, TransportTypes
    <2>2. CASE \E p \in Operation : Take(p) \/ Abandon(p)
        BY <2>1, <2>2, NoTaskType DEF Take, Abandon, OperationState
    <2>3. CASE \E p \in Operation, t \in Transport, kind \in Kind : Submit(p, t, kind)
        BY <2>1, <2>3 DEF Submit
    <2>4. CASE \E t \in Transport : CancelAll(t)
        BY <2>1, <2>4 DEF CancelAll, OperationState
    <2>5. CASE UNCHANGED transportVars
        BY <2>5 DEF transportVars
    <2> QED BY <1>2, <2>2, <2>3, <2>4, <2>5 DEF TransportNext
<1>3. TransportInvariant /\ [TransportNext]_transportVars => [Suppresses]_transportVars
    BY <1>1, <1>2 DEF On
<1> QED BY <1>3, TransportInvariantHolds, PTL DEF TransportSpec, LateCompletionSuppressed

-----------------------------------------------------------------------------
(***************************************************************************)
(* The motion session.  What a thread carries to its point (ThreadsFit),   *)
(* and how far the one close of the session has come (CloseFits): the      *)
(* closer's bridge is closed before its worker is looked at, so a worker   *)
(* that was never started stays away, and the report is written once, by   *)
(* the one host thread that closes.                                        *)
(***************************************************************************)
BridgePoints == {"start", "ready", "schedule", "wait"}
CallPoints == {"idle", "ensure", "create", "apply", "publish"} \cup BridgePoints
ClosingPoints == {"cleanup", "closed_event"}
StoppingPoints == {"stop_loop", "draining", "join", "done"}
CloserPoints == {"close_composition", "shutdown"} \cup StoppingPoints \cup BridgePoints

(* What a thread at a point carries.                                         *)
Carries(frame) ==
    /\ frame.pc \in BridgePoints \cup CloserPoints \cup {"cleanup"} => frame.on # NoTransport
    /\ frame.pc = "wait" => frame.task # NoOperation
HostFits(frame) ==
    /\ Carries(frame)
    /\ frame.pc \in CallPoints \cup ClosingPoints
    /\ frame.pc \in {"ensure", "create", "apply"} \cup BridgePoints => frame.kind # "close"
CloserFits(frame) ==
    Carries(frame) /\ frame.pc \in CloserPoints \cup {"idle"} /\ frame.kind = "close"

ThreadsFit == (\A p \in Host : HostFits(thread[p])) /\ CloserFits(thread[Closer])

(* The daemon thread closes the composition it was given, and no other.      *)
CloserOwnsTheClose ==
    /\ \A t \in Transport : bridge[t].compositionClosed =>
          thread[Closer].on = t /\ thread[Closer].pc \notin {"idle", "close_composition"}
    /\ thread[Closer].pc \in StoppingPoints => bridge[thread[Closer].on].closed

(* One host thread closes the session; it reports once.                       *)
OneCloses ==
    /\ ~session.closed =>
          /\ At(Closer, "idle") /\ session.report = "none"
          /\ \A p \in Host : thread[p].pc \notin ClosingPoints
    /\ \A p, q \in Host :
          thread[p].pc \in ClosingPoints /\ thread[q].pc \in ClosingPoints => p = q
    /\ \A p \in Host : At(p, "cleanup") =>
          session.report = "none" /\ ~At(Closer, "idle") /\ thread[p].on = thread[Closer].on
    /\ \A p \in Host : At(p, "closed_event") => session.report # "none" \/ At(Closer, "idle")

(* A clean report stands.                                                    *)
CleanStands ==
    session.report = "clean" =>
        At(Closer, "idle") \/ (At(Closer, "done") /\ Dead(thread[Closer].on))

MotionInvariant ==
    MotionTypes /\ ThreadsFit /\ CloserOwnsTheClose /\ OneCloses /\ CleanStands

LEMMA IdleFits == Idle \in ThreadState /\ HostFits(Idle)
BY DEF Idle, ThreadState, HostFits, Carries, CallPoints, BridgePoints, CloserPoints,
       StoppingPoints, Kind

LEMMA Frames ==
    ASSUME MotionTypes
    PROVE  /\ session \in SessionState
           /\ bridge \in [Transport -> BridgeState]
           /\ thread \in [Thread -> ThreadState]
           /\ Closer \in Thread /\ Closer \notin Host /\ \A p \in Host : p \in Thread
BY MotionAssumption DEF MotionTypes, Thread

(* At first no thread does anything.                                         *)
LEMMA MotionStarts == MotionInit => MotionInvariant
<1> SUFFICES ASSUME MotionInit PROVE MotionInvariant
    OBVIOUS
<1>1. TransportTypes
    BY Initially DEF MotionInit, TransportInvariant
<1>2. /\ session \in SessionState /\ late \in SUBSET Operation
      /\ calls \in [Host -> Seq({"preflight", "apply_motion", "close"})]
    BY MotionAssumption DEF MotionInit, SessionState
<1>3. bridge \in [Transport -> BridgeState]
    BY DEF MotionInit, BridgeState
<1>4. thread \in [Thread -> ThreadState] /\ \A p \in Thread : thread[p] = Idle
    BY IdleFits DEF MotionInit
<1>5. MotionTypes
    BY <1>1, <1>2, <1>3, <1>4 DEF MotionTypes
<1>6. ThreadsFit /\ \A p \in Thread : thread[p].pc = "idle"
    <2>1. Idle.pc = "idle" /\ CloserFits(Idle)
        BY DEF Idle, CloserFits, Carries, BridgePoints, CloserPoints, StoppingPoints
    <2> QED BY <1>4, <1>5, <2>1, IdleFits, Frames DEF ThreadsFit
<1>7. CloserOwnsTheClose
    BY <1>5, <1>6, Frames DEF MotionInit, CloserOwnsTheClose, StoppingPoints
<1>8. OneCloses /\ CleanStands
    BY <1>5, <1>6, Frames DEF MotionInit, OneCloses, CleanStands, ClosingPoints, At
<1> QED BY <1>5, <1>6, <1>7, <1>8 DEF MotionInvariant

-----------------------------------------------------------------------------
(* What a step may do to the bridges and to the session's report: a worker    *)
(* that is away from a closed bridge stays away.                             *)
BridgesStand ==
    /\ bridge' \in [Transport -> BridgeState]
    /\ \A t \in Transport :
          /\ bridge'[t].compositionClosed = bridge[t].compositionClosed
          /\ bridge[t].closed => bridge'[t].closed
          /\ bridge[t].closed /\ Dead(t) => Dead(t)'
ReportStands ==
    /\ session' \in SessionState
    /\ session'.closed = session.closed /\ session'.report = session.report

(* The types that every step keeps in the same way.                          *)
OthersTyped ==
    /\ TransportTypes' /\ late' \in SUBSET Operation
    /\ calls' \in [Host -> Seq({"preflight", "apply_motion", "close"})]

(* No thread moves.                                                          *)
LEMMA StillKeeps ==
    ASSUME MotionInvariant, OthersTyped, BridgesStand, ReportStands, UNCHANGED thread
    PROVE  MotionInvariant'
<1>1. MotionTypes /\ MotionTypes'
    BY DEF MotionInvariant, MotionTypes, OthersTyped, BridgesStand, ReportStands
<1>2. ThreadsFit' /\ OneCloses'
    BY DEF MotionInvariant, ThreadsFit, OneCloses, At, ReportStands
<1>3. thread[Closer].pc \in StoppingPoints =>
         thread[Closer].on \in Transport /\ bridge[thread[Closer].on].closed
    BY <1>1, Frames DEF MotionInvariant, ThreadsFit, CloserFits, Carries, CloserPoints, ThreadState,
       CloserOwnsTheClose
<1>4. CloserOwnsTheClose'
    BY <1>3 DEF MotionInvariant, CloserOwnsTheClose, BridgesStand
<1>5. CleanStands'
    BY <1>3 DEF MotionInvariant, CleanStands, At, StoppingPoints, BridgesStand, ReportStands
<1> QED BY <1>1, <1>2, <1>4, <1>5 DEF MotionInvariant

(* A host thread goes on with a call that is not a close.                     *)
LEMMA HostKeeps ==
    ASSUME MotionInvariant, OthersTyped, BridgesStand, ReportStands,
           NEW p \in Host, NEW frame \in ThreadState,
           thread' = [thread EXCEPT ![p] = frame], HostFits(frame), frame.pc \in CallPoints
    PROVE  MotionInvariant'
<1>1. MotionTypes
    BY DEF MotionInvariant
<1>2. /\ \A q \in Thread : thread'[q] = IF q = p THEN frame ELSE thread[q]
      /\ thread'[Closer] = thread[Closer]
    BY <1>1, Frames
<1>3. MotionTypes'
    BY <1>1, Frames DEF MotionTypes, OthersTyped, BridgesStand, ReportStands
<1>4. ThreadsFit'
    BY <1>1, <1>2, Frames DEF MotionInvariant, ThreadsFit
<1>5. OneCloses'
    <2>1. frame.pc \notin ClosingPoints
        BY DEF CallPoints, ClosingPoints, BridgePoints
    <2>2. \A q \in Host : thread'[q].pc \in ClosingPoints => q # p /\ thread'[q] = thread[q]
        BY <1>1, <1>2, <2>1, Frames
    <2> QED BY <1>2, <2>2 DEF MotionInvariant, OneCloses, At, ReportStands, ClosingPoints
<1>6. thread[Closer].pc \in StoppingPoints =>
         thread[Closer].on \in Transport /\ bridge[thread[Closer].on].closed
    BY <1>1, Frames DEF MotionInvariant, ThreadsFit, CloserFits, Carries, CloserPoints, ThreadState,
       CloserOwnsTheClose
<1>7. CloserOwnsTheClose'
    BY <1>2, <1>6 DEF MotionInvariant, CloserOwnsTheClose, BridgesStand
<1>8. CleanStands'
    BY <1>2, <1>6 DEF MotionInvariant, CleanStands, At, StoppingPoints, BridgesStand, ReportStands
<1> QED BY <1>3, <1>4, <1>5, <1>7, <1>8 DEF MotionInvariant

(* The daemon thread goes on with its close.                                 *)
LEMMA CloserKeeps ==
    ASSUME MotionInvariant, OthersTyped, UNCHANGED session, NEW frame \in ThreadState,
           thread' = [thread EXCEPT ![Closer] = frame], CloserFits(frame),
           frame.pc \notin {"idle", "close_composition"}, frame.on = thread[Closer].on,
           thread[Closer].pc \notin {"idle", "done"},
           bridge' \in [Transport -> BridgeState],
           \A t \in Transport :
              bridge'[t].compositionClosed => bridge[t].compositionClosed \/ t = frame.on,
           frame.pc \in StoppingPoints => bridge'[frame.on].closed
    PROVE  MotionInvariant'
<1>1. MotionTypes
    BY DEF MotionInvariant
<1>2. thread'[Closer] = frame /\ \A p \in Host : thread'[p] = thread[p]
    BY <1>1, Frames
<1>3. MotionTypes'
    BY <1>1, Frames DEF MotionTypes, OthersTyped
<1>4. ThreadsFit'
    BY <1>2 DEF MotionInvariant, ThreadsFit
<1>5. OneCloses'
    BY <1>2 DEF MotionInvariant, OneCloses, At
<1>6. CloserOwnsTheClose'
    BY <1>2 DEF MotionInvariant, CloserOwnsTheClose
<1>7. CleanStands'
    BY <1>2 DEF MotionInvariant, CleanStands, At
<1> QED BY <1>3, <1>4, <1>5, <1>6, <1>7 DEF MotionInvariant

-----------------------------------------------------------------------------
(* What a thread carries, in the words of the actions.                        *)
LEMMA Carried ==
    ASSUME MotionInvariant, NEW p \in Thread
    PROVE  /\ thread[p] \in ThreadState
           /\ thread[p].pc \in BridgePoints => thread[p].on \in Transport
           /\ At(p, "wait") => thread[p].task \in Operation
           /\ p \in Host => HostFits(thread[p])
           /\ p \notin Host => p = Closer /\ CloserFits(thread[p])
<1>1. thread[p] \in ThreadState
    BY Frames DEF MotionInvariant
<1>2. /\ p \in Host => HostFits(thread[p])
      /\ p \notin Host => p = Closer /\ CloserFits(thread[p])
    BY DEF MotionInvariant, ThreadsFit, Thread
<1>3. Carries(thread[p])
    BY <1>2 DEF HostFits, CloserFits
<1> QED BY <1>1, <1>2, <1>3 DEF ThreadState, Carries, At

(* Every step of the session is a step of its transports, or none.           *)
LEMMA SessionUsesTheTransport ==
    ASSUME MotionInvariant, MotionNext
    PROVE  [TransportNext]_transportVars
<1>1. ASSUME NEW p \in Thread, BridgeStep(p)
      PROVE  [TransportNext]_transportVars
    <2>1. CASE StartBridge(p) \/ AwaitReady(p)
        BY <2>1 DEF StartBridge, AwaitReady
    <2>2. CASE Schedule(p)
        <3> DEFINE o == CHOOSE free \in Operation : Free(free)
        <3>1. o \in Operation
            BY <2>2 DEF Schedule
        <3>2. thread[p].on \in Transport /\ thread[p].kind \in Kind
            BY <2>2, Carried DEF Schedule, At, BridgePoints, ThreadState
        <3>3. Submit(o, thread[p].on, thread[p].kind) \/ UNCHANGED transportVars
            BY <2>2 DEF Schedule
        <3> QED BY <3>1, <3>2, <3>3 DEF TransportNext
    <2>3. CASE Answered(p) \/ GivesUp(p)
        BY <2>3, Carried DEF Answered, GivesUp, TransportNext
    <2> QED BY <1>1, <2>1, <2>2, <2>3 DEF BridgeStep
<1>2. ASSUME NEW p \in Host, Preflight(p) \/ Apply(p) \/ Close(p) \/ HostStep(p)
      PROVE  UNCHANGED transportVars
    BY <1>2 DEF Preflight, Apply, Close, HostStep, EnsureComposition, CreateComposition,
       BeginMotion, PublishMotion, DropStaleMotion, CleanupReturns, EmitClosed
<1>3. CASE CloserStep(Closer)
    <2>1. CASE CancelPending(Closer)
        <3>1. thread[Closer].on \in Transport
            BY <2>1, Carried DEF CancelPending, At, CloserFits, Carries, CloserPoints,
               StoppingPoints, ThreadState, Thread, HostFits, CallPoints, BridgePoints,
               ClosingPoints
        <3> QED BY <2>1, <3>1 DEF CancelPending, TransportNext
    <2> QED BY <1>3, <2>1 DEF CloserStep, CloseComposition, ShutdownBridge, StopLoop, Join
<1>4. ASSUME NEW t \in Transport, WorkerStep(t)
      PROVE  UNCHANGED transportVars
    BY <1>4 DEF WorkerStep, WorkerBoots, WorkerRuns, WorkerEnds
<1>5. ASSUME NEW o \in Operation, LoopRuns(o)
      PROVE  TransportNext
    BY <1>5 DEF LoopRuns, TransportNext
<1> QED BY <1>1, <1>2, <1>3, <1>4, <1>5 DEF MotionNext

(* A call that gets its answer goes on, or is over.                           *)
LEMMA HostReturns ==
    ASSUME MotionInvariant, NEW p \in Host, At(p, "start") \/ At(p, "ready") \/ At(p, "schedule")
              \/ At(p, "wait"), NEW r, Returns(p, r)
    PROVE  /\ ReportStands
           /\ \E frame \in ThreadState :
                 /\ thread' = [thread EXCEPT ![p] = frame]
                 /\ HostFits(frame) /\ frame.pc \in CallPoints
<1>1. session \in SessionState /\ p \in Thread
    BY Frames DEF MotionInvariant
<1>2. thread[p].kind # "close"
    BY <1>1, Carried DEF At, HostFits, BridgePoints
<1>3. Idle \in ThreadState /\ HostFits(Idle) /\ Idle.pc \in CallPoints
    BY IdleFits DEF Idle, CallPoints
<1>4. CASE PreflightReturns(p, r)
    <2>1. ReportStands
        BY <1>1, <1>4 DEF PreflightReturns, FailedCapability, SessionState, ReportStands
    <2> QED BY <1>3, <1>4, <2>1 DEF PreflightReturns
<1>5. CASE MotionReturns(p, r)
    <2> DEFINE frame == [Idle EXCEPT !.pc = "publish", !.outcome = StateOf(r)]
    <2>1. ReportStands
        <3>1. CASE session' = [session EXCEPT !.state = "closed", !.closedEvent = TRUE]
            BY <1>1, <3>1 DEF SessionState, ReportStands
        <3>2. CASE session' = [session EXCEPT !.state = StateOf(r)]
            <4>1. StateOf(r) \in {"idle", "failed", "unavailable"}
                BY DEF StateOf
            <4> QED BY <1>1, <3>2, <4>1 DEF SessionState, ReportStands
        <3> QED BY <1>5, <3>1, <3>2 DEF MotionReturns, ClosedEvent
    <2>2. frame \in ThreadState /\ HostFits(frame) /\ frame.pc \in CallPoints
        BY DEF Idle, StateOf, ThreadState, HostFits, Carries, CallPoints, BridgePoints,
           CloserPoints, StoppingPoints, Kind
    <2>3. thread' = [thread EXCEPT ![p] = Idle] \/ thread' = [thread EXCEPT ![p] = frame]
        BY <1>5 DEF MotionReturns
    <2> QED BY <1>3, <2>1, <2>2, <2>3
<1> QED BY <1>2, <1>4, <1>5 DEF Returns

(* The daemon thread goes on to stop the bridge.                             *)
LEMMA CloserReturns ==
    ASSUME MotionInvariant, At(Closer, "start") \/ At(Closer, "ready") \/ At(Closer, "schedule")
              \/ At(Closer, "wait"), NEW r, Returns(Closer, r)
    PROVE  /\ UNCHANGED session
           /\ \E frame \in ThreadState :
                 /\ thread' = [thread EXCEPT ![Closer] = frame]
                 /\ CloserFits(frame) /\ frame.pc = "shutdown" /\ frame.on = thread[Closer].on
<1> DEFINE frame == [thread[Closer] EXCEPT !.pc = "shutdown", !.task = NoOperation,
                        !.outcome = IF r \in {"completed", "closed"} THEN "idle" ELSE "failed"]
<1>1. Closer \in Thread /\ Closer \notin Host
    BY Frames DEF MotionInvariant
<1>2. /\ thread[Closer] \in ThreadState /\ thread[Closer].kind = "close"
      /\ thread[Closer].on \in Transport
    BY <1>1, Carried DEF At, BridgePoints, CloserFits
<1>3. UNCHANGED session /\ thread' = [thread EXCEPT ![Closer] = frame]
    BY <1>2 DEF Returns
<1>4. frame \in ThreadState /\ frame.pc = "shutdown" /\ frame.on = thread[Closer].on
      /\ frame.kind = "close"
    BY <1>2 DEF ThreadState
<1>5. CloserFits(frame)
    BY <1>2, <1>4, MotionAssumption DEF CloserFits, Carries, CloserPoints
<1> QED BY <1>3, <1>4, <1>5

-----------------------------------------------------------------------------
(* Every action keeps the invariant.                                          *)
LEMMA OthersStayTyped ==
    ASSUME MotionInvariant, TransportTypes', MotionNext
    PROVE  OthersTyped
<1>1. late \in SUBSET Operation /\ calls \in [Host -> Seq({"preflight", "apply_motion", "close"})]
    BY DEF MotionInvariant, MotionTypes
<1>2. ASSUME NEW p \in Host, NEW method, Call(p, method)
      PROVE  calls' \in [Host -> Seq({"preflight", "apply_motion", "close"})]
    <2>1. Tail(calls[p]) \in Seq({"preflight", "apply_motion", "close"})
        BY <1>1, <1>2 DEF Call
    <2> QED BY <1>1, <1>2, <2>1 DEF Call
<1>3. ASSUME NEW p \in Thread, BridgeStep(p)
      PROVE  late' \in SUBSET Operation /\ UNCHANGED calls
    BY <1>1, <1>3 DEF BridgeStep, StartBridge, AwaitReady, Schedule, Answered, GivesUp
<1>4. ASSUME NEW p \in Host, Preflight(p) \/ Apply(p) \/ Close(p)
      PROVE  UNCHANGED late /\ \E method : Call(p, method)
    BY <1>4 DEF Preflight, Apply, Close
<1>5. ASSUME NEW p \in Host, HostStep(p)
      PROVE  UNCHANGED <<late, calls>>
    BY <1>5 DEF HostStep, EnsureComposition, CreateComposition, BeginMotion, PublishMotion,
       DropStaleMotion, CleanupReturns, EmitClosed, sessionVars
<1>6. CloserStep(Closer) => UNCHANGED <<late, calls>>
    BY DEF CloserStep, CloseComposition, ShutdownBridge, CancelPending, StopLoop, Join, sessionVars
<1>7. ASSUME NEW t \in Transport, WorkerStep(t)
      PROVE  UNCHANGED <<late, calls>>
    BY <1>7 DEF WorkerStep, WorkerBoots, WorkerRuns, WorkerEnds, sessionVars
<1>8. ASSUME NEW o \in Operation, LoopRuns(o)
      PROVE  late' \in SUBSET Operation /\ UNCHANGED calls
    BY <1>1, <1>8 DEF LoopRuns, sessionVars
<1>9. late' \in SUBSET Operation /\ calls' \in [Host -> Seq({"preflight", "apply_motion", "close"})]
    BY <1>1, <1>2, <1>3, <1>4, <1>5, <1>6, <1>7, <1>8 DEF MotionNext
<1> QED BY <1>9 DEF OthersTyped

(* start and submit start a worker that was never started, on a bridge that   *)
(* is open.                                                                  *)
LEMMA BridgeStepKeeps ==
    ASSUME MotionInvariant, OthersTyped, NEW p \in Thread, BridgeStep(p)
    PROVE  MotionInvariant'
<1>1. /\ session \in SessionState /\ bridge \in [Transport -> BridgeState]
      /\ thread \in [Thread -> ThreadState] /\ p \in Host \cup {Closer} /\ Closer \notin Host
      /\ \A q \in Host : q # Closer
    BY Frames DEF MotionInvariant, Thread
<1>2. At(p, "start") \/ At(p, "ready") \/ At(p, "schedule") \/ At(p, "wait")
    BY DEF BridgeStep, StartBridge, AwaitReady, Schedule, Answered, GivesUp
<1>3. /\ thread[p] \in ThreadState /\ thread[p].on \in Transport
      /\ p \in Host => HostFits(thread[p])
      /\ p \notin Host => p = Closer /\ CloserFits(thread[p])
    BY <1>2, Carried DEF At, BridgePoints
<1>4. /\ BridgesStand
      /\ \A t \in Transport : bridge'[t].compositionClosed = bridge[t].compositionClosed
    <2>1. CASE UNCHANGED bridge
        BY <1>1, <2>1 DEF BridgesStand, Dead
    <2>2. CASE /\ ~bridge[thread[p].on].closed
               /\ bridge' = [bridge EXCEPT ![thread[p].on].worker =
                                 IF @ = "none" THEN "starting" ELSE @]
        BY <1>1, <1>3, <2>2 DEF BridgesStand, Dead, BridgeState
    <2> QED BY <2>1, <2>2
            DEF BridgeStep, StartBridge, AwaitReady, Schedule, Answered, GivesUp
<1>5. CASE \E r : Returns(p, r)
    <2>1. CASE p \in Host
        <3>1. PICK frame \in ThreadState : /\ thread' = [thread EXCEPT ![p] = frame]
                                           /\ HostFits(frame) /\ frame.pc \in CallPoints
            BY <1>2, <1>5, <2>1, HostReturns
        <3>2. ReportStands
            BY <1>2, <1>5, <2>1, HostReturns
        <3> QED BY <1>4, <2>1, <3>1, <3>2, HostKeeps
    <2>2. CASE p = Closer
        <3>1. PICK frame \in ThreadState :
                  /\ thread' = [thread EXCEPT ![Closer] = frame]
                  /\ CloserFits(frame) /\ frame.pc = "shutdown" /\ frame.on = thread[Closer].on
            BY <1>2, <1>5, <2>2, CloserReturns
        <3>2. UNCHANGED session
            BY <1>2, <1>5, <2>2, CloserReturns
        <3> QED BY <1>2, <1>4, <2>2, <3>1, <3>2, CloserKeeps DEF At, StoppingPoints, BridgesStand
    <2> QED BY <1>1, <2>1, <2>2
<1>6. ASSUME NEW next \in {"ready", "schedule", "wait"}, NEW task \in Operation \cup {NoOperation},
             next = "wait" => task \in Operation, UNCHANGED session,
             thread' = [thread EXCEPT ![p] = [thread[p] EXCEPT !.pc = next, !.task = task]]
      PROVE  MotionInvariant'
    <2> DEFINE frame == [thread[p] EXCEPT !.pc = next, !.task = task]
    <2>1. /\ frame \in ThreadState /\ frame.pc = next /\ frame.on = thread[p].on
          /\ frame.kind = thread[p].kind /\ frame.task = task
        BY <1>3, <1>6 DEF ThreadState
    <2>2. thread[p].pc \in BridgePoints /\ next \in BridgePoints /\ Carries(frame)
        BY <1>2, <1>3, <1>6, <2>1, MotionAssumption DEF At, BridgePoints, Carries
    <2>3. thread' = [thread EXCEPT ![p] = frame]
        BY <1>6
    <2> HIDE DEF frame
    <2>4. CASE p \in Host
        <3>1. HostFits(frame) /\ frame.pc \in CallPoints
            BY <1>3, <2>1, <2>2, <2>4 DEF HostFits, CallPoints
        <3> QED BY <1>1, <1>4, <1>6, <2>1, <2>3, <2>4, <3>1, HostKeeps DEF ReportStands
    <2>5. CASE p = Closer
        <3>1. CloserFits(frame) /\ frame.pc \notin {"idle", "close_composition", "done"}
                  /\ frame.pc \notin StoppingPoints
            BY <1>1, <1>3, <2>1, <2>2, <2>5
               DEF CloserFits, CloserPoints, BridgePoints, StoppingPoints
        <3> QED BY <1>2, <1>4, <1>6, <2>1, <2>3, <2>5, <3>1, CloserKeeps DEF At, BridgesStand
    <2> QED BY <1>1, <2>4, <2>5
<1>7. ASSUME NEW next \in {"ready", "schedule"}, UNCHANGED session, GoTo(p, next)
      PROVE  MotionInvariant'
    <2>1. /\ thread' = [thread EXCEPT ![p] =
                          [thread[p] EXCEPT !.pc = next, !.task = thread[p].task]]
          /\ thread[p].task \in Operation \cup {NoOperation}
        BY <1>1, <1>3, <1>7 DEF GoTo, ThreadState
    <2> QED BY <1>6, <1>7, <2>1
<1>8. CASE StartBridge(p)
    BY <1>5, <1>7, <1>8 DEF StartBridge, Fails
<1>9. CASE AwaitReady(p)
    BY <1>5, <1>7, <1>9 DEF AwaitReady, Fails
<1>10. CASE Schedule(p)
    <2> DEFINE o == CHOOSE free \in Operation : Free(free)
    <2>1. o \in Operation
        BY <1>10 DEF Schedule
    <2>2. CASE Fails(p)
        BY <1>5, <2>2 DEF Fails
    <2>3. CASE /\ thread' = [thread EXCEPT ![p].pc = "wait", ![p].task = o]
               /\ UNCHANGED session
        <3> HIDE DEF o
        <3>1. thread' = [thread EXCEPT ![p] = [thread[p] EXCEPT !.pc = "wait", !.task = o]]
            BY <1>1, <1>3, <2>3 DEF ThreadState
        <3> QED BY <1>6, <2>1, <2>3, <3>1
    <2> QED BY <1>10, <2>2, <2>3 DEF Schedule
<1>11. CASE Answered(p) \/ GivesUp(p)
    BY <1>5, <1>11 DEF Answered, GivesUp, Fails
<1> QED BY <1>8, <1>9, <1>10, <1>11 DEF BridgeStep

(* Calls begin and end, and the composition is made, without the close.        *)
LEMMA CallsKeep ==
    ASSUME MotionInvariant, OthersTyped, NEW p \in Host,
           \/ Preflight(p) \/ Apply(p) \/ EnsureComposition(p) \/ CreateComposition(p)
           \/ BeginMotion(p) \/ PublishMotion(p) \/ DropStaleMotion(p)
    PROVE  MotionInvariant'
<1>1. /\ session \in SessionState /\ bridge \in [Transport -> BridgeState]
      /\ thread \in [Thread -> ThreadState] /\ p \in Thread /\ p # Closer
    BY Frames DEF MotionInvariant
<1>2. thread[p] \in ThreadState /\ HostFits(thread[p])
    BY <1>1, Carried
<1>3. BridgesStand
    BY <1>1 DEF Preflight, Apply, EnsureComposition, CreateComposition, BeginMotion,
       PublishMotion, DropStaleMotion, BridgesStand, Dead
<1>4. ReportStands
    <2>1. CASE CreateComposition(p)
        <3>1. (CHOOSE t \in Transport : Unused(t)) \in Transport
            BY <2>1 DEF CreateComposition
        <3> QED BY <1>1, <2>1, <3>1 DEF CreateComposition, ReportStands, SessionState
    <2>2. CASE PublishMotion(p)
        BY <1>1, <1>2, <2>2 DEF PublishMotion, ReportStands, SessionState, ThreadState
    <2>3. CASE UNCHANGED session
        BY <1>1, <2>3 DEF ReportStands
    <2>4. CASE Preflight(p) \/ Apply(p)
        <3>1. \/ UNCHANGED session
              \/ session' = [session EXCEPT !.capability = "closed"]
              \/ session' = [session EXCEPT !.closedEvent = TRUE]
            BY <2>4 DEF Preflight, Apply, ClosedEvent
        <3>2. CASE session' = [session EXCEPT !.capability = "closed"]
            BY <1>1, <3>2 DEF ReportStands, SessionState
        <3>3. CASE session' = [session EXCEPT !.closedEvent = TRUE]
            BY <1>1, <3>3 DEF ReportStands, SessionState
        <3> QED BY <2>3, <3>1, <3>2, <3>3
    <2>5. CASE BeginMotion(p) \/ DropStaleMotion(p)
        BY <1>1, <2>5 DEF BeginMotion, DropStaleMotion, ReportStands, SessionState
    <2> QED BY <2>1, <2>2, <2>3, <2>4, <2>5 DEF EnsureComposition, sessionVars
<1>5. \/ UNCHANGED thread
      \/ \E frame \in ThreadState :
             thread' = [thread EXCEPT ![p] = frame] /\ HostFits(frame) /\ frame.pc \in CallPoints
    <2>1. ASSUME NEW next \in {"ensure", "create", "apply"}, NEW kind \in {"preflight", "trigger"},
                 thread' = [thread EXCEPT ![p] = [thread[p] EXCEPT !.pc = next, !.kind = kind]]
          PROVE  \E frame \in ThreadState :
                     /\ thread' = [thread EXCEPT ![p] = frame]
                     /\ HostFits(frame) /\ frame.pc \in CallPoints
        <3> DEFINE frame == [thread[p] EXCEPT !.pc = next, !.kind = kind]
        <3>1. frame \in ThreadState /\ frame.pc = next /\ frame.kind = kind
            BY <1>2 DEF ThreadState, Kind
        <3>2. HostFits(frame) /\ frame.pc \in CallPoints
            BY <3>1 DEF HostFits, Carries, CallPoints, BridgePoints, CloserPoints, StoppingPoints
        <3> QED BY <2>1, <3>1, <3>2
    <2>2. ASSUME NEW next \in {"ensure", "create"}, GoTo(p, next), thread[p].kind # "close"
          PROVE  \E frame \in ThreadState :
                     /\ thread' = [thread EXCEPT ![p] = frame]
                     /\ HostFits(frame) /\ frame.pc \in CallPoints
        <3>1. /\ thread[p].kind \in {"preflight", "trigger"}
              /\ thread' = [thread EXCEPT ![p] =
                               [thread[p] EXCEPT !.pc = next, !.kind = thread[p].kind]]
            BY <1>1, <1>2, <2>2 DEF GoTo, ThreadState, Kind
        <3> QED BY <2>1, <3>1
    <2>3. CASE Preflight(p) \/ Apply(p)
        BY <2>1, <2>3 DEF Preflight, Apply
    <2>4. ASSUME thread[p].kind # "close", session.composition # NoTransport,
                 thread' = [thread EXCEPT ![p].pc = "start", ![p].on = session.composition]
          PROVE  \E frame \in ThreadState :
                     /\ thread' = [thread EXCEPT ![p] = frame]
                     /\ HostFits(frame) /\ frame.pc \in CallPoints
        <3> DEFINE frame == [thread[p] EXCEPT !.pc = "start", !.on = session.composition]
        <3>1. /\ frame \in ThreadState /\ frame.pc = "start" /\ frame.kind = thread[p].kind
              /\ frame.on = session.composition
            BY <1>1, <1>2 DEF ThreadState, SessionState
        <3>2. HostFits(frame) /\ frame.pc \in CallPoints
            BY <2>4, <3>1 DEF HostFits, Carries, CallPoints, BridgePoints
        <3> QED BY <2>4, <3>1, <3>2
    <2>5. CASE EnsureComposition(p)
        <3>1. At(p, "ensure") /\ thread[p].kind # "close"
            BY <1>2, <2>5 DEF EnsureComposition, At, HostFits
        <3> QED BY <2>2, <2>4, <2>5, <3>1 DEF EnsureComposition
    <2>6. CASE CreateComposition(p)
        BY <1>2, <2>2, <2>6 DEF CreateComposition, At, HostFits
    <2>7. CASE BeginMotion(p)
        <3> DEFINE frame == [thread[p] EXCEPT !.pc = "publish", !.outcome = "unavailable"]
        <3>1. frame \in ThreadState /\ frame.pc = "publish"
            BY <1>2 DEF ThreadState
        <3>2. HostFits(frame) /\ frame.pc \in CallPoints
            BY <3>1 DEF HostFits, Carries, CallPoints, BridgePoints, CloserPoints, StoppingPoints
        <3>3. CASE thread' = [thread EXCEPT ![p] = frame]
            BY <3>1, <3>2, <3>3
        <3>4. thread[p].kind # "close"
            BY <1>2, <2>7 DEF BeginMotion, At, HostFits
        <3> QED BY <2>4, <2>7, <3>3, <3>4 DEF BeginMotion
    <2>8. CASE PublishMotion(p) \/ DropStaleMotion(p)
        BY <2>8, IdleFits DEF PublishMotion, DropStaleMotion, BackToIdle, Idle, CallPoints
    <2> QED BY <2>3, <2>5, <2>6, <2>7, <2>8
<1> QED BY <1>3, <1>4, <1>5, StillKeeps, HostKeeps

(* The first close takes the session, and gives its composition to the daemon  *)
(* thread; any other close returns at once.                                  *)
LEMMA CloseKeeps ==
    ASSUME MotionInvariant, OthersTyped, NEW p \in Host, Close(p)
    PROVE  MotionInvariant'
<1>1. /\ session \in SessionState /\ bridge \in [Transport -> BridgeState]
      /\ thread \in [Thread -> ThreadState] /\ p \in Thread /\ p # Closer
      /\ Closer \in Thread /\ Closer \notin Host /\ \A q \in Host : q \in Thread
    BY Frames DEF MotionInvariant
<1>2. thread[p] \in ThreadState /\ HostFits(thread[p]) /\ UNCHANGED bridge
    BY <1>1, Carried DEF Close
<1>3. CASE session.closed
    BY <1>1, <1>2, <1>3, StillKeeps DEF Close, BridgesStand, ReportStands, Dead
<1>4. CASE ~session.closed
    <2>1. /\ At(Closer, "idle") /\ session.report = "none"
          /\ \A q \in Host : thread[q].pc \notin ClosingPoints
          /\ \A t \in Transport : ~bridge[t].compositionClosed
        BY <1>4 DEF MotionInvariant, OneCloses, CloserOwnsTheClose, At
    <2>2. /\ session' \in SessionState /\ session'.closed
          /\ session'.report = session.report
        BY <1>1, <1>4 DEF Close, SessionState
    <2>3. PICK frame \in ThreadState, closer \in ThreadState :
              /\ thread' = [thread EXCEPT ![p] = frame, ![Closer] = closer]
              /\ HostFits(frame) /\ CloserFits(closer)
              /\ closer.pc \in {"idle", "close_composition"}
              /\ \/ frame.pc = "closed_event" /\ closer.pc = "idle"
                 \/ frame.pc = "cleanup" /\ closer.pc # "idle" /\ frame.on = closer.on
        <3>1. CASE session.composition = NoTransport
            <4> DEFINE frame == [thread[p] EXCEPT !.pc = "closed_event"]
            <4>1. frame \in ThreadState /\ frame.pc = "closed_event"
                BY <1>2 DEF ThreadState
            <4>2. HostFits(frame)
                BY <4>1 DEF HostFits, Carries, ClosingPoints, BridgePoints, CloserPoints,
                   StoppingPoints
            <4>3. thread' = [thread EXCEPT ![p] = frame, ![Closer] = thread[Closer]]
                BY <1>1, <1>4, <3>1 DEF Close, GoTo
            <4>4. thread[Closer] \in ThreadState /\ CloserFits(thread[Closer])
                BY <1>1, Carried
            <4> QED BY <2>1, <4>1, <4>2, <4>3, <4>4 DEF At
        <3>2. CASE session.composition # NoTransport
            <4> DEFINE frame == [thread[p] EXCEPT !.pc = "cleanup", !.on = session.composition]
                       closer == [Idle EXCEPT !.pc = "close_composition",
                                              !.on = session.composition]
            <4>1. /\ frame \in ThreadState /\ frame.pc = "cleanup"
                  /\ frame.on = session.composition
                BY <1>1, <1>2 DEF ThreadState, SessionState
            <4>2. /\ closer \in ThreadState /\ closer.pc = "close_composition"
                  /\ closer.on = session.composition /\ closer.kind = "close"
                BY <1>1, IdleFits DEF ThreadState, SessionState, Idle
            <4>3. HostFits(frame)
                BY <3>2, <4>1 DEF HostFits, Carries, ClosingPoints, BridgePoints
            <4>4. CloserFits(closer)
                BY <3>2, <4>2 DEF CloserFits, Carries, CloserPoints
            <4>5. thread' = [thread EXCEPT ![p] = frame, ![Closer] = closer]
                BY <1>1, <1>4, <3>2 DEF Close
            <4> QED BY <4>1, <4>2, <4>3, <4>4, <4>5
        <3> QED BY <3>1, <3>2
    <2>4. /\ thread'[p] = frame /\ thread'[Closer] = closer
          /\ \A q \in Host \ {p} : thread'[q] = thread[q]
        BY <1>1, <2>3
    <2>5. MotionTypes'
        BY <1>1, <1>2, <2>2, <2>3 DEF MotionTypes, OthersTyped
    <2>6. ThreadsFit'
        BY <2>3, <2>4 DEF MotionInvariant, ThreadsFit
    <2>7. CloserOwnsTheClose'
        BY <1>2, <2>1, <2>3, <2>4 DEF CloserOwnsTheClose, StoppingPoints
    <2>8. \A q \in Host : thread'[q].pc \in ClosingPoints => q = p
        BY <2>1, <2>4
    <2>9. \A q \in Host \ {p} : thread'[q].pc \notin ClosingPoints
        BY <2>8
    <2>10. /\ At(p, "cleanup")' =>
                  session'.report = "none" /\ ~At(Closer, "idle")' /\ frame.on = closer.on
           /\ At(p, "closed_event")' => At(Closer, "idle")'
        BY <2>1, <2>2, <2>3, <2>4 DEF At
    <2>11. OneCloses'
        BY <2>2, <2>4, <2>8, <2>9, <2>10 DEF OneCloses, At, ClosingPoints
    <2>12. CleanStands'
        BY <2>1, <2>2 DEF CleanStands
    <2> QED BY <2>5, <2>6, <2>7, <2>11, <2>12 DEF MotionInvariant
<1> QED BY <1>3, <1>4

(* The cleanup's report says that the worker is away only when the daemon     *)
(* thread is done with it.                                                   *)
LEMMA CleanupReturnsKeeps ==
    ASSUME MotionInvariant, OthersTyped, NEW p \in Host, CleanupReturns(p)
    PROVE  MotionInvariant'
<1>1. /\ session \in SessionState /\ bridge \in [Transport -> BridgeState]
      /\ thread \in [Thread -> ThreadState] /\ p \in Thread /\ p # Closer
      /\ Closer \in Thread /\ Closer \notin Host /\ \A q \in Host : q \in Thread
    BY Frames DEF MotionInvariant
<1>2. /\ thread[p] \in ThreadState /\ HostFits(thread[p]) /\ thread[p].pc = "cleanup"
      /\ UNCHANGED bridge
    BY <1>1, Carried DEF CleanupReturns, At
<1>3. /\ ~At(Closer, "idle") /\ thread[p].on = thread[Closer].on
      /\ \A q \in Host : thread[q].pc \in ClosingPoints => q = p
    BY <1>2 DEF MotionInvariant, OneCloses, At, ClosingPoints
<1>4. /\ session' \in SessionState /\ session'.closed = session.closed
      /\ session'.report \in {"clean", "dirty"}
      /\ session'.report = "clean" => At(Closer, "done") /\ Dead(thread[Closer].on)
    BY <1>1, <1>3 DEF CleanupReturns, SessionState, Dead
<1>5. session.closed
    BY <1>3 DEF MotionInvariant, OneCloses
<1> DEFINE frame == [thread[p] EXCEPT !.pc = "closed_event"]
<1>6. frame \in ThreadState /\ frame.pc = "closed_event"
    BY <1>2 DEF ThreadState
<1>7. HostFits(frame)
    BY <1>6 DEF HostFits, Carries, ClosingPoints, BridgePoints, CloserPoints, StoppingPoints
<1>8. thread' = [thread EXCEPT ![p] = frame]
    BY DEF CleanupReturns, GoTo
<1> HIDE DEF frame
<1>9. thread'[p] = frame /\ \A q \in Thread \ {p} : thread'[q] = thread[q]
    BY <1>1, <1>8
<1>10. MotionTypes' /\ ThreadsFit'
    BY <1>1, <1>2, <1>4, <1>6, <1>7, <1>8, <1>9
       DEF MotionInvariant, MotionTypes, OthersTyped, ThreadsFit
<1>11. CloserOwnsTheClose'
    BY <1>1, <1>2, <1>9 DEF MotionInvariant, CloserOwnsTheClose
<1>12. OneCloses'
    BY <1>1, <1>3, <1>4, <1>5, <1>6, <1>9 DEF OneCloses, At, ClosingPoints
<1>13. CleanStands'
    BY <1>1, <1>2, <1>4, <1>9 DEF CleanStands, At, Dead
<1> QED BY <1>10, <1>11, <1>12, <1>13 DEF MotionInvariant

(* A close without a composition is clean: no daemon thread was started.       *)
LEMMA EmitClosedKeeps ==
    ASSUME MotionInvariant, OthersTyped, NEW p \in Host, EmitClosed(p)
    PROVE  MotionInvariant'
<1>1. /\ session \in SessionState /\ bridge \in [Transport -> BridgeState]
      /\ thread \in [Thread -> ThreadState] /\ p \in Thread /\ p # Closer
      /\ Closer \in Thread /\ Closer \notin Host /\ \A q \in Host : q \in Thread
    BY Frames DEF MotionInvariant
<1>2. thread[p].pc = "closed_event" /\ UNCHANGED bridge
    BY DEF EmitClosed, At
<1>3. \A q \in Host : thread[q].pc \in ClosingPoints => q = p
    BY <1>2 DEF MotionInvariant, OneCloses, ClosingPoints
<1>4. session.closed /\ (session.report # "none" \/ At(Closer, "idle"))
    BY <1>2 DEF MotionInvariant, OneCloses, ClosingPoints, At
<1>5. /\ session' \in SessionState /\ session'.closed = session.closed
      /\ session'.report = IF session.report = "none" THEN "clean" ELSE session.report
    BY <1>1 DEF EmitClosed, ClosedEvent, SessionState
<1>6. /\ thread'[p] = Idle /\ thread' \in [Thread -> ThreadState]
      /\ \A q \in Thread \ {p} : thread'[q] = thread[q]
    BY <1>1, IdleFits DEF EmitClosed, BackToIdle
<1>7. MotionTypes' /\ ThreadsFit'
    BY <1>1, <1>2, <1>5, <1>6, IdleFits
       DEF MotionInvariant, MotionTypes, OthersTyped, ThreadsFit
<1>8. CloserOwnsTheClose'
    BY <1>1, <1>2, <1>6 DEF MotionInvariant, CloserOwnsTheClose
<1>9. \A q \in Host : thread'[q].pc \notin ClosingPoints
    BY <1>1, <1>3, <1>6 DEF Idle, ClosingPoints
<1>10. OneCloses'
    BY <1>4, <1>5, <1>9 DEF OneCloses, At, ClosingPoints
<1>11. CleanStands'
    BY <1>1, <1>2, <1>4, <1>5, <1>6 DEF MotionInvariant, CleanStands, At, Dead
<1> QED BY <1>7, <1>8, <1>10, <1>11 DEF MotionInvariant

(* The daemon thread closes the bridge before it looks whether the worker was  *)
(* ever started: a worker that was not cannot be any more.                    *)
LEMMA CloserStepKeeps ==
    ASSUME MotionInvariant, OthersTyped, CloserStep(Closer)
    PROVE  MotionInvariant'
<1> DEFINE t == thread[Closer].on
<1>1. /\ bridge \in [Transport -> BridgeState] /\ thread \in [Thread -> ThreadState]
      /\ Closer \in Thread /\ Closer \notin Host
    BY Frames DEF MotionInvariant
<1>2. thread[Closer].pc \in {"close_composition", "shutdown", "stop_loop", "draining", "join"}
    BY DEF CloserStep, CloseComposition, ShutdownBridge, CancelPending, StopLoop, Join, At
<1>3. /\ thread[Closer] \in ThreadState /\ CloserFits(thread[Closer]) /\ t \in Transport
      /\ thread[Closer].kind = "close"
    BY <1>1, <1>2, Carried DEF CloserFits, Carries, CloserPoints, StoppingPoints, ThreadState
<1>4. thread[Closer].pc \in {"stop_loop", "draining", "join"} => bridge[t].closed
    BY DEF MotionInvariant, CloserOwnsTheClose, StoppingPoints
<1>5. UNCHANGED session
    BY DEF CloserStep, CloseComposition, ShutdownBridge, CancelPending, StopLoop, Join, sessionVars
<1>6. PICK next \in {"start", "shutdown", "stop_loop", "draining", "join", "done"} :
          GoTo(Closer, next) /\ (next \in StoppingPoints =>
              thread[Closer].pc \in {"shutdown", "stop_loop", "draining", "join"})
    BY DEF CloserStep, CloseComposition, ShutdownBridge, CancelPending, StopLoop, Join, At,
       StoppingPoints
<1>7. /\ bridge' \in [Transport -> BridgeState]
      /\ \A u \in Transport : bridge'[u].compositionClosed => bridge[u].compositionClosed \/ u = t
      /\ next \in StoppingPoints => bridge'[t].closed
    <2>1. CASE CloseComposition(Closer)
        BY <1>1, <1>2, <1>3, <1>6, <2>1 DEF CloseComposition, BridgeState, At, StoppingPoints
    <2>2. CASE ShutdownBridge(Closer)
        BY <1>1, <1>3, <2>2 DEF ShutdownBridge, BridgeState
    <2>3. CASE StopLoop(Closer)
        BY <1>1, <1>3, <1>4, <2>3 DEF StopLoop, BridgeState, At
    <2>4. CASE CancelPending(Closer) \/ Join(Closer)
        BY <1>1, <1>4, <2>4 DEF CancelPending, Join, At, sessionVars
    <2> QED BY <2>1, <2>2, <2>3, <2>4 DEF CloserStep
<1> DEFINE frame == [thread[Closer] EXCEPT !.pc = next]
<1>8. /\ frame \in ThreadState /\ frame.pc = next /\ frame.on = t /\ frame.kind = "close"
      /\ thread' = [thread EXCEPT ![Closer] = frame]
    BY <1>3, <1>6 DEF ThreadState, GoTo
<1>9. CloserFits(frame)
    BY <1>3, <1>8, MotionAssumption
       DEF CloserFits, Carries, CloserPoints, BridgePoints, StoppingPoints
<1> HIDE DEF frame
<1> QED BY <1>2, <1>5, <1>7, <1>8, <1>9, CloserKeeps

(* A worker that is away does not come back by itself.                        *)
LEMMA WorkerStepKeeps ==
    ASSUME MotionInvariant, OthersTyped, NEW t \in Transport, WorkerStep(t)
    PROVE  MotionInvariant'
<1>1. session \in SessionState /\ bridge \in [Transport -> BridgeState]
    BY Frames DEF MotionInvariant
<1>2. UNCHANGED <<session, thread>> /\ ReportStands
    BY <1>1 DEF WorkerStep, WorkerBoots, WorkerRuns, WorkerEnds, sessionVars, ReportStands
<1>3. BridgesStand
    BY <1>1 DEF WorkerStep, WorkerBoots, WorkerRuns, WorkerEnds, BridgesStand, Dead, BridgeState
<1> QED BY <1>2, <1>3, StillKeeps

(* A task's step leaves the session and its threads alone.                    *)
LEMMA LoopRunsKeeps ==
    ASSUME MotionInvariant, OthersTyped, NEW o \in Operation, LoopRuns(o)
    PROVE  MotionInvariant'
<1>1. session \in SessionState /\ bridge \in [Transport -> BridgeState]
    BY Frames DEF MotionInvariant
<1>2. UNCHANGED <<session, thread, bridge>>
    BY DEF LoopRuns, sessionVars
<1> QED BY <1>1, <1>2, StillKeeps DEF ReportStands, BridgesStand, Dead

LEMMA MotionKept ==
    ASSUME TransportInvariant, MotionInvariant, [MotionNext]_motionVars
    PROVE  TransportInvariant' /\ MotionInvariant'
<1>1. CASE MotionNext
    <2>1. TransportInvariant'
        BY <1>1, SessionUsesTheTransport, InvariantKept
    <2>2. OthersTyped
        BY <1>1, <2>1, OthersStayTyped DEF TransportInvariant
    <2>3. ASSUME NEW p \in Host, HostStep(p)
          PROVE  MotionInvariant'
        BY <2>2, <2>3, CallsKeep, CleanupReturnsKeeps, EmitClosedKeeps DEF HostStep
    <2> QED BY <1>1, <2>1, <2>2, <2>3, CallsKeep, CloseKeeps, BridgeStepKeeps, CloserStepKeeps,
               WorkerStepKeeps, LoopRunsKeeps DEF MotionNext
<1>2. CASE UNCHANGED motionVars
    <2>1. TransportInvariant'
        BY <1>2, InvariantKept DEF motionVars, transportVars
    <2>2. OthersTyped
        BY <1>2, <2>1 DEF motionVars, MotionInvariant, MotionTypes, OthersTyped, TransportInvariant
    <2>3. session \in SessionState /\ bridge \in [Transport -> BridgeState]
        BY Frames DEF MotionInvariant
    <2> QED BY <1>2, <2>1, <2>2, <2>3, StillKeeps
            DEF motionVars, ReportStands, BridgesStand, Dead
<1> QED BY <1>1, <1>2

(* Between any two steps the session's threads carry what their points need,   *)
(* and its one close is where CloserOwnsTheClose and OneCloses say it is.      *)
THEOREM MotionStands == MotionSpec => [](TransportInvariant /\ MotionInvariant)
<1>1. MotionInit => TransportInvariant /\ MotionInvariant
    BY Initially, MotionStarts DEF MotionInit
<1>2. TransportInvariant /\ MotionInvariant /\ [MotionNext]_motionVars
          => TransportInvariant' /\ MotionInvariant'
    BY MotionKept
<1> QED BY <1>1, <1>2, PTL DEF MotionSpec

(* The motion session drives its transports through their coroutines alone:    *)
(* what holds of every behaviour of the transports holds under the session's  *)
(* threads, timeouts and cancellations.                                       *)
THEOREM SessionRefinesTransport == MotionSpec => TransportSpec
<1>1. MotionInit => TransportInit
    BY DEF MotionInit
<1>2. TransportInvariant /\ MotionInvariant /\ [MotionNext]_motionVars
          => [TransportNext]_transportVars
    BY SessionUsesTheTransport DEF motionVars, transportVars
<1> QED BY <1>1, <1>2, MotionStands, PTL DEF MotionSpec, TransportSpec

(* close() reports a complete cleanup only of a composition whose worker is    *)
(* away, and no thread that is still in start() or submit() brings it back.    *)
THEOREM CleanCloseIsFinal == MotionSpec => []CleanCloseEndsWorker
<1>1. MotionInvariant => CleanCloseEndsWorker
    BY DEF MotionInvariant, CleanStands, CloserOwnsTheClose, CleanCloseEndsWorker, At
<1> QED BY <1>1, MotionStands, PTL

(* The session's variables keep their types.                                  *)
THEOREM MotionIsTyped == MotionSpec => []MotionTypes
<1>1. MotionInvariant => MotionTypes
    BY DEF MotionInvariant
<1> QED BY <1>1, MotionStands, PTL

(* One preflight or trigger at a time talks to each provider, whatever the     *)
(* session's threads submit, give up or cancel.                               *)
THEOREM SessionKeepsSingleFlight == MotionSpec => []SingleFlight
BY SessionRefinesTransport, OneOperationInFlight, PTL

(* A transport that is ready stays usable under the session's threads.         *)
THEOREM SessionKeepsReady == MotionSpec => []ReadyMeansUsable
BY SessionRefinesTransport, ReadyIsUsable, PTL

(* No late completion under the session's threads.                            *)
THEOREM SessionSuppressesLate == MotionSpec => LateCompletionSuppressed
BY SessionRefinesTransport, LateCompletionIsSuppressed, PTL
=============================================================================
