----------------------- MODULE AppServerClientProofs -----------------------
(* Proofs about AppServerClient for any callers and any bounds: its type   *)
(* invariant, and the safety properties of the requests on the wire and of *)
(* the reader of the events.                                               *)
EXTENDS AppServerClient, FiniteSetTheorems, TLAPS
-----------------------------------------------------------------------------
(* The invariant.                                                          *)

(* The part of TypeOK that is not about the queue of events, and the part  *)
(* that is.                                                                *)
CallTypes ==
  /\ socket \in Sockets \union {None}
  /\ openPromise \in Sockets \union {None}
  /\ opened \in 0 .. 2 * Cardinality(Callers)
  /\ phase \in [Sockets -> Phases]
  /\ waiting \in [Sockets -> Seq(Callers)]
  /\ pc \in [Callers -> Points]
  /\ awaits \in [Callers -> Callers \union {NoCaller}]
  /\ initialize \in [Callers -> {"none", "socket", "sent", "ok", "failed"}]
  /\ initPending \in Callers \union {NoCaller}
  /\ reqPending \subseteq Requesters
  /\ sentOn \in [Callers -> Sockets \union {None}]
  /\ initializePromise \in Callers \union {NoCaller}
  /\ initialized \in BOOLEAN
  /\ outstanding \subseteq [by : Callers, initialize : BOOLEAN,
                            socket : Sockets, ok : BOOLEAN]
  /\ greeted \subseteq Sockets
  /\ events \in 0 .. MaxEvents
  /\ closes \in 0 .. MaxCloses

QueueTypes ==
  /\ values \in Nat
  /\ closed \in BOOLEAN
  /\ failed \in BOOLEAN
  /\ reader \in {"none", "busy", "waiting", "over"}

(* Sockets are opened in order, and those after `opened' do not exist. *)
Fresh ==
  /\ socket <= opened /\ openPromise <= opened
  /\ \A n \in Sockets : n > opened => phase[n] = "none"

(* The callers that made an initialize request, and those that made their  *)
(* own or are through: every opening is charged to one membership.         *)
Greeters == {c \in Callers : initialize[c] # "none"}
Askers == {c \in Callers : pc[c] \notin {"idle", "params", "awaitInit"}}
Charged == opened <= Cardinality(Greeters) + Cardinality(Askers)

(* What the progress of a call says of its handshake. *)
Progress ==
  \A c \in Callers :
    /\ initialize[c] # "none" =>
         awaits[c] = c /\ pc[c] \notin {"idle", "params"}
    /\ initialize[c] = "socket" => pc[c] = "awaitInit"
    /\ pc[c] = "awaitInit" => awaits[c] \in Callers
    /\ pc[c] \in {"socket", "sent"} => c \in Requesters

(* The pending entries belong to what was sent and has not settled. *)
Registered ==
  /\ initPending \in Callers => initialize[initPending] = "sent"
  /\ reqPending = {c \in Callers : pc[c] = "sent"}
  /\ \A c \in reqPending : sentOn[c] \in Sockets

(* Who waits for a socket waits once, and for a request it has to send. *)
Waiters ==
  /\ \A n \in Sockets : \A i \in 1 .. Len(waiting[n]) :
       initialize[waiting[n][i]] = "socket" \/ pc[waiting[n][i]] = "socket"
  /\ \A n, m \in Sockets :
       \A i \in 1 .. Len(waiting[n]), j \in 1 .. Len(waiting[m]) :
         waiting[n][i] = waiting[m][j] => n = m /\ i = j

CallInv ==
  CallTypes /\ Fresh /\ Charged /\ Progress /\ Registered /\ Waiters
  /\ SentCanSettle

QueueInv == QueueTypes /\ WaitingMeansQuiet

-----------------------------------------------------------------------------
(* The queue of events.                                                    *)

LEMMA QueueInitially ==
  ASSUME Init PROVE QueueInv
BY DEF Init, QueueInv, QueueTypes, WaitingMeansQuiet

(* What any step does to the queue of events. *)
QueueMoves ==
  \/ UNCHANGED queueVars
  \/ values' = 0 /\ closed' = FALSE /\ failed' = FALSE /\ UNCHANGED reader
  \/ reader' \in {"busy", "over"} /\ UNCHANGED <<values, closed, failed>>
  \/ QueueFails
  \/ QueueCloses
  \/ Push /\ closed' \in {closed, TRUE} /\ UNCHANGED failed
  \/ ReadNext

LEMMA AwaitMovesQueue ==
  ASSUME NEW c, AwaitSocket(c)
  PROVE  QueueMoves
BY DEF AwaitSocket, QueueMoves, queueVars

LEMMA QueueStep ==
  ASSUME [Next]_vars
  PROVE  QueueMoves
<1>1. CASE UNCHANGED vars
  BY <1>1 DEF vars, queueVars, QueueMoves
<1>2. CASE \E c \in Callers : CallerStep(c)
  <2>1. PICK c \in Callers : CallerStep(c)
    BY <1>2
  <2>2. CASE Request(c)
    BY <2>2, AwaitMovesQueue DEF Request, queueVars, QueueMoves
  <2>3. CASE Watch(c)
    BY <2>3 DEF Watch, queueVars, QueueMoves
  <2>4. CASE ParamsResolved(c)
    BY <2>4, AwaitMovesQueue DEF ParamsResolved
  <2>5. CASE ParamsFail(c)
    BY <2>5 DEF ParamsFail, queueVars, QueueMoves
  <2>6. CASE InitContinues(c)
    BY <2>6, AwaitMovesQueue DEF InitContinues, queueVars, QueueMoves
  <2>7. QED
    BY <2>1, <2>2, <2>3, <2>4, <2>5, <2>6 DEF CallerStep
<1>3. CASE \E n \in Sockets : SocketStep(n)
  <2>1. PICK n \in Sockets : SocketStep(n)
    BY <1>3
  <2>2. CASE SocketReady(n) \/ SocketRefused(n) \/ UrlResolved(n)
              \/ UrlFails(n) \/ Opens(n) \/ Drops(n)
    BY <2>2 DEF SocketReady, SocketRefused, UrlResolved, UrlFails, Opens,
                Drops, queueVars, QueueMoves
  <2>3. CASE ErrorEvent(n) \/ ErrorWithoutId(n)
    BY <2>3 DEF ErrorEvent, ErrorWithoutId, QueueMoves
  <2>4. CASE CloseEvent(n)
    BY <2>4 DEF CloseEvent, QueueMoves
  <2>5. CASE Notify(n)
    BY <2>5 DEF Notify, QueueMoves
  <2>6. QED
    BY <2>1, <2>2, <2>3, <2>4, <2>5 DEF SocketStep
<1>4. CASE \E m \in outstanding : Answer(m)
  BY <1>4 DEF Answer, queueVars, QueueMoves
<1>5. CASE Close
  BY <1>5 DEF Close, QueueMoves
<1>6. CASE ReadNext \/ ReaderReturns
  BY <1>6 DEF ReaderReturns, QueueMoves
<1>7. QED
  BY <1>1, <1>2, <1>3, <1>4, <1>5, <1>6 DEF Next

LEMMA QueueKept ==
  ASSUME QueueInv, [Next]_vars
  PROVE  QueueInv'
<1>1. QueueTypes /\ WaitingMeansQuiet
  BY DEF QueueInv
<1>2. CASE UNCHANGED queueVars
  BY <1>1, <1>2 DEF queueVars, QueueInv, QueueTypes, WaitingMeansQuiet
<1>7. CASE reader' \in {"busy", "over"} /\ UNCHANGED <<values, closed, failed>>
  <2>1. reader' # "waiting" /\ QueueTypes'
    BY <1>1, <1>7 DEF QueueTypes
  <2>2. QED
    BY <2>1 DEF QueueInv, WaitingMeansQuiet
<1>8. CASE values' = 0 /\ closed' = FALSE /\ failed' = FALSE
           /\ UNCHANGED reader
  <2>1. QueueTypes'
    BY <1>1, <1>8 DEF QueueTypes
  <2>2. QED
    BY <1>8, <2>1 DEF QueueInv, WaitingMeansQuiet
<1>3. CASE QueueFails \/ QueueCloses
  BY <1>1, <1>3 DEF QueueFails, QueueCloses, QueueInv, QueueTypes,
                    WaitingMeansQuiet
<1>4. CASE Push /\ closed' \in {closed, TRUE} /\ UNCHANGED failed
  <2>1. /\ reader' # "waiting"
        /\ reader' \in {"none", "busy", "over"}
        /\ values' \in Nat
    BY <1>1, <1>4 DEF Push, QueueTypes
  <2>2. closed' \in BOOLEAN /\ failed' \in BOOLEAN
    BY <1>1, <1>4 DEF QueueTypes
  <2>3. QED
    BY <2>1, <2>2 DEF QueueInv, QueueTypes, WaitingMeansQuiet
<1>5. CASE ReadNext
  <2>1. values' \in Nat /\ closed' = closed /\ failed' = failed
    BY <1>1, <1>5 DEF ReadNext, QueueTypes
  <2>2. reader' \in {"busy", "over", "waiting"}
    BY <1>5, <1>1 DEF ReadNext, QueueTypes
  <2>3. reader' = "waiting" => values' = 0 /\ ~closed /\ ~failed
    BY <1>5, <1>1 DEF ReadNext, QueueTypes
  <2>4. QED
    BY <1>1, <2>1, <2>2, <2>3 DEF QueueInv, QueueTypes, WaitingMeansQuiet
<1>6. QED
  BY QueueStep, <1>2, <1>3, <1>4, <1>5, <1>7, <1>8 DEF QueueMoves
-----------------------------------------------------------------------------
(* The calls.                                                              *)

LEMMA CallersFinite ==
  /\ IsFiniteSet(Callers) /\ Cardinality(Callers) \in Nat
  /\ IsFiniteSet(Greeters) /\ Cardinality(Greeters) \in Nat
  /\ Cardinality(Greeters) <= Cardinality(Callers)
  /\ IsFiniteSet(Askers) /\ Cardinality(Askers) \in Nat
  /\ Cardinality(Askers) <= Cardinality(Callers)
<1>1. Greeters \in SUBSET Callers /\ Askers \in SUBSET Callers
  BY DEF Greeters, Askers
<1>2. IsFiniteSet(Callers)
  BY CallersAssumption
<1>3. QED
  BY <1>1, <1>2, FS_Subset, FS_CardinalityType

LEMMA CallersFiniteAfter ==
  /\ IsFiniteSet(Greeters') /\ Cardinality(Greeters') \in Nat
  /\ Cardinality(Greeters') <= Cardinality(Callers)
  /\ IsFiniteSet(Askers') /\ Cardinality(Askers') \in Nat
  /\ Cardinality(Askers') <= Cardinality(Callers)
<1>1. Greeters' \in SUBSET Callers /\ Askers' \in SUBSET Callers
  BY DEF Greeters, Askers
<1>2. IsFiniteSet(Callers)
  BY CallersAssumption
<1>3. QED
  BY <1>1, <1>2, FS_Subset, FS_CardinalityType

(* Memberships are not given up. *)
LEMMA ChargedKept ==
  ASSUME CallTypes, Charged, opened' = opened,
         Greeters \subseteq Greeters', Askers \subseteq Askers'
  PROVE  Charged'
<1>1. Cardinality(Greeters) <= Cardinality(Greeters')
      /\ Cardinality(Askers) <= Cardinality(Askers')
  BY CallersFiniteAfter, FS_Subset
<1>2. QED
  BY <1>1, CallersFinite, CallersFiniteAfter DEF Charged, CallTypes

(* An opening is charged to the membership its caller gets with it. *)
LEMMA ChargedGrows ==
  ASSUME CallTypes, Charged, opened' = opened + 1,
         Greeters \subseteq Greeters', Askers \subseteq Askers',
         NEW c \in Callers,
         c \in Greeters' \ Greeters \/ c \in Askers' \ Askers
  PROVE  Charged' /\ opened' \in Sockets
<1>1. Cardinality(Greeters) <= Cardinality(Greeters')
      /\ Cardinality(Askers) <= Cardinality(Askers')
  BY CallersFiniteAfter, FS_Subset
<1>2. c \in Greeters' \ Greeters =>
        Cardinality(Greeters) < Cardinality(Greeters')
  <2>1. SUFFICES ASSUME c \in Greeters' \ Greeters
                 PROVE  Cardinality(Greeters) < Cardinality(Greeters')
    OBVIOUS
  <2>2. Cardinality(Greeters \union {c}) = Cardinality(Greeters) + 1
    BY <2>1, CallersFinite, FS_AddElement
  <2>3. Greeters \union {c} \subseteq Greeters'
    BY <2>1
  <2>4. Cardinality(Greeters \union {c}) <= Cardinality(Greeters')
    BY <2>3, CallersFiniteAfter, FS_Subset
  <2>5. QED
    BY <2>2, <2>4, CallersFinite, CallersFiniteAfter
<1>3. c \in Askers' \ Askers =>
        Cardinality(Askers) < Cardinality(Askers')
  <2>1. SUFFICES ASSUME c \in Askers' \ Askers
                 PROVE  Cardinality(Askers) < Cardinality(Askers')
    OBVIOUS
  <2>2. Cardinality(Askers \union {c}) = Cardinality(Askers) + 1
    BY <2>1, CallersFinite, FS_AddElement
  <2>3. Askers \union {c} \subseteq Askers'
    BY <2>1
  <2>4. Cardinality(Askers \union {c}) <= Cardinality(Askers')
    BY <2>3, CallersFiniteAfter, FS_Subset
  <2>5. QED
    BY <2>2, <2>4, CallersFinite, CallersFiniteAfter
<1>4. opened' <= Cardinality(Greeters') + Cardinality(Askers')
  BY <1>1, <1>2, <1>3, CallersFinite, CallersFiniteAfter
     DEF Charged, CallTypes
<1>5. opened' <= 2 * Cardinality(Callers)
  BY <1>4, CallersFinite, CallersFiniteAfter DEF CallTypes
<1>6. QED
  BY <1>4, <1>5, CallersFinite DEF Charged, CallTypes, Sockets

LEMMA CallInitially ==
  ASSUME Init PROVE CallInv
<1>1. NoCaller \notin Callers /\ MaxEvents \in Nat /\ MaxCloses \in Nat
  BY CallersAssumption
<1>2. CallTypes
  <2>1. waiting \in [Sockets -> Seq(Callers)]
    BY DEF Init
  <2>2. phase \in [Sockets -> Phases] /\ pc \in [Callers -> Points]
    BY DEF Init, Points, Phases
  <2>3. opened \in 0 .. 2 * Cardinality(Callers)
    BY CallersFinite DEF Init
  <2>4. events \in 0 .. MaxEvents /\ closes \in 0 .. MaxCloses
    BY <1>1 DEF Init
  <2>5. outstanding \subseteq [by : Callers, initialize : BOOLEAN,
                               socket : Sockets, ok : BOOLEAN]
    BY DEF Init
  <2>6. QED
    BY <2>1, <2>2, <2>3, <2>4, <2>5 DEF Init, CallTypes, None
<1>3. Charged
  BY CallersFinite DEF Init, Charged
<1>4. Fresh /\ Progress /\ Registered /\ Waiters /\ SentCanSettle
  <2>1. \A n \in Sockets : Len(waiting[n]) = 0
    BY DEF Init
  <2>2. Fresh /\ Progress /\ SentCanSettle
    BY DEF Init, Fresh, Progress, SentCanSettle, None, Callers
  <2>3. Registered
    BY <1>1 DEF Init, Registered
  <2>4. Waiters
    BY <2>1 DEF Waiters
  <2>5. QED
    BY <2>2, <2>3, <2>4
<1>5. QED
  BY <1>2, <1>3, <1>4 DEF CallInv
-----------------------------------------------------------------------------
(* Frames: what the steps do, as far as the invariant can tell.            *)

(* A socket goes on, and nobody has been told. *)
PhaseMoves(n) ==
  /\ n \in Sockets
  /\ phase[n] # "none"
  /\ \E p \in Phases \ {"none"} :
       /\ phase' = [phase EXCEPT ![n] = p]
       /\ phase[n] \in {"open", "lost"} => p \in {"open", "lost"}
  /\ socket' \in {socket, n}
  /\ UNCHANGED <<openPromise, opened, waiting, callVars, pendingVars,
                 handshakeVars, serverVars, boundVars>>

LEMMA PhaseKeeps ==
  ASSUME CallInv, NEW n, PhaseMoves(n)
  PROVE  CallInv'
<1>1. PICK p \in Phases \ {"none"} :
        /\ phase' = [phase EXCEPT ![n] = p]
        /\ phase[n] \in {"open", "lost"} => p \in {"open", "lost"}
  BY DEF PhaseMoves
<1>2. n \in Sockets /\ n \in Nat /\ n <= opened
  BY CallersFinite DEF PhaseMoves, CallInv, Fresh, CallTypes, Sockets
<1>3. UNCHANGED <<openPromise, opened, waiting, pc, awaits, initialize,
                  sentOn, initPending, reqPending, initializePromise,
                  initialized, outstanding, greeted, events, closes>>
      /\ socket' \in {socket, n}
  BY DEF PhaseMoves, callVars, pendingVars, handshakeVars, serverVars,
         boundVars
<1>4. CallTypes'
  BY <1>1, <1>2, <1>3 DEF CallInv, CallTypes
<1>5. Fresh'
  BY <1>1, <1>2, <1>3 DEF CallInv, CallTypes, Fresh
<1>6. Charged' /\ Progress' /\ Registered' /\ Waiters'
  BY <1>3 DEF CallInv, Charged, Greeters, Askers, Progress, Registered,
              Waiters
<1>7. SentCanSettle'
  BY <1>1, <1>3 DEF CallInv, CallTypes, SentCanSettle, Callers
<1>8. QED
  BY <1>4, <1>5, <1>6, <1>7 DEF CallInv

(* The connection is torn down: what is registered fails, sockets end. *)
TearsDown ==
  /\ CloseSocketState
  /\ phase' \in [Sockets -> Phases]
  /\ \A n \in Sockets : phase[n] = "none" => phase'[n] = "none"
  /\ outstanding' \subseteq outstanding
  /\ closes' \in 0 .. MaxCloses
  /\ UNCHANGED <<opened, waiting, awaits, sentOn, greeted, events>>

LEMMA TearDownKeeps ==
  ASSUME CallInv, TearsDown
  PROVE  CallInv'
<1>1. CallTypes /\ Registered /\ Progress /\ Waiters /\ Fresh /\ Charged
  BY DEF CallInv
<1>2. \A c \in Callers :
        pc'[c] = IF pc[c] = "sent" THEN "rejected" ELSE pc[c]
  BY <1>1 DEF TearsDown, CloseSocketState, Registered
<1>3. \A c \in Callers :
        \/ initialize'[c] = initialize[c]
        \/ initialize[c] = "sent" /\ initialize'[c] = "failed"
  BY <1>1 DEF TearsDown, CloseSocketState, Registered
<1>4. CallTypes'
  <2>1. /\ pc' \in [Callers -> Points]
        /\ initialize' \in
             [Callers -> {"none", "socket", "sent", "ok", "failed"}]
    BY <1>1, <1>2, <1>3 DEF TearsDown, CloseSocketState, CallTypes, Points
  <2>2. outstanding' \subseteq [by : Callers, initialize : BOOLEAN,
                                socket : Sockets, ok : BOOLEAN]
    BY <1>1 DEF TearsDown, CallTypes
  <2>3. QED
    BY <1>1, <2>1, <2>2 DEF TearsDown, CloseSocketState, CallTypes
<1>5. Fresh'
  BY <1>1 DEF TearsDown, CloseSocketState, Fresh, CallTypes, None
<1>6. Charged'
  <2>1. Greeters \subseteq Greeters' /\ Askers \subseteq Askers'
    BY <1>2, <1>3 DEF Greeters, Askers
  <2>2. QED
    BY <1>1, <2>1, ChargedKept DEF TearsDown
<1>7. Progress'
  BY <1>1, <1>2, <1>3 DEF Progress, TearsDown
<1>8. Registered' /\ SentCanSettle'
  <2>1. \A c \in Callers : pc'[c] # "sent"
    BY <1>2
  <2>2. initPending' = NoCaller /\ reqPending' = {}
    BY DEF TearsDown, CloseSocketState
  <2>3. QED
    BY <2>1, <2>2, CallersAssumption DEF Registered, SentCanSettle, Callers
<1>9. Waiters'
  <2>1. \A n \in Sockets : \A i \in 1 .. Len(waiting[n]) :
          waiting[n][i] \in Callers
    BY <1>1 DEF CallTypes
  <2>2. waiting' = waiting
    BY DEF TearsDown
  <2>3. \A n \in Sockets : \A i \in 1 .. Len(waiting[n]) :
          initialize'[waiting[n][i]] = "socket"
          \/ pc'[waiting[n][i]] = "socket"
    BY <1>1, <1>2, <1>3, <2>1 DEF Waiters
  <2>4. QED
    BY <1>1, <2>2, <2>3 DEF Waiters
<1>10. QED
  BY <1>4, <1>5, <1>6, <1>7, <1>8, <1>9 DEF CallInv

(* A caller goes on without a socket. *)
CallerMoves(c) ==
  /\ c \in Callers
  /\ initialize[c] # "socket"
  /\ \E p \in {"params", "awaitInit", "resolved", "rejected"} :
       pc' = [pc EXCEPT ![c] = p]
  /\ \/ /\ pc[c] = "idle"
        /\ awaits' = [awaits EXCEPT ![c] = initializePromise]
        /\ pc'[c] = "awaitInit" => initializePromise # NoCaller
     \/ /\ pc[c] \in {"params", "awaitInit"}
        /\ pc'[c] \in {"resolved", "rejected"}
        /\ awaits' = awaits
  /\ initialized' \in BOOLEAN
  /\ UNCHANGED <<socketVars, waiting, initialize, sentOn, pendingVars,
                 initializePromise, serverVars, boundVars>>

LEMMA CallerKeeps ==
  ASSUME CallInv, NEW c, CallerMoves(c)
  PROVE  CallInv'
<1>1. CallTypes /\ Registered /\ Progress /\ Waiters /\ Fresh /\ Charged
  BY DEF CallInv
<1>2. PICK p \in {"params", "awaitInit", "resolved", "rejected"} :
        pc' = [pc EXCEPT ![c] = p]
  BY DEF CallerMoves
<1>3. /\ c \in Callers
      /\ UNCHANGED <<socket, openPromise, opened, phase, waiting, initialize,
                     sentOn, initPending, reqPending, initializePromise,
                     outstanding, greeted, events, closes>>
  BY DEF CallerMoves, socketVars, pendingVars, serverVars, boundVars
<1>4. awaits' = awaits \/ awaits' = [awaits EXCEPT ![c] = initializePromise]
  BY DEF CallerMoves
<1>5. pc[c] \in {"idle", "params", "awaitInit"} /\ pc[c] # "sent"
  BY DEF CallerMoves
<1>6. CallTypes'
  <2>1. pc' \in [Callers -> Points]
        /\ awaits' \in [Callers -> Callers \union {NoCaller}]
    BY <1>1, <1>2, <1>3, <1>4 DEF CallTypes, Points
  <2>2. initialized' \in BOOLEAN
    BY DEF CallerMoves
  <2>3. QED
    BY <1>1, <1>3, <2>1, <2>2 DEF CallTypes
<1>7. Fresh'
  BY <1>1, <1>3 DEF Fresh
<1>8. Charged'
  <2>1. Greeters \subseteq Greeters' /\ Askers \subseteq Askers'
    BY <1>1, <1>2, <1>3, <1>5 DEF Greeters, Askers, CallTypes
  <2>2. QED
    BY <1>1, <1>3, <2>1, ChargedKept
<1>9. Progress'
  <2>1. ASSUME NEW d \in Callers
        PROVE  /\ initialize'[d] # "none" =>
                    awaits'[d] = d /\ pc'[d] \notin {"idle", "params"}
               /\ initialize'[d] = "socket" => pc'[d] = "awaitInit"
               /\ pc'[d] = "awaitInit" => awaits'[d] \in Callers
               /\ pc'[d] \in {"socket", "sent"} => d \in Requesters
    <3>1. CASE d # c
      BY <1>1, <1>2, <1>3, <1>4, <3>1 DEF Progress, CallTypes
    <3>2. CASE d = c
      <4>1. pc'[c] = p /\ initialize[c] # "socket"
        BY <1>1, <1>2, <1>3 DEF CallTypes, CallerMoves
      <4>2. initialize[c] # "none" => pc[c] = "awaitInit" /\ awaits[c] = c
        BY <1>1, <1>3, <1>5 DEF Progress
      <4>3. p = "awaitInit" => awaits'[c] \in Callers
        BY <1>1, <1>3, <4>1 DEF CallerMoves, CallTypes
      <4>4. initialize[c] # "none" => p \in {"resolved", "rejected"}
                                      /\ awaits' = awaits
        BY <4>1, <4>2 DEF CallerMoves
      <4>5. QED
        BY <1>3, <3>2, <4>1, <4>2, <4>3, <4>4
    <3>3. QED
      BY <3>1, <3>2
  <2>2. QED
    BY <2>1 DEF Progress
<1>10. Registered'
  BY <1>1, <1>2, <1>3, <1>5 DEF Registered, CallTypes
<1>11. SentCanSettle'
  BY <1>1, <1>2, <1>3 DEF CallInv, SentCanSettle, CallTypes, Callers
<1>12. Waiters'
  <2>1. \A d \in Callers : pc[d] = "socket" => pc'[d] = "socket"
    BY <1>1, <1>2, <1>5 DEF CallTypes
  <2>2. \A n \in Sockets : \A i \in 1 .. Len(waiting[n]) :
          waiting[n][i] \in Callers
    BY <1>1 DEF CallTypes
  <2>3. QED
    BY <1>1, <1>3, <2>1, <2>2 DEF Waiters
<1>13. QED
  BY <1>6, <1>7, <1>8, <1>9, <1>10, <1>11, <1>12 DEF CallInv

(* A caller awaits a socket, for its handshake or for its request. *)
Joins(c) ==
  /\ c \in Callers
  /\ AwaitSocket(c)
  /\ \/ /\ pc[c] = "params"
        /\ pc' = [pc EXCEPT ![c] = "awaitInit"]
        /\ awaits' = [awaits EXCEPT ![c] = c]
        /\ initialize' = [initialize EXCEPT ![c] = "socket"]
        /\ initializePromise' = c
     \/ /\ c \in Requesters
        /\ pc[c] \in {"idle", "awaitInit"}
        /\ initialize[c] # "socket"
        /\ pc' = [pc EXCEPT ![c] = "socket"]
        /\ UNCHANGED <<awaits, initialize, initializePromise>>
  /\ initialized' \in BOOLEAN
  /\ UNCHANGED <<sentOn, pendingVars, serverVars, boundVars>>

(* It waits for one socket, which exists or is the next one. *)
LEMMA JoinsOne ==
  ASSUME CallInv, NEW c, Joins(c)
  PROVE  /\ Charged'
         /\ \E n \in Sockets :
              /\ waiting' = [waiting EXCEPT ![n] = Append(@, c)]
              /\ \/ UNCHANGED socketVars
                 \/ /\ n = opened + 1 /\ opened' = n /\ openPromise' = n
                    /\ phase' = [phase EXCEPT ![n] = "url"]
                    /\ phase[n] = "none"
                    /\ UNCHANGED socket
<1> DEFINE N == IF socket # None /\ phase[socket] = "open" THEN socket
                ELSE IF openPromise # None THEN openPromise
                ELSE opened + 1
<1>1. CallTypes /\ Progress /\ Fresh /\ Charged /\ c \in Callers
  BY DEF CallInv, Joins
<1>2. /\ Greeters \subseteq Greeters' /\ Askers \subseteq Askers'
      /\ c \in Greeters' \ Greeters \/ c \in Askers' \ Askers
  <2>1. \A d \in Callers \ {c} : pc'[d] = pc[d]
                                 /\ initialize'[d] = initialize[d]
    BY <1>1 DEF Joins, CallTypes
  <2>2. CASE pc[c] = "params"
    <3>1. initialize[c] = "none" /\ initialize'[c] = "socket"
          /\ pc'[c] = "awaitInit"
      BY <1>1, <2>2 DEF Joins, CallTypes, Progress
    <3>2. QED
      BY <1>1, <2>1, <2>2, <3>1 DEF Greeters, Askers
  <2>3. CASE pc[c] # "params"
    <3>1. /\ pc[c] \in {"idle", "awaitInit"} /\ pc'[c] = "socket"
          /\ initialize' = initialize
      BY <1>1, <2>3 DEF Joins, CallTypes
    <3>2. QED
      BY <1>1, <2>1, <3>1 DEF Greeters, Askers
  <2>4. QED
    BY <2>2, <2>3
<1>3. waiting' = [waiting EXCEPT ![N] = Append(@, c)]
  BY DEF Joins, AwaitSocket
<1>4. socket \in Nat /\ openPromise \in Nat /\ opened \in Nat
      /\ socket <= opened /\ openPromise <= opened
  BY <1>1, CallersFinite DEF CallTypes, Fresh, Sockets, None
<1>5. CASE N > opened
  <2>1. N = opened + 1
    BY <1>4, <1>5
  <2>2. /\ opened' = opened + 1 /\ openPromise' = N
        /\ phase' = [phase EXCEPT ![N] = "url"]
        /\ UNCHANGED socket
    BY <1>5, <2>1 DEF Joins, AwaitSocket
  <2>3. Charged' /\ opened' \in Sockets
    BY <1>1, <1>2, <2>2, ChargedGrows
  <2>4. N \in Sockets /\ phase[N] = "none"
    BY <1>1, <1>5, <2>1, <2>2, <2>3 DEF Fresh
  <2>5. QED
    BY <1>3, <2>1, <2>2, <2>3, <2>4
<1>6. CASE ~(N > opened)
  <2>1. UNCHANGED socketVars
    BY <1>6 DEF Joins, AwaitSocket
  <2>2. N \in Sockets
    <3>1. N # opened + 1
      BY <1>4, <1>6
    <3>2. QED
      BY <1>1, <3>1 DEF CallTypes
  <2>3. Charged'
    BY <1>1, <1>2, <2>1, ChargedKept DEF socketVars
  <2>4. QED
    BY <1>3, <2>1, <2>2, <2>3
<1>7. QED
  BY <1>5, <1>6

LEMMA JoinKeeps ==
  ASSUME CallInv, NEW c, Joins(c)
  PROVE  CallInv'
<1>1. CallTypes /\ Registered /\ Progress /\ Waiters /\ Fresh
      /\ c \in Callers
  BY DEF CallInv, Joins
<1>2. PICK n \in Sockets :
        /\ waiting' = [waiting EXCEPT ![n] = Append(@, c)]
        /\ \/ UNCHANGED socketVars
           \/ /\ n = opened + 1 /\ opened' = n /\ openPromise' = n
              /\ phase' = [phase EXCEPT ![n] = "url"]
              /\ phase[n] = "none"
              /\ UNCHANGED socket
  BY JoinsOne
<1>3. UNCHANGED <<sentOn, initPending, reqPending, outstanding, greeted,
                  events, closes>>
  BY DEF Joins, pendingVars, serverVars, boundVars
<1>4. /\ \A d \in Callers \ {c} : pc'[d] = pc[d] /\ awaits'[d] = awaits[d]
                                  /\ initialize'[d] = initialize[d]
      /\ pc' \in [Callers -> Points]
      /\ awaits' \in [Callers -> Callers \union {NoCaller}]
      /\ initialize' \in [Callers -> {"none", "socket", "sent", "ok",
                                      "failed"}]
      /\ initializePromise' \in Callers \union {NoCaller}
  BY <1>1 DEF Joins, CallTypes, Points
<1>5. /\ pc[c] \in {"idle", "params", "awaitInit"}
      /\ initialize[c] # "socket"
  BY <1>1 DEF Joins, Progress
<1>6. \/ /\ pc[c] = "params" /\ pc'[c] = "awaitInit" /\ awaits'[c] = c
         /\ initialize[c] = "none" /\ initialize'[c] = "socket"
      \/ /\ c \in Requesters /\ pc'[c] = "socket"
         /\ awaits'[c] = awaits[c] /\ initialize'[c] = initialize[c]
  BY <1>1 DEF Joins, CallTypes, Progress
<1>7. CallTypes'
  <2>1. phase' \in [Sockets -> Phases]
        /\ waiting' \in [Sockets -> Seq(Callers)]
    BY <1>1, <1>2 DEF CallTypes, Phases, socketVars
  <2>2. socket' \in Sockets \union {None}
        /\ openPromise' \in Sockets \union {None}
    BY <1>1, <1>2 DEF CallTypes, socketVars
  <2>3. opened' \in 0 .. 2 * Cardinality(Callers)
    BY <1>1, <1>2, CallersFinite DEF CallTypes, socketVars, Sockets
  <2>4. initialized' \in BOOLEAN
    BY DEF Joins
  <2>5. QED
    BY <1>1, <1>3, <1>4, <2>1, <2>2, <2>3, <2>4 DEF CallTypes
<1>8. Fresh'
  <2>1. CASE UNCHANGED socketVars
    BY <1>1, <2>1 DEF Fresh, socketVars
  <2>2. CASE ~UNCHANGED socketVars
    <3>1. /\ n = opened + 1 /\ opened' = n /\ openPromise' = n
          /\ phase' = [phase EXCEPT ![n] = "url"]
          /\ UNCHANGED socket
      BY <1>2, <2>2
    <3>2. opened \in Nat /\ socket \in Nat
      BY <1>1, CallersFinite DEF CallTypes, Sockets, None
    <3>3. \A k \in Sockets : k \in Nat
      BY CallersFinite DEF Sockets
    <3>4. QED
      BY <1>1, <3>1, <3>2, <3>3 DEF Fresh, CallTypes
  <2>3. QED
    BY <2>1, <2>2
<1>9. Charged'
  BY JoinsOne
<1>10. Progress'
  <2>1. ASSUME NEW d \in Callers
        PROVE  /\ initialize'[d] # "none" =>
                    awaits'[d] = d /\ pc'[d] \notin {"idle", "params"}
               /\ initialize'[d] = "socket" => pc'[d] = "awaitInit"
               /\ pc'[d] = "awaitInit" => awaits'[d] \in Callers
               /\ pc'[d] \in {"socket", "sent"} => d \in Requesters
    <3>1. CASE d # c
      BY <1>1, <1>4, <3>1 DEF Progress
    <3>2. CASE d = c
      BY <1>1, <1>5, <1>6, <3>2 DEF Progress
    <3>3. QED
      BY <3>1, <3>2
  <2>2. QED
    BY <2>1 DEF Progress
<1>11. Registered'
  <2>1. \A d \in Callers : pc'[d] = "sent" <=> pc[d] = "sent"
    BY <1>4, <1>5, <1>6
  <2>2. \A d \in Callers : initialize[d] = "sent" => initialize'[d] = "sent"
    BY <1>4, <1>6
  <2>3. QED
    BY <1>1, <1>3, <2>1, <2>2 DEF Registered
<1>12. SentCanSettle'
  <2>1. \A d \in Requesters : pc'[d] = "sent" => pc[d] = "sent"
    BY <1>4, <1>5, <1>6 DEF Callers
  <2>2. \A k \in Sockets : phase[k] \in {"open", "lost"} =>
                             phase'[k] = phase[k]
    BY <1>1, <1>2 DEF CallTypes, socketVars
  <2>3. \A d \in Requesters : pc[d] = "sent" =>
          /\ d \in reqPending /\ sentOn[d] \in Sockets
          /\ phase[sentOn[d]] \in {"open", "lost"}
    BY <1>1 DEF CallInv, SentCanSettle, Registered
  <2>4. QED
    BY <1>3, <2>1, <2>2, <2>3 DEF SentCanSettle
<1>13. Waiters'
  <2>1. \A k \in Sockets : waiting[k] \in Seq(Callers)
                           /\ waiting'[k] \in Seq(Callers)
    BY <1>1, <1>7 DEF CallTypes
  <2>2. \A k \in Sockets : \A i \in 1 .. Len(waiting[k]) :
          waiting[k][i] \in Callers \ {c}
    BY <1>1, <1>5, <2>1 DEF Waiters
  <2>3. \A k \in Sockets \ {n} : waiting'[k] = waiting[k]
    BY <1>1, <1>2 DEF CallTypes
  <2>4. /\ Len(waiting'[n]) = Len(waiting[n]) + 1
        /\ \A i \in 1 .. Len(waiting[n]) : waiting'[n][i] = waiting[n][i]
        /\ waiting'[n][Len(waiting[n]) + 1] = c
    BY <1>1, <1>2, <2>1 DEF CallTypes
  <2>5. \A k \in Sockets : \A i \in 1 .. Len(waiting'[k]) :
          \/ k = n /\ i = Len(waiting[n]) + 1 /\ waiting'[k][i] = c
          \/ i \in 1 .. Len(waiting[k]) /\ waiting'[k][i] = waiting[k][i]
    BY <2>1, <2>3, <2>4
  <2>6. initialize'[c] = "socket" \/ pc'[c] = "socket"
    BY <1>6
  <2>7. \A k \in Sockets : \A i \in 1 .. Len(waiting'[k]) :
          initialize'[waiting'[k][i]] = "socket"
          \/ pc'[waiting'[k][i]] = "socket"
    BY <1>1, <1>4, <2>2, <2>5, <2>6 DEF Waiters
  <2>8. ASSUME NEW k \in Sockets, NEW m \in Sockets,
               NEW i \in 1 .. Len(waiting'[k]),
               NEW j \in 1 .. Len(waiting'[m]),
               waiting'[k][i] = waiting'[m][j]
        PROVE  k = m /\ i = j
    <3>0. /\ \/ k = n /\ i = Len(waiting[n]) + 1 /\ waiting'[k][i] = c
             \/ i \in 1 .. Len(waiting[k]) /\ waiting'[k][i] = waiting[k][i]
          /\ \/ m = n /\ j = Len(waiting[n]) + 1 /\ waiting'[m][j] = c
             \/ j \in 1 .. Len(waiting[m]) /\ waiting'[m][j] = waiting[m][j]
      BY <2>5
    <3>1. CASE waiting'[k][i] = c
      <4>1. ~(i \in 1 .. Len(waiting[k]) /\ waiting'[k][i] = waiting[k][i])
        BY <2>2, <3>1
      <4>2. ~(j \in 1 .. Len(waiting[m]) /\ waiting'[m][j] = waiting[m][j])
        BY <2>2, <2>8, <3>1
      <4>3. QED
        BY <3>0, <4>1, <4>2
    <3>2. CASE waiting'[k][i] # c
      <4>1. /\ i \in 1 .. Len(waiting[k]) /\ waiting'[k][i] = waiting[k][i]
            /\ j \in 1 .. Len(waiting[m]) /\ waiting'[m][j] = waiting[m][j]
        BY <2>8, <3>0, <3>2
      <4>2. waiting[k][i] = waiting[m][j]
        BY <2>8, <4>1
      <4>3. \A x \in 1 .. Len(waiting[k]), y \in 1 .. Len(waiting[m]) :
              waiting[k][x] = waiting[m][y] => k = m /\ x = y
        BY <1>1 DEF Waiters
      <4>4. QED
        BY <4>1, <4>2, <4>3
    <3>3. QED
      BY <3>1, <3>2
  <2>9. QED
    BY <2>7, <2>8 DEF Waiters
<1>14. QED
  BY <1>7, <1>8, <1>9, <1>10, <1>11, <1>12, <1>13 DEF CallInv

(* The first who waits for a socket leaves, and only its call changes. *)
Leaves(n, c) ==
  /\ n \in Sockets
  /\ waiting[n] # <<>>
  /\ c = Head(waiting[n])
  /\ waiting' = [waiting EXCEPT ![n] = Tail(@)]
  /\ \A d \in Callers \ {c} : pc'[d] = pc[d] /\ initialize'[d] = initialize[d]

LEMMA FirstWaits ==
  ASSUME CallInv, NEW n \in Sockets, waiting[n] # <<>>
  PROVE  /\ Head(waiting[n]) \in Callers
         /\ 1 \in 1 .. Len(waiting[n]) /\ Head(waiting[n]) = waiting[n][1]
         /\ \/ initialize[Head(waiting[n])] = "socket"
            \/ pc[Head(waiting[n])] = "socket"
<1>1. waiting[n] \in Seq(Callers)
  BY DEF CallInv, CallTypes
<1>2. 1 \in 1 .. Len(waiting[n]) /\ Head(waiting[n]) = waiting[n][1]
      /\ waiting[n][1] \in Callers
  BY <1>1
<1>3. QED
  BY <1>2 DEF CallInv, Waiters

LEMMA LeavingKeepsWaiters ==
  ASSUME CallInv, NEW n, NEW c, Leaves(n, c)
  PROVE  Waiters' /\ waiting' \in [Sockets -> Seq(Callers)]
<1>1. Waiters /\ waiting \in [Sockets -> Seq(Callers)] /\ n \in Sockets
  BY DEF CallInv, CallTypes, Leaves
<1>2. waiting' \in [Sockets -> Seq(Callers)]
  BY <1>1 DEF Leaves
<1>3. 1 \in 1 .. Len(waiting[n]) /\ c = waiting[n][1]
  BY <1>1, FirstWaits DEF Leaves
<1>4. /\ Len(waiting'[n]) = Len(waiting[n]) - 1
      /\ \A i \in 1 .. Len(waiting'[n]) : waiting'[n][i] = waiting[n][i + 1]
      /\ \A k \in Sockets \ {n} : waiting'[k] = waiting[k]
  BY <1>1, <1>3 DEF Leaves
<1> DEFINE At(k, i) == IF k = n THEN i + 1 ELSE i
<1>5. \A k \in Sockets : \A i \in 1 .. Len(waiting'[k]) :
        /\ At(k, i) \in 1 .. Len(waiting[k])
        /\ waiting'[k][i] = waiting[k][At(k, i)]
        /\ ~(k = n /\ At(k, i) = 1)
  <2>1. \A k \in Sockets : Len(waiting[k]) \in Nat /\ Len(waiting'[k]) \in Nat
    BY <1>1, <1>2
  <2>2. QED
    BY <1>3, <1>4, <2>1
<1>6. \A k \in Sockets : \A i \in 1 .. Len(waiting'[k]) :
        waiting'[k][i] \in Callers \ {c}
  <2>1. SUFFICES ASSUME NEW k \in Sockets, NEW i \in 1 .. Len(waiting'[k])
                 PROVE  waiting'[k][i] \in Callers \ {c}
    OBVIOUS
  <2>2. At(k, i) \in 1 .. Len(waiting[k]) /\ ~(k = n /\ At(k, i) = 1)
        /\ waiting'[k][i] = waiting[k][At(k, i)]
    BY <1>5
  <2>3. waiting[k][At(k, i)] # waiting[n][1]
    BY <1>1, <1>3, <2>2 DEF Waiters
  <2>4. waiting[k] \in Seq(Callers)
    BY <1>1
  <2>5. QED
    BY <1>3, <2>2, <2>3, <2>4
<1>7. ASSUME NEW k \in Sockets, NEW i \in 1 .. Len(waiting'[k])
      PROVE  initialize'[waiting'[k][i]] = "socket"
             \/ pc'[waiting'[k][i]] = "socket"
  <2>1. /\ At(k, i) \in 1 .. Len(waiting[k])
        /\ waiting'[k][i] = waiting[k][At(k, i)]
        /\ waiting'[k][i] \in Callers \ {c}
    BY <1>5, <1>6
  <2>2. initialize[waiting'[k][i]] = "socket" \/ pc[waiting'[k][i]] = "socket"
    BY <1>1, <2>1 DEF Waiters
  <2>3. QED
    BY <2>1, <2>2 DEF Leaves
<1>8. ASSUME NEW k \in Sockets, NEW m \in Sockets,
             NEW i \in 1 .. Len(waiting'[k]), NEW j \in 1 .. Len(waiting'[m]),
             waiting'[k][i] = waiting'[m][j]
      PROVE  k = m /\ i = j
  <2>1. /\ At(k, i) \in 1 .. Len(waiting[k])
        /\ waiting'[k][i] = waiting[k][At(k, i)]
        /\ At(m, j) \in 1 .. Len(waiting[m])
        /\ waiting'[m][j] = waiting[m][At(m, j)]
    BY <1>5
  <2>2. waiting[k][At(k, i)] = waiting[m][At(m, j)]
    BY <1>8, <2>1
  <2>3. \A x \in 1 .. Len(waiting[k]), y \in 1 .. Len(waiting[m]) :
          waiting[k][x] = waiting[m][y] => k = m /\ x = y
    BY <1>1 DEF Waiters
  <2>4. k = m /\ At(k, i) = At(m, j)
    BY <2>1, <2>2, <2>3
  <2>5. i \in Int /\ j \in Int
    BY <1>2
  <2>6. QED
    BY <2>4, <2>5
<1>9. QED
  BY <1>2, <1>7, <1>8 DEF Waiters

LEMMA RefusedKeeps ==
  ASSUME CallInv, NEW n \in Sockets, SocketRefused(n)
  PROVE  CallInv'
<1> DEFINE c == Head(waiting[n])
<1>1. CallTypes /\ Registered /\ Progress /\ Fresh /\ Charged /\ c \in Callers
  BY FirstWaits DEF CallInv, SocketRefused
<1>2. UNCHANGED <<socket, openPromise, opened, phase, awaits, sentOn,
                  initPending, reqPending, initializePromise, initialized,
                  outstanding, greeted, events, closes>>
  BY DEF SocketRefused, socketVars, pendingVars, handshakeVars, serverVars,
         boundVars
<1>3. \/ /\ initialize[c] = "socket" /\ pc' = pc
         /\ initialize' = [initialize EXCEPT ![c] = "failed"]
      \/ /\ initialize[c] # "socket" /\ pc[c] = "socket"
         /\ pc' = [pc EXCEPT ![c] = "rejected"]
         /\ initialize' = initialize
  BY FirstWaits DEF SocketRefused
<1>4. Leaves(n, c)
  BY <1>1, <1>3 DEF SocketRefused, Leaves, CallTypes
<1>5. Waiters' /\ waiting' \in [Sockets -> Seq(Callers)]
  BY <1>4, LeavingKeepsWaiters
<1>6. \A d \in Callers :
        /\ initialize'[d] = "none" <=> initialize[d] = "none"
        /\ initialize'[d] = "socket" => initialize[d] = "socket"
        /\ initialize[d] = "sent" => initialize'[d] = "sent"
        /\ \/ pc'[d] = pc[d]
           \/ pc[d] = "socket" /\ pc'[d] = "rejected"
  BY <1>1, <1>3 DEF CallTypes
<1>7. CallTypes'
  <2>1. pc' \in [Callers -> Points] /\
        initialize' \in [Callers -> {"none", "socket", "sent", "ok", "failed"}]
    BY <1>1, <1>3 DEF CallTypes, Points
  <2>2. QED
    BY <1>1, <1>2, <1>5, <2>1 DEF CallTypes
<1>8. Fresh'
  BY <1>1, <1>2 DEF Fresh
<1>9. Charged'
  <2>1. Greeters \subseteq Greeters' /\ Askers \subseteq Askers'
    BY <1>6 DEF Greeters, Askers
  <2>2. QED
    BY <1>1, <1>2, <2>1, ChargedKept
<1>10. Progress'
  BY <1>1, <1>2, <1>6 DEF Progress
<1>11. Registered'
  BY <1>1, <1>2, <1>6 DEF Registered
<1>12. SentCanSettle'
  BY <1>2, <1>6 DEF CallInv, SentCanSettle, Callers
<1>13. QED
  BY <1>5, <1>7, <1>8, <1>9, <1>10, <1>11, <1>12 DEF CallInv

LEMMA ReadyKeeps ==
  ASSUME CallInv, NEW n \in Sockets, SocketReady(n)
  PROVE  CallInv'
<1> DEFINE c == Head(waiting[n])
<1>1. CallTypes /\ Registered /\ Progress /\ Fresh /\ Charged /\ c \in Callers
  BY FirstWaits DEF CallInv, SocketReady
<1>2. UNCHANGED <<socket, openPromise, opened, phase, awaits,
                  initializePromise, initialized, events, closes>>
      /\ phase[n] \in {"open", "lost"}
  BY DEF SocketReady, socketVars, handshakeVars, boundVars, Opened
<1>3. \/ /\ initialize[c] = "socket"
         /\ initialize' = [initialize EXCEPT ![c] = "sent"]
         /\ initPending' = c
         /\ UNCHANGED <<pc, reqPending, sentOn>>
      \/ /\ initialize[c] # "socket" /\ pc[c] = "socket"
         /\ pc' = [pc EXCEPT ![c] = "sent"]
         /\ reqPending' = reqPending \union {c}
         /\ sentOn' = [sentOn EXCEPT ![c] = n]
         /\ UNCHANGED <<initialize, initPending>>
  BY FirstWaits DEF SocketReady
<1>4. Leaves(n, c)
  BY <1>1, <1>3 DEF SocketReady, Leaves, CallTypes
<1>5. Waiters' /\ waiting' \in [Sockets -> Seq(Callers)]
  BY <1>4, LeavingKeepsWaiters
<1>6. pc[c] = "socket" => c \in Requesters
  BY <1>1 DEF Progress
<1>7. CallTypes'
  <2>1. pc' \in [Callers -> Points] /\
        initialize' \in [Callers -> {"none", "socket", "sent", "ok", "failed"}]
    BY <1>1, <1>3 DEF CallTypes, Points
  <2>2. /\ reqPending' \subseteq Requesters
        /\ sentOn' \in [Callers -> Sockets \union {None}]
        /\ initPending' \in Callers \union {NoCaller}
    BY <1>1, <1>3, <1>6 DEF CallTypes
  <2>3. outstanding' \subseteq [by : Callers, initialize : BOOLEAN,
                                socket : Sockets, ok : BOOLEAN]
        /\ greeted' \subseteq Sockets
    <3>1. CASE phase[n] = "open"
      <4>1. PICK first, ok \in BOOLEAN :
              /\ outstanding' = outstanding \union
                   {[by |-> c, initialize |-> first, socket |-> n, ok |-> ok]}
              /\ greeted' \subseteq greeted \union {n}
        BY <3>1 DEF SocketReady
      <4>2. QED
        BY <1>1, <4>1 DEF CallTypes
    <3>2. CASE phase[n] # "open"
      BY <1>1, <3>2 DEF CallTypes, SocketReady, serverVars
    <3>3. QED
      BY <3>1, <3>2
  <2>4. QED
    BY <1>1, <1>2, <1>5, <2>1, <2>2, <2>3 DEF CallTypes
<1>8. Fresh'
  BY <1>1, <1>2 DEF Fresh
<1>9. \A d \in Callers :
        /\ initialize'[d] = "none" <=> initialize[d] = "none"
        /\ initialize'[d] = "socket" => initialize[d] = "socket"
        /\ \/ pc'[d] = pc[d]
           \/ pc[d] = "socket" /\ pc'[d] = "sent"
  BY <1>1, <1>3 DEF CallTypes
<1>10. Charged'
  <2>1. Greeters \subseteq Greeters' /\ Askers \subseteq Askers'
    BY <1>9 DEF Greeters, Askers
  <2>2. QED
    BY <1>1, <1>2, <2>1, ChargedKept
<1>11. Progress'
  BY <1>1, <1>2, <1>9 DEF Progress
<1>12. Registered'
  <2>1. CASE initialize[c] = "socket"
    <3>1. initialize'[c] = "sent" /\ initPending' = c
          /\ UNCHANGED <<pc, reqPending, sentOn>>
      BY <1>1, <1>3, <2>1 DEF CallTypes
    <3>2. QED
      BY <1>1, <3>1 DEF Registered
  <2>2. CASE initialize[c] # "socket"
    <3>1. /\ pc'[c] = "sent" /\ reqPending' = reqPending \union {c}
          /\ sentOn' = [sentOn EXCEPT ![c] = n]
          /\ UNCHANGED <<initialize, initPending>>
          /\ \A d \in Callers \ {c} : pc'[d] = pc[d]
      BY <1>1, <1>3, <2>2 DEF CallTypes
    <3>2. QED
      BY <1>1, <3>1 DEF Registered, CallTypes
  <2>3. QED
    BY <2>1, <2>2
<1>13. SentCanSettle'
  <2>1. \A d \in Requesters : pc[d] = "sent" =>
          d \in reqPending /\ phase[sentOn[d]] \in {"open", "lost"}
    BY DEF CallInv, SentCanSettle
  <2>2. CASE initialize[c] = "socket"
    BY <1>2, <1>3, <2>1, <2>2 DEF SentCanSettle
  <2>3. CASE initialize[c] # "socket"
    <3>1. /\ reqPending' = reqPending \union {c}
          /\ sentOn'[c] = n
          /\ \A d \in Callers \ {c} : pc'[d] = pc[d] /\ sentOn'[d] = sentOn[d]
      BY <1>1, <1>3, <2>3 DEF CallTypes
    <3>2. QED
      BY <1>2, <2>1, <3>1 DEF SentCanSettle, Callers
  <2>4. QED
    BY <2>2, <2>3
<1>14. QED
  BY <1>5, <1>7, <1>8, <1>10, <1>11, <1>12, <1>13 DEF CallInv

LEMMA AnswerKeeps ==
  ASSUME CallInv, NEW m \in outstanding, Answer(m)
  PROVE  CallInv'
<1>1. CallTypes /\ Registered /\ Progress /\ Waiters /\ Fresh /\ Charged
  BY DEF CallInv
<1>2. UNCHANGED <<socket, openPromise, opened, phase, waiting, awaits, sentOn,
                  initializePromise, initialized, greeted, events, closes>>
      /\ outstanding' \subseteq outstanding
  BY DEF Answer, socketVars, handshakeVars, boundVars
<1>3. \/ /\ initialize' = [c \in Callers |->
                             IF c # initPending THEN initialize[c]
                             ELSE IF m.ok THEN "ok" ELSE "failed"]
         /\ initPending' = NoCaller
         /\ UNCHANGED <<pc, reqPending>>
      \/ /\ pc' = [c \in Callers |->
                     IF c # m.by \/ c \notin reqPending THEN pc[c]
                     ELSE IF m.ok THEN "resolved" ELSE "rejected"]
         /\ reqPending' = reqPending \ {m.by}
         /\ UNCHANGED <<initialize, initPending>>
  BY DEF Answer
<1>4. \A c \in Callers :
        /\ \/ initialize'[c] = initialize[c]
           \/ initialize[c] = "sent" /\ initialize'[c] \in {"ok", "failed"}
        /\ \/ pc'[c] = pc[c]
           \/ pc[c] = "sent" /\ pc'[c] \in {"resolved", "rejected"}
  BY <1>1, <1>3 DEF Registered
<1>5. CallTypes'
  <2>1. pc' \in [Callers -> Points] /\
        initialize' \in [Callers -> {"none", "socket", "sent", "ok", "failed"}]
    BY <1>1, <1>3 DEF CallTypes, Points
  <2>2. /\ reqPending' \subseteq Requesters
        /\ initPending' \in Callers \union {NoCaller}
        /\ outstanding' \subseteq [by : Callers, initialize : BOOLEAN,
                                   socket : Sockets, ok : BOOLEAN]
    BY <1>1, <1>2, <1>3 DEF CallTypes
  <2>3. QED
    BY <1>1, <1>2, <2>1, <2>2 DEF CallTypes
<1>6. Fresh'
  BY <1>1, <1>2 DEF Fresh
<1>7. Charged'
  <2>1. Greeters \subseteq Greeters' /\ Askers \subseteq Askers'
    BY <1>4 DEF Greeters, Askers
  <2>2. QED
    BY <1>1, <1>2, <2>1, ChargedKept
<1>8. Progress'
  BY <1>1, <1>2, <1>4 DEF Progress
<1>9. Registered'
  <2>1. initPending' \in Callers => initialize'[initPending'] = "sent"
    BY <1>1, <1>3, CallersAssumption DEF Registered
  <2>2. reqPending' = {c \in Callers : pc'[c] = "sent"}
    BY <1>1, <1>3 DEF Registered, CallTypes, Callers
  <2>3. reqPending' \subseteq reqPending
    BY <1>3
  <2>4. QED
    BY <1>1, <1>2, <2>1, <2>2, <2>3 DEF Registered
<1>10. SentCanSettle'
  <2>1. \A c \in Requesters : pc'[c] = "sent" =>
          pc[c] = "sent" /\ c \in reqPending'
    BY <1>4, <1>9 DEF Registered, Callers
  <2>2. QED
    BY <1>2, <2>1 DEF CallInv, SentCanSettle
<1>11. Waiters'
  <2>1. \A n \in Sockets : \A i \in 1 .. Len(waiting[n]) :
          waiting[n][i] \in Callers
    BY <1>1 DEF CallTypes
  <2>2. QED
    BY <1>1, <1>2, <1>4, <2>1 DEF Waiters
<1>12. QED
  BY <1>5, <1>6, <1>7, <1>8, <1>9, <1>10, <1>11 DEF CallInv

LEMMA CallKept ==
  ASSUME CallInv, [Next]_vars
  PROVE  CallInv'
<1>1. CASE UNCHANGED vars
  BY <1>1 DEF vars, socketVars, callVars, pendingVars, handshakeVars,
     serverVars, boundVars, CallInv, CallTypes, Fresh, Charged, Greeters,
     Askers, Progress, Registered, Waiters, SentCanSettle
<1>2. CASE \E c \in Callers : CallerStep(c)
  <2>1. PICK c \in Callers : CallerStep(c)
    BY <1>2
  <2>2. /\ NoCaller \notin Callers /\ initialized \in BOOLEAN
        /\ initializePromise \in Callers \union {NoCaller}
        /\ pc \in [Callers -> Points]
    BY CallersAssumption DEF CallInv, CallTypes
  <2>3. /\ pc[c] \in {"idle", "params"} => initialize[c] = "none"
        /\ pc[c] = "awaitInit" =>
             (initialize[c] # "none" => awaits[c] = c)
    BY DEF CallInv, CallTypes, Progress
  <2>9. ASSUME NEW p \in {"params", "awaitInit", "resolved"},
               pc[c] = "idle",
               pc' = [pc EXCEPT ![c] = p],
               p = "awaitInit" => initializePromise # NoCaller,
               awaits' = [awaits EXCEPT ![c] = initializePromise],
               UNCHANGED <<socketVars, waiting, initialize, sentOn,
                           pendingVars, handshakeVars, serverVars, boundVars>>
        PROVE  CallInv'
    <3>1. pc'[c] = p /\ initialize[c] # "socket" /\ initialized' = initialized
          /\ initializePromise' = initializePromise
      BY <2>2, <2>3, <2>9 DEF handshakeVars
    <3>2. CallerMoves(c)
      BY <2>2, <2>9, <3>1 DEF CallerMoves
    <3>3. QED
      BY <3>2, CallerKeeps
  <2>4. CASE Request(c)
    <3>1. CASE initialized
      <4>1. Joins(c)
        BY <2>2, <2>3, <2>4, <3>1 DEF Request, Joins, callVars, handshakeVars
      <4>2. QED
        BY <4>1, JoinKeeps
    <3>2. CASE ~initialized
      <4>1. \E p \in {"params", "awaitInit", "resolved"} :
              /\ pc' = [pc EXCEPT ![c] = p]
              /\ p = "awaitInit" => initializePromise # NoCaller
        BY <2>4, <3>2 DEF Request
      <4>2. QED
        BY <2>4, <2>9, <3>2, <4>1 DEF Request
    <3>3. QED
      BY <3>1, <3>2
  <2>10. CASE Watch(c)
    <3>1. \E p \in {"params", "awaitInit", "resolved"} :
            /\ pc' = [pc EXCEPT ![c] = p]
            /\ p = "awaitInit" => initializePromise # NoCaller
      BY <2>10 DEF Watch
    <3>2. QED
      BY <2>9, <2>10, <3>1 DEF Watch
  <2>5. CASE ParamsResolved(c)
    <3>1. Joins(c)
      BY <2>2, <2>5 DEF ParamsResolved, Joins
    <3>2. QED
      BY <3>1, JoinKeeps
  <2>6. CASE ParamsFail(c)
    <3>1. pc'[c] = "rejected" /\ initialize[c] # "socket"
      BY <2>2, <2>3, <2>6 DEF ParamsFail
    <3>2. CallerMoves(c)
      BY <2>2, <2>6, <3>1 DEF ParamsFail, CallerMoves, callVars, handshakeVars
    <3>3. QED
      BY <3>2, CallerKeeps
  <2>7. CASE InitContinues(c)
    <3>1. pc[c] = "awaitInit" /\ initialize[c] # "socket"
      BY <2>3, <2>7 DEF InitContinues, InitSettled
    <3>2. CASE pc' = [pc EXCEPT ![c] = "socket"]
      <4>1. pc'[c] = "socket"
        BY <2>2, <3>2
      <4>2. /\ c \in Requesters /\ AwaitSocket(c)
            /\ initialized' \in BOOLEAN
            /\ UNCHANGED <<awaits, initialize, initializePromise, sentOn,
                           pendingVars, serverVars, boundVars>>
        BY <2>2, <2>7, <4>1 DEF InitContinues, Callers
      <4>3. Joins(c)
        BY <3>1, <3>2, <4>2 DEF Joins
      <4>4. QED
        BY <4>3, JoinKeeps
    <3>3. CASE pc' # [pc EXCEPT ![c] = "socket"]
      <4>1. /\ \E p \in {"resolved", "rejected"} :
                 pc' = [pc EXCEPT ![c] = p] /\ pc'[c] = p
            /\ initialized' \in BOOLEAN
            /\ UNCHANGED <<socketVars, waiting, awaits, initialize, sentOn,
                           pendingVars, initializePromise, serverVars,
                           boundVars>>
        BY <2>2, <2>7, <3>3 DEF InitContinues
      <4>2. CallerMoves(c)
        BY <3>1, <4>1 DEF CallerMoves
      <4>3. QED
        BY <4>2, CallerKeeps
    <3>4. QED
      BY <3>2, <3>3
  <2>8. QED
    BY <2>1, <2>4, <2>5, <2>6, <2>7, <2>10 DEF CallerStep
<1>3. CASE \E n \in Sockets : SocketStep(n)
  <2>1. PICK n \in Sockets : SocketStep(n)
    BY <1>3
  <2>2. CASE SocketReady(n) \/ SocketRefused(n)
    BY <2>2, ReadyKeeps, RefusedKeeps
  <2>3. CASE UrlResolved(n) \/ UrlFails(n) \/ Opens(n) \/ Drops(n)
    <3>1. PhaseMoves(n)
      BY <2>3 DEF UrlResolved, UrlFails, Opens, Drops, PhaseMoves, Phases
    <3>2. QED
      BY <3>1, PhaseKeeps
  <2>4. CASE ErrorEvent(n) \/ CloseEvent(n)
    <3>1. /\ phase \in [Sockets -> Phases] /\ closes \in 0 .. MaxCloses
      BY DEF CallInv, CallTypes
    <3>2. /\ CloseSocketState /\ outstanding' \subseteq outstanding
          /\ phase[n] # "none"
          /\ phase' = [phase EXCEPT ![n] = "erring"]
             \/ phase' = [phase EXCEPT ![n] = "closed"]
          /\ UNCHANGED <<opened, waiting, awaits, sentOn, greeted, boundVars>>
      BY <2>4 DEF ErrorEvent, CloseEvent
    <3>3. TearsDown
      BY <3>1, <3>2 DEF TearsDown, boundVars, Phases
    <3>4. QED
      BY <3>3, TearDownKeeps
  <2>5. CASE Notify(n) \/ ErrorWithoutId(n)
    <3>1. /\ UNCHANGED <<socketVars, waiting, callVars, pendingVars,
                         handshakeVars, serverVars, closes>>
          /\ events' \in 0 .. MaxEvents
      BY <2>5, CallersAssumption DEF Notify, ErrorWithoutId, CallInv, CallTypes
    <3>2. QED
      BY <3>1 DEF socketVars, callVars, pendingVars, handshakeVars,
         serverVars, CallInv, CallTypes, Fresh, Charged, Greeters, Askers,
         Progress, Registered, Waiters, SentCanSettle
  <2>6. QED
    BY <2>1, <2>2, <2>3, <2>4, <2>5 DEF SocketStep
<1>4. CASE \E m \in outstanding : Answer(m)
  BY <1>4, AnswerKeeps
<1>5. CASE Close
  <2>1. phase \in [Sockets -> Phases] /\ closes \in 0 .. MaxCloses
    BY DEF CallInv, CallTypes
  <2>2. closes' \in 0 .. MaxCloses
    BY <1>5, <2>1, CallersAssumption DEF Close
  <2>3. TearsDown
    BY <1>5, <2>1, <2>2 DEF Close, TearsDown, serverVars, Phases
  <2>4. QED
    BY <2>3, TearDownKeeps
<1>6. CASE ReadNext \/ ReaderReturns
  <2>1. UNCHANGED <<socketVars, waiting, callVars, pendingVars, handshakeVars,
                    serverVars, boundVars>>
    BY <1>6 DEF ReadNext, ReaderReturns
  <2>2. QED
    BY <2>1 DEF socketVars, callVars, pendingVars, handshakeVars, serverVars,
       boundVars, CallInv, CallTypes, Fresh, Charged, Greeters, Askers,
       Progress, Registered, Waiters, SentCanSettle
<1>7. QED
  BY <1>1, <1>2, <1>3, <1>4, <1>5, <1>6 DEF Next

(* Who rejects a request that is on the wire of a socket that stays open.  *)
LEMMA RejectionStep ==
  ASSUME CallInv, [Next]_vars, NEW c \in Requesters, pc[c] = "sent",
         pc'[c] = "rejected", phase'[sentOn[c]] = "open"
  PROVE  \/ \E m \in outstanding \ outstanding' : m.by = c /\ ~m.ok
         \/ closes' # closes
         \/ \E n \in Sockets \ {sentOn[c]} :
              phase[n] # phase'[n] /\ phase'[n] \in {"erring", "closed"}
<1>0. /\ pc \in [Callers -> Points] /\ phase \in [Sockets -> Phases]
      /\ c \in Callers /\ pc'[c] # pc[c]
  BY DEF CallInv, CallTypes, Callers
<1>1. CASE UNCHANGED vars
  BY <1>0, <1>1 DEF vars, callVars
<1>2. CASE \E d \in Callers : CallerStep(d)
  <2>1. PICK d \in Callers : CallerStep(d)
    BY <1>2
  <2>2. pc[d] \in {"idle", "params", "awaitInit"}
        /\ \E p \in Points : pc' = [pc EXCEPT ![d] = p]
    BY <2>1 DEF CallerStep, Request, Watch, ParamsResolved, ParamsFail,
       InitContinues, InitSettled, Points
  <2>3. QED
    BY <1>0, <2>2
<1>3. CASE \E n \in Sockets : SocketStep(n)
  <2>1. PICK n \in Sockets : SocketStep(n)
    BY <1>3
  <2>2. CASE SocketReady(n)
    <3>1. pc' = pc \/ pc' = [pc EXCEPT ![Head(waiting[n])] = "sent"]
      BY <2>2 DEF SocketReady
    <3>2. QED
      BY <1>0, <3>1
  <2>3. CASE SocketRefused(n)
    <3>1. pc' = pc \/ /\ pc' = [pc EXCEPT ![Head(waiting[n])] = "rejected"]
                      /\ initialize[Head(waiting[n])] # "socket"
      BY <2>3 DEF SocketRefused
    <3>2. pc' = [pc EXCEPT ![Head(waiting[n])] = "rejected"]
          /\ pc[Head(waiting[n])] = "socket"
      BY <1>0, <2>3, <3>1, FirstWaits DEF SocketRefused
    <3>3. QED
      BY <1>0, <3>2
  <2>4. CASE UrlResolved(n) \/ UrlFails(n) \/ Opens(n) \/ Drops(n)
             \/ Notify(n) \/ ErrorWithoutId(n)
    BY <1>0, <2>4 DEF UrlResolved, UrlFails, Opens, Drops, Notify,
       ErrorWithoutId, callVars
  <2>5. CASE ErrorEvent(n) \/ CloseEvent(n)
    <3>1. phase[n] # phase'[n] /\ phase'[n] \in {"erring", "closed"}
      BY <1>0, <2>5 DEF ErrorEvent, CloseEvent
    <3>2. QED
      BY <3>1
  <2>6. QED
    BY <2>1, <2>2, <2>3, <2>4, <2>5 DEF SocketStep
<1>4. CASE \E m \in outstanding : Answer(m)
  <2>1. PICK m \in outstanding : Answer(m)
    BY <1>4
  <2>2. pc' = [d \in Callers |->
                 IF d # m.by \/ d \notin reqPending THEN pc[d]
                 ELSE IF m.ok THEN "resolved" ELSE "rejected"]
        /\ outstanding' = outstanding \ {m}
    BY <1>0, <2>1 DEF Answer
  <2>3. c = m.by /\ ~m.ok
    BY <1>0, <2>2
  <2>4. QED
    BY <2>2, <2>3
<1>5. CASE Close
  BY <1>5 DEF Close, CallInv, CallTypes
<1>6. CASE ReadNext \/ ReaderReturns
  BY <1>0, <1>6 DEF ReadNext, ReaderReturns, callVars
<1>7. QED
  BY <1>1, <1>2, <1>3, <1>4, <1>5, <1>6 DEF Next
-----------------------------------------------------------------------------
(* Theorems.                                                               *)

(* In every behaviour of the client both halves of the invariant hold.     *)
THEOREM Invariance == Spec => [](CallInv /\ QueueInv)
<1>1. Init => CallInv /\ QueueInv
  BY CallInitially, QueueInitially
<1>2. CallInv /\ QueueInv /\ [Next]_vars => (CallInv /\ QueueInv)'
  BY CallKept, QueueKept
<1>3. QED
  BY <1>1, <1>2, PTL DEF Spec

(* Every variable stays within its type; in particular no call needs more  *)
(* than two sockets, whatever is lost and reopened meanwhile.              *)
THEOREM TypeCorrect == Spec => []TypeOK
<1>1. CallInv /\ QueueInv => TypeOK
  BY DEF CallInv, CallTypes, QueueInv, QueueTypes, TypeOK
<1>2. QED
  BY <1>1, Invariance, PTL

(* A request on the wire is registered under its id, and its socket has    *)
(* yet to report its end.                                                  *)
THEOREM WireRequestsCanSettle == Spec => []SentCanSettle
<1>1. CallInv /\ QueueInv => SentCanSettle
  BY DEF CallInv
<1>2. QED
  BY <1>1, Invariance, PTL

(* The reader of the events sleeps only while there is nothing to read, no *)
(* close and no failure to report.                                         *)
THEOREM SleepsOnlyWhenQuiet == Spec => []WaitingMeansQuiet
<1>1. CallInv /\ QueueInv => WaitingMeansQuiet
  BY DEF QueueInv
<1>2. QED
  BY <1>1, Invariance, PTL

(* A request on the wire of a socket that stays open is rejected only by   *)
(* an error answer to it, by close(), or by another socket's late event.   *)
THEOREM RejectionsExplained == Spec => RejectedByTeardown
<1>1. CallInv /\ [Next]_vars =>
        [ \A c \in Requesters :
            pc[c] = "sent" /\ pc'[c] = "rejected"
              /\ phase'[sentOn[c]] = "open" =>
              \/ \E m \in outstanding \ outstanding' : m.by = c /\ ~m.ok
              \/ closes' # closes
              \/ \E n \in Sockets \ {sentOn[c]} :
                   phase[n] # phase'[n] /\ phase'[n] \in {"erring", "closed"}
        ]_vars
  BY RejectionStep
<1>2. QED
  BY <1>1, Invariance, PTL DEF Spec, RejectedByTeardown
=============================================================================
