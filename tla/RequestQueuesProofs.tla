------------------------ MODULE RequestQueuesProofs ------------------------
(* Proofs about RequestQueues for any connections and finitely many        *)
(* requests: the gate's counter is the number of handlers that run, and    *)
(* the promise chains implement Serializer.                                *)
EXTENDS RequestQueues, FiniteSetTheorems, TLAPS
-----------------------------------------------------------------------------
(* The gate.                                                               *)

Running(c) == {r \in Requests : Of[r] = c /\ phase[r] = "running"}

GateCounts == \A c \in Connections : inFlight[c] = Cardinality(Running(c))

GateInv == TypeOK /\ GateCounts /\ CloseWaits

LEMMA RunningFinite ==
  ASSUME NEW c
  PROVE  IsFiniteSet(Running(c)) /\ IsFiniteSet(Running(c)')
<1>1. Running(c) \in SUBSET Requests /\ Running(c)' \in SUBSET Requests
  BY DEF Running
<1>2. QED
  BY <1>1, FS_Subset, QueuesAssumption

(* A request that begins to run enters the gate of its connection. *)
LEMMA EnterCounts ==
  ASSUME TypeOK, GateCounts, NEW r \in Requests, phase[r] # "running",
         phase' = [phase EXCEPT ![r] = "running"],
         inFlight' = [inFlight EXCEPT ![Of[r]] = @ + 1]
  PROVE  GateCounts' /\ inFlight' \in [Connections -> Nat]
<1>0. Of[r] \in Connections
  BY QueuesAssumption
<1>1. SUFFICES ASSUME NEW c \in Connections
               PROVE  inFlight'[c] = Cardinality(Running(c)')
  BY <1>0 DEF GateCounts, TypeOK
<1>2. CASE c = Of[r]
  <2>1. Running(c)' = Running(c) \cup {r} /\ r \notin Running(c)
    BY <1>2 DEF Running, TypeOK
  <2>2. Cardinality(Running(c)') = Cardinality(Running(c)) + 1
    BY <2>1, FS_AddElement, RunningFinite
  <2>3. QED
    BY <1>2, <2>2 DEF GateCounts, TypeOK
<1>3. CASE c # Of[r]
  <2>1. Running(c)' = Running(c)
    BY <1>3 DEF Running, TypeOK
  <2>2. QED
    BY <1>3, <2>1 DEF GateCounts, TypeOK
<1>4. QED
  BY <1>2, <1>3

(* One that runs and stops leaves it. *)
LEMMA LeaveCounts ==
  ASSUME TypeOK, GateCounts, NEW r \in Requests, phase[r] = "running",
         NEW p \in Phases, p # "running",
         phase' = [phase EXCEPT ![r] = p],
         inFlight' = [inFlight EXCEPT ![Of[r]] = @ - 1]
  PROVE  GateCounts' /\ inFlight' \in [Connections -> Nat]
<1>0. Of[r] \in Connections
  BY QueuesAssumption
<1>1. \A c \in Connections : inFlight'[c] = Cardinality(Running(c)')
  <2>1. TAKE c \in Connections
  <2>2. CASE c = Of[r]
    <3>1. Running(c)' = Running(c) \ {r} /\ r \in Running(c)
      BY <2>2 DEF Running, TypeOK
    <3>2. Cardinality(Running(c)') = Cardinality(Running(c)) - 1
      BY <3>1, FS_RemoveElement, RunningFinite
    <3>3. QED
      BY <2>2, <3>2 DEF GateCounts, TypeOK
  <2>3. CASE c # Of[r]
    <3>1. Running(c)' = Running(c)
      BY <2>3 DEF Running, TypeOK
    <3>2. QED
      BY <2>3, <3>1 DEF GateCounts, TypeOK
  <2>4. QED
    BY <2>2, <2>3
<1>2. \A c \in Connections : Cardinality(Running(c)') \in Nat
  BY RunningFinite, FS_CardinalityType
<1>3. \A c \in Connections : inFlight'[c] \in Nat
  BY <1>1, <1>2
<1>4. GateCounts'
  BY <1>1 DEF GateCounts
<1>5. inFlight' = [c \in Connections |-> inFlight'[c]]
  BY DEF TypeOK
<1>6. QED
  BY <1>3, <1>4, <1>5

(* Any other change of phase leaves the counters as they are. *)
LEMMA KeepCounts ==
  ASSUME TypeOK, GateCounts, NEW r \in Requests, phase[r] # "running",
         NEW p \in Phases, p # "running",
         phase' = [phase EXCEPT ![r] = p],
         UNCHANGED inFlight
  PROVE  GateCounts'
<1>1. \A c : Running(c)' = Running(c)
  BY DEF Running, TypeOK
<1>2. QED
  BY <1>1 DEF GateCounts

LEMMA SameCounts ==
  ASSUME GateCounts, UNCHANGED <<phase, inFlight>>
  PROVE  GateCounts'
<1>1. \A c : Running(c)' = Running(c)
  BY DEF Running
<1>2. QED
  BY <1>1 DEF GateCounts

LEMMA GateInit == Init => GateInv
<1> SUFFICES ASSUME Init PROVE GateInv
  OBVIOUS
<1>1. TypeOK
  BY QueuesAssumption DEF Init, TypeOK, Phases, Scoped
<1>2. GateCounts
  <2>1. \A c : Running(c) = {}
    BY DEF Init, Running
  <2>2. QED
    BY <2>1, FS_EmptySet DEF GateCounts, Init
<1>3. CloseWaits
  BY DEF Init, CloseWaits
<1>4. QED
  BY <1>1, <1>2, <1>3 DEF GateInv

(* The gate's invariant is kept by every step. *)
LEMMA GateStep == GateInv /\ [Next]_vars => GateInv'
<1> SUFFICES ASSUME GateInv, [Next]_vars PROVE GateInv'
  OBVIOUS
<1> USE QueuesAssumption
<1>0. TypeOK /\ GateCounts /\ CloseWaits
  BY DEF GateInv
<1>1. ASSUME NEW r \in Requests, Accept(r) PROVE GateInv'
  <2>1. PICK scope \in ScopesOf(r) :
          /\ subs' = IF scope \in Threads THEN subs \cup {<<scope, Of[r]>>}
                     ELSE subs
          /\ \/ AcceptInitialize(r)
             \/ AcceptRefused(r)
             \/ scope = NoScope /\ AcceptUnscoped(r)
             \/ scope # NoScope /\ AcceptScoped(r, scope)
    BY <1>1 DEF Accept
  <2>2. /\ conn[Of[r]] = "open" /\ phase[r] = "idle"
        /\ UNCHANGED <<conn, live, answer, background, late>>
    BY <1>1 DEF Accept
  <2>3. subs' \subseteq Threads \X Connections
    BY <1>0, <2>1 DEF TypeOK
  <2>4. CASE AcceptInitialize(r)
    <3>1. GateCounts'
      BY <1>0, <2>2, <2>4, KeepCounts DEF AcceptInitialize, Phases
    <3>2. TypeOK' /\ CloseWaits'
      BY <1>0, <2>2, <2>3, <2>4
         DEF AcceptInitialize, TypeOK, CloseWaits, Phases, queueVars
    <3>3. QED
      BY <3>1, <3>2 DEF GateInv
  <2>5. CASE AcceptRefused(r)
    <3>1. GateCounts'
      BY <1>0, <2>2, <2>5, KeepCounts DEF AcceptRefused, Phases
    <3>2. TypeOK' /\ CloseWaits'
      BY <1>0, <2>2, <2>3, <2>5
         DEF AcceptRefused, TypeOK, CloseWaits, Phases, queueVars
    <3>3. QED
      BY <3>1, <3>2 DEF GateInv
  <2>6. CASE AcceptUnscoped(r)
    <3>1. GateCounts' /\ inFlight' \in [Connections -> Nat]
      BY <1>0, <2>2, <2>6, EnterCounts DEF AcceptUnscoped
    <3>2. TypeOK' /\ CloseWaits'
      BY <1>0, <2>2, <2>3, <2>6, <3>1
         DEF AcceptUnscoped, TypeOK, CloseWaits, Phases, queueVars
    <3>3. QED
      BY <3>1, <3>2 DEF GateInv
  <2>7. CASE scope # NoScope /\ AcceptScoped(r, scope)
    <3>1. GateCounts'
      BY <1>0, <2>2, <2>7, KeepCounts DEF AcceptScoped, Phases
    <3>2. r \in Scoped /\ scope = Scope[r] /\ scope \in Scopes
      BY <2>7 DEF ScopesOf, Scoped
    <3>3. /\ tails' \in [Scopes -> Scoped \cup {NoRequest}]
          /\ prev' \in [Scoped -> Scoped \cup {NoRequest}]
          /\ ahead' \in [Scoped -> SUBSET Scoped]
      BY <1>0, <2>7, <3>2 DEF AcceptScoped, TypeOK
    <3>4. phase' \in [Requests -> Phases] /\ CloseWaits'
      BY <1>0, <2>2, <2>7 DEF AcceptScoped, TypeOK, CloseWaits, Phases
    <3>5. TypeOK'
      BY <1>0, <2>2, <2>3, <2>7, <3>3, <3>4 DEF AcceptScoped, TypeOK
    <3>6. QED
      BY <3>1, <3>4, <3>5 DEF GateInv
  <2>8. QED
    BY <2>1, <2>4, <2>5, <2>6, <2>7
<1>2. ASSUME NEW r \in Requests, Start(r) PROVE GateInv'
  <2>1. CASE Accepting(Of[r])
    <3>1. GateCounts' /\ inFlight' \in [Connections -> Nat]
      BY <1>0, <1>2, <2>1, EnterCounts DEF Start
    <3>2. TypeOK' /\ CloseWaits'
      BY <1>0, <1>2, <2>1, <3>1
         DEF Start, Accepting, TypeOK, CloseWaits, Phases, connVars, queueVars
    <3>3. QED
      BY <3>1, <3>2 DEF GateInv
  <2>2. CASE ~Accepting(Of[r])
    <3>1. GateCounts'
      BY <1>0, <1>2, <2>2, KeepCounts DEF Start, Phases
    <3>2. TypeOK' /\ CloseWaits'
      BY <1>0, <1>2, <2>2
         DEF Start, TypeOK, CloseWaits, Phases, connVars, queueVars
    <3>3. QED
      BY <3>1, <3>2 DEF GateInv
  <2>3. QED
    BY <2>1, <2>2
<1>3. ASSUME NEW r \in Requests, Cleanup(r) PROVE GateInv'
  <2>1. GateCounts'
    BY <1>0, <1>3, SameCounts DEF Cleanup
  <2>2. TypeOK' /\ CloseWaits'
    BY <1>0, <1>3 DEF Cleanup, TypeOK, CloseWaits, connVars, Scoped
  <2>3. QED
    BY <2>1, <2>2 DEF GateInv
<1>4. ASSUME NEW r \in Requests, HandlerEnds(r) PROVE GateInv'
  <2>1. PICK p \in {"result", "error", "deferred"} :
          phase' = [phase EXCEPT ![r] = p]
    BY <1>4 DEF HandlerEnds
  <2>2. GateCounts' /\ inFlight' \in [Connections -> Nat]
    BY <1>0, <1>4, <2>1, LeaveCounts DEF HandlerEnds, Phases
  <2>3. TypeOK' /\ CloseWaits'
    BY <1>0, <1>4, <2>1, <2>2
       DEF HandlerEnds, TypeOK, CloseWaits, Phases, connVars, queueVars
  <2>4. QED
    BY <2>2, <2>3 DEF GateInv
<1>5. ASSUME NEW r \in Requests, InitializeEnds(r) PROVE GateInv'
  <2>1. PICK p \in {"result", "error"} : phase' = [phase EXCEPT ![r] = p]
    BY <1>5 DEF InitializeEnds
  <2>2. GateCounts'
    BY <1>0, <1>5, <2>1, KeepCounts DEF InitializeEnds, Phases
  <2>3. TypeOK' /\ CloseWaits'
    BY <1>0, <1>5, <2>1
       DEF InitializeEnds, TypeOK, CloseWaits, Phases, connVars, queueVars
  <2>4. QED
    BY <2>2, <2>3 DEF GateInv
<1>6. ASSUME NEW r \in Requests,
             SendResponse(r) \/ SendError(r) \/ LeaveDeferred(r)
      PROVE  GateInv'
  <2>1. /\ phase[r] \in {"result", "error", "deferred"}
        /\ UNCHANGED <<conn, initialized, inFlight, background, queueVars,
                       late>>
    BY <1>6 DEF SendResponse, SendError, LeaveDeferred
  <2>2. PICK p \in {"error", "lost", "over"} :
          phase' = [phase EXCEPT ![r] = p]
    BY <1>6 DEF SendResponse, SendError, LeaveDeferred, Continue
  <2>3. /\ answer' \in [Requests -> {"none", "sent", "lost"}]
        /\ live' \subseteq Connections
        /\ subs' \subseteq Threads \X Connections
    BY <1>0, <1>6
       DEF SendResponse, SendError, LeaveDeferred, Continue, Deliver, TypeOK
  <2>4. GateCounts'
    BY <1>0, <2>1, <2>2, KeepCounts DEF Phases
  <2>5. TypeOK' /\ CloseWaits'
    BY <1>0, <2>1, <2>2, <2>3 DEF TypeOK, CloseWaits, Phases, queueVars
  <2>6. QED
    BY <2>4, <2>5 DEF GateInv
<1>7. ASSUME NEW r \in Requests, SendDeferred(r) PROVE GateInv'
  <2>1. GateCounts'
    BY <1>0, <1>7, SameCounts DEF SendDeferred
  <2>2. TypeOK' /\ CloseWaits'
    BY <1>0, <1>7
       DEF SendDeferred, Deliver, TypeOK, CloseWaits, connVars, queueVars
  <2>3. QED
    BY <2>1, <2>2 DEF GateInv
<1>8. ASSUME NEW c \in Connections, Close(c) PROVE GateInv'
  <2>1. GateCounts'
    BY <1>0, <1>8, SameCounts DEF Close
  <2>2. TypeOK' /\ CloseWaits'
    BY <1>0, <1>8 DEF Close, TypeOK, CloseWaits, queueVars
  <2>3. QED
    BY <2>1, <2>2 DEF GateInv
<1>9. ASSUME NEW c \in Connections, Closed(c) PROVE GateInv'
  <2>1. GateCounts'
    BY <1>0, <1>9, SameCounts DEF Closed
  <2>2. TypeOK'
    BY <1>0, <1>9 DEF Closed, TypeOK, queueVars
  <2>3. Running(c) = {}
    BY <1>0, <1>9, RunningFinite, FS_EmptySet DEF Closed, GateCounts
  <2>4. CloseWaits'
    BY <1>0, <1>9, <2>3 DEF Closed, CloseWaits, Running, TypeOK
  <2>5. QED
    BY <2>1, <2>2, <2>4 DEF GateInv
<1>10. CASE UNCHANGED vars
  <2>1. GateCounts'
    BY <1>0, <1>10, SameCounts DEF vars
  <2>2. TypeOK' /\ CloseWaits'
    BY <1>0, <1>10 DEF vars, connVars, queueVars, TypeOK, CloseWaits
  <2>3. QED
    BY <2>1, <2>2 DEF GateInv
<1>11. QED
  BY <1>1, <1>2, <1>3, <1>4, <1>5, <1>6, <1>7, <1>8, <1>9, <1>10
     DEF Next, Scheduled, Hosted

(* The counter of a gate is the number of its handlers that run, and none  *)
(* runs once the connection is closed.                                     *)
THEOREM GateInvariance == Spec => []GateInv
<1>1. QED
  BY GateInit, GateStep, PTL DEF Spec

(* Every variable of the request queues stays within its type; the         *)
(* counter of a gate never goes below zero.                                *)
THEOREM TypeCorrect == Spec => []TypeOK
<1>1. GateInv => TypeOK
  BY DEF GateInv
<1>2. QED
  BY <1>1, GateInvariance, PTL

(* close() waits for the handlers that the gate let in: the connection is  *)
(* closed when none runs, and none starts after that.                      *)
THEOREM CloseDrains == Spec => []CloseWaits
<1>1. GateInv => CloseWaits
  BY DEF GateInv
<1>2. QED
  BY <1>1, GateInvariance, PTL
-----------------------------------------------------------------------------
(* The queues.                                                             *)

(* What a request in a queue knows of those before it: they have settled,  *)
(* or are its predecessor and those before that one.                       *)
ChainInv ==
  /\ \A r \in Requests : phase[r] = "queued" => r \in Scoped /\ Chained(r)
  /\ \A r \in Scoped : Chained(r) => phase[r] # "idle"
  /\ \A r \in cleaned : WorkEnded(r)
  /\ \A r \in Scoped : Chained(r) =>
       /\ phase[r] # "queued" => ahead[r] \subseteq cleaned
       /\ prev[r] = NoRequest => ahead[r] \subseteq cleaned
       /\ prev[r] # NoRequest =>
            Chained(prev[r]) /\ ahead[r] \subseteq ahead[prev[r]] \cup {prev[r]}

(* The tail of a queue is the last one to have joined it; without one, all *)
(* that joined it have settled.                                            *)
TailInv ==
  \A k \in Scopes :
    /\ tails[k] = NoRequest =>
         \A s \in Scoped : Scope[s] = k /\ Chained(s) => s \in cleaned
    /\ tails[k] # NoRequest =>
         /\ Chained(tails[k]) /\ Scope[tails[k]] = k
         /\ \A s \in Scoped : Scope[s] = k /\ Chained(s) =>
              s = tails[k] \/ s \in ahead[tails[k]]

QueueInv == ChainInv /\ TailInv

stages == [r \in Scoped |-> Stage(r)]

LEMMA QueueInit == Init => QueueInv /\ Abstract!SInit
<1> SUFFICES ASSUME Init PROVE QueueInv /\ Abstract!SInit
  OBVIOUS
<1> USE QueuesAssumption DEF Init, Chained, Scoped
<1>1. ChainInv
  BY DEF ChainInv
<1>2. TailInv
  BY DEF TailInv
<1>3. Abstract!SInit
  BY DEF Abstract!SInit, Stage
<1>4. QED
  BY <1>1, <1>2, <1>3 DEF QueueInv

(* A request whose phase changes outside its queue: it is in none, or its  *)
(* work has ended.                                                         *)
LEMMA OutsideQueue ==
  ASSUME TypeOK, QueueInv, NEW r \in Requests,
         phase[r] \notin {"queued", "running"} \/ ~(r \in Scoped /\ Chained(r)),
         NEW p \in Phases, p \notin {"idle", "queued"},
         p = "running" => ~(r \in Scoped /\ Chained(r)),
         phase' = [phase EXCEPT ![r] = p],
         UNCHANGED queueVars
  PROVE  QueueInv' /\ UNCHANGED <<stages, ahead>>
<1> USE DEF queueVars, Chained, Scoped
<1>1. ChainInv'
  BY DEF QueueInv, ChainInv, WorkEnded, TypeOK
<1>2. TailInv'
  BY DEF QueueInv, TailInv
<1>3. \A s \in Scoped : Stage(s)' = Stage(s)
  BY DEF Stage, TypeOK
<1>4. QED
  BY <1>1, <1>2, <1>3 DEF QueueInv, stages

(* Nothing of the queues changes. *)
LEMMA QueuesKeep ==
  ASSUME QueueInv, UNCHANGED <<phase, queueVars>>
  PROVE  QueueInv' /\ UNCHANGED <<stages, ahead>>
  BY DEF QueueInv, ChainInv, TailInv, queueVars, Chained, WorkEnded, Stage,
         stages

(* enqueue is Put. *)
LEMMA EnqueuePuts ==
  ASSUME TypeOK, QueueInv, NEW r \in Requests, NEW k \in ScopesOf(r),
         k # NoScope, phase[r] = "idle", AcceptScoped(r, k)
  PROVE  QueueInv' /\ r \in Scoped /\ Abstract!Put(r)
<1> USE QueuesAssumption
<1>1. r \in Scoped /\ k = Scope[r] /\ k \in Scopes
  BY DEF ScopesOf, Scoped
<1>2. ~Chained(r)
  BY <1>1 DEF QueueInv, ChainInv
<1>3. /\ phase' = [phase EXCEPT ![r] = "queued"]
      /\ prev' = [prev EXCEPT ![r] = tails[k]]
      /\ tails' = [tails EXCEPT ![k] = r]
      /\ ahead' = [ahead EXCEPT ![r] =
           {s \in Scoped : Scope[s] = k /\ Chained(s)}]
      /\ cleaned' = cleaned
  BY DEF AcceptScoped
<1>4. /\ tails[k] \in Scoped \cup {NoRequest} /\ tails[k] # r
      /\ NoRequest \notin Scoped
      /\ tails[k] # NoRequest => Chained(tails[k])
  BY <1>1, <1>2 DEF TypeOK, QueueInv, TailInv, Scoped
<1>5. \A s \in Scoped : Chained(s)' <=> Chained(s) \/ s = r
  BY <1>1, <1>3, <1>4 DEF Chained, TypeOK
<1>6. \A s \in Scoped : s # r =>
        phase'[s] = phase[s] /\ prev'[s] = prev[s] /\ ahead'[s] = ahead[s]
  BY <1>1, <1>3 DEF TypeOK
<1>7. /\ phase'[r] = "queued" /\ prev'[r] = tails[k]
      /\ ahead'[r] = {s \in Scoped : Scope[s] = k /\ Chained(s)}
  BY <1>1, <1>3 DEF TypeOK, Scoped
<1>8. r \notin cleaned /\ cleaned \subseteq Scoped
  BY <1>2 DEF QueueInv, ChainInv, WorkEnded, TypeOK
<1>9. ChainInv'
  <2>1. \A q \in Requests :
          phase'[q] = "queued" => q \in Scoped /\ Chained(q)'
    BY <1>1, <1>3, <1>5 DEF QueueInv, ChainInv, TypeOK
  <2>2. \A q \in Scoped : Chained(q)' => phase'[q] # "idle"
    BY <1>5, <1>6, <1>7 DEF QueueInv, ChainInv
  <2>3. \A q \in cleaned' : WorkEnded(q)'
    BY <1>3, <1>5, <1>6, <1>8 DEF QueueInv, ChainInv, WorkEnded
  <2>4. ASSUME NEW q \in Scoped, Chained(q)'
        PROVE  /\ phase'[q] # "queued" => ahead'[q] \subseteq cleaned'
               /\ prev'[q] = NoRequest => ahead'[q] \subseteq cleaned'
               /\ prev'[q] # NoRequest =>
                    /\ Chained(prev[q])'
                    /\ ahead'[q] \subseteq ahead'[prev'[q]] \cup {prev'[q]}
    <3>1. CASE q = r
      <4>1. tails[k] = NoRequest => ahead'[r] \subseteq cleaned
        BY <1>1, <1>7 DEF QueueInv, TailInv
      <4>2. ASSUME tails[k] # NoRequest
            PROVE  /\ prev'[tails[k]] # tails[k]
                   /\ ahead'[r] \subseteq ahead'[tails[k]] \cup {tails[k]}
        <5>1. tails[k] \in Scoped /\ tails[k] # r /\ Chained(tails[k])
          BY <1>4, <4>2
        <5>2. /\ prev'[tails[k]] = prev[tails[k]]
              /\ ahead'[tails[k]] = ahead[tails[k]]
          BY <1>6, <5>1
        <5>3. \A s \in Scoped : Scope[s] = k /\ Chained(s) =>
                s = tails[k] \/ s \in ahead[tails[k]]
          BY <1>1, <4>2 DEF QueueInv, TailInv
        <5>4. QED
          BY <1>7, <5>1, <5>2, <5>3 DEF Chained
      <4>3. /\ phase'[r] = "queued" /\ prev'[r] = tails[k]
            /\ cleaned' = cleaned
        BY <1>3, <1>7
      <4>4. prev'[r] # NoRequest => Chained(prev[r])'
        BY <4>2, <4>3 DEF Chained
      <4>5. QED
        BY <3>1, <4>1, <4>2, <4>3, <4>4
    <3>2. CASE q # r
      <4>1. Chained(q) /\ prev[q] \in Scoped \cup {NoRequest}
        BY <1>5, <2>4, <3>2 DEF TypeOK
      <4>2. prev[q] # NoRequest => prev[q] # r /\ Chained(prev[q])
        BY <1>2, <4>1 DEF QueueInv, ChainInv
      <4>3. QED
        BY <1>3, <1>5, <1>6, <3>2, <4>1, <4>2 DEF QueueInv, ChainInv, Chained
    <3>3. QED
      BY <3>1, <3>2
  <2>5. QED
    BY <2>1, <2>2, <2>3, <2>4 DEF ChainInv, Chained
<1>10. TailInv'
  <2>1. ASSUME NEW j \in Scopes
        PROVE  /\ tails'[j] = NoRequest =>
                    \A s \in Scoped :
                      Scope[s] = j /\ Chained(s)' => s \in cleaned'
               /\ tails'[j] # NoRequest =>
                    /\ Chained(tails[j])' /\ Scope[tails'[j]] = j
                    /\ \A s \in Scoped : Scope[s] = j /\ Chained(s)' =>
                         s = tails'[j] \/ s \in ahead'[tails'[j]]
    <3>1. CASE j = k
      <4>1. tails'[j] = r /\ r # NoRequest
        BY <1>1, <1>3, <1>4, <3>1 DEF TypeOK
      <4>2. QED
        BY <1>1, <1>5, <1>7, <3>1, <4>1 DEF Chained
    <3>2. CASE j # k
      <4>1. tails'[j] = tails[j] /\ tails[j] \in Scoped \cup {NoRequest}
        BY <1>3, <3>2 DEF TypeOK
      <4>2. tails[j] # NoRequest => tails[j] # r
        BY <1>1, <3>2 DEF QueueInv, TailInv
      <4>3. \A s \in Scoped : Scope[s] = j => s # r
        BY <1>1, <3>2
      <4>4. QED
        BY <1>3, <1>5, <1>6, <4>1, <4>2, <4>3
           DEF QueueInv, TailInv, Chained
    <3>3. QED
      BY <3>1, <3>2
  <2>2. QED
    BY <2>1 DEF TailInv, Chained
<1>11. Abstract!Put(r)
  <2>1. \A s \in Scoped : Stage(s) # "new" <=> Chained(s)
    BY DEF Stage
  <2>2. stages' = [stages EXCEPT ![r] = "waiting"]
    BY <1>1, <1>5, <1>6, <1>7 DEF stages, Stage
  <2>3. ahead' = [ahead EXCEPT ![r] =
          {s \in Scoped : [q \in Scoped |-> Scope[q]][s]
                            = [q \in Scoped |-> Scope[q]][r]
                          /\ stages[s] # "new"}]
    BY <1>1, <1>3, <2>1 DEF stages
  <2>4. stages[r] = "new"
    BY <1>1, <1>2 DEF stages, Stage
  <2>5. QED
    BY <2>2, <2>3, <2>4 DEF Abstract!Put, stages
<1>12. QED
  BY <1>1, <1>9, <1>10, <1>11 DEF QueueInv

(* A queued request whose predecessor's tail has settled has its turn.     *)
LEMMA TurnComes ==
  ASSUME TypeOK, QueueInv, NEW r \in Requests, phase[r] = "queued",
         prev[r] = NoRequest \/ prev[r] \in cleaned
  PROVE  r \in Scoped /\ Chained(r) /\ ahead[r] \subseteq cleaned
<1> USE QueuesAssumption
<1>1. r \in Scoped /\ Chained(r)
  BY DEF QueueInv, ChainInv
<1>2. CASE prev[r] = NoRequest
  BY <1>1, <1>2 DEF QueueInv, ChainInv
<1>3. CASE prev[r] # NoRequest
  <2>1. /\ prev[r] \in cleaned /\ prev[r] \in Scoped
        /\ ahead[r] \subseteq ahead[prev[r]] \cup {prev[r]}
    BY <1>1, <1>3 DEF QueueInv, ChainInv, TypeOK
  <2>2. Chained(prev[r]) /\ phase[prev[r]] # "queued"
    BY <2>1 DEF QueueInv, ChainInv, WorkEnded
  <2>3. ahead[prev[r]] \subseteq cleaned
    BY <2>1, <2>2 DEF QueueInv, ChainInv
  <2>4. QED
    BY <1>1, <2>1, <2>3
<1>4. QED
  BY <1>2, <1>3

(* Such a request begins its work, or is refused by the gate: Begin or     *)
(* Refuse.                                                                 *)
LEMMA StartBegins ==
  ASSUME TypeOK, QueueInv, NEW r \in Requests, Start(r)
  PROVE  QueueInv' /\ r \in Scoped /\ (Abstract!Begin(r) \/ Abstract!Refuse(r))
<1>1. /\ phase[r] = "queued" /\ UNCHANGED queueVars
      /\ prev[r] = NoRequest \/ prev[r] \in cleaned
  BY DEF Start
<1>2. r \in Scoped /\ Chained(r) /\ ahead[r] \subseteq cleaned
  BY <1>1, TurnComes
<1>3. PICK p \in {"running", "error"} : phase' = [phase EXCEPT ![r] = p]
  BY DEF Start
<1>4. \A s \in cleaned : s # r /\ Stage(s) = "over"
  BY <1>1 DEF QueueInv, ChainInv, WorkEnded, Stage
<1>5. ChainInv'
  BY <1>1, <1>2, <1>3
     DEF QueueInv, ChainInv, WorkEnded, TypeOK, queueVars, Chained, Scoped
<1>6. TailInv'
  BY <1>1 DEF QueueInv, TailInv, queueVars, Chained
<1>7. stages' = [stages EXCEPT ![r] =
        IF p = "running" THEN "working" ELSE "over"]
  <2>1. \A s \in Scoped : s # r => phase'[s] = phase[s]
    BY <1>3 DEF TypeOK, Scoped
  <2>2. phase'[r] = p
    BY <1>3 DEF TypeOK
  <2>3. \A s \in Scoped : Stage(s)' = IF s # r THEN Stage(s)
          ELSE IF p = "running" THEN "working" ELSE "over"
    BY <1>1, <1>2, <1>3, <2>1, <2>2 DEF Stage, Chained, queueVars
  <2>4. QED
    BY <1>2, <2>3 DEF stages
<1>8. stages[r] = "waiting"
  BY <1>1, <1>2 DEF stages, Stage
<1>9. \A s \in ahead[r] : stages[s] = "over"
  BY <1>2, <1>4 DEF TypeOK, stages
<1>10. Abstract!Begin(r) \/ Abstract!Refuse(r)
  BY <1>1, <1>7, <1>8, <1>9
     DEF Abstract!Begin, Abstract!Refuse, Abstract!Turn, stages, queueVars
<1>11. QED
  BY <1>2, <1>5, <1>6, <1>10 DEF QueueInv

(* A handler that ends its work is End, if the request came by a queue.    *)
LEMMA HandlerEndEnds ==
  ASSUME TypeOK, QueueInv, NEW r \in Requests, HandlerEnds(r)
  PROVE  /\ QueueInv'
         /\ \/ r \in Scoped /\ Abstract!End(r)
            \/ UNCHANGED <<stages, ahead>>
<1>1. phase[r] = "running" /\ UNCHANGED queueVars
  BY DEF HandlerEnds
<1>2. PICK p \in {"result", "error", "deferred"} :
        phase' = [phase EXCEPT ![r] = p]
  BY DEF HandlerEnds
<1>3. CASE r \in Scoped /\ Chained(r)
  <2>1. ChainInv'
    BY <1>1, <1>2, <1>3
       DEF QueueInv, ChainInv, WorkEnded, TypeOK, queueVars, Chained, Scoped
  <2>2. TailInv'
    BY <1>1 DEF QueueInv, TailInv, queueVars, Chained
  <2>3. stages[r] = "working" /\ stages' = [stages EXCEPT ![r] = "over"]
    <3>1. \A s \in Scoped : s # r => phase'[s] = phase[s]
      BY <1>2 DEF TypeOK, Scoped
    <3>2. phase'[r] = p /\ Stage(r) = "working"
      BY <1>1, <1>2, <1>3 DEF TypeOK, Stage
    <3>3. \A s \in Scoped : Stage(s)' = IF s # r THEN Stage(s) ELSE "over"
      BY <1>1, <1>2, <1>3, <3>1, <3>2 DEF Stage, Chained, queueVars
    <3>4. QED
      BY <1>3, <3>2, <3>3 DEF stages
  <2>4. Abstract!End(r)
    BY <1>1, <2>3 DEF Abstract!End, stages, queueVars
  <2>5. QED
    BY <1>3, <2>1, <2>2, <2>4 DEF QueueInv
<1>4. CASE ~(r \in Scoped /\ Chained(r))
  BY <1>1, <1>2, <1>4, OutsideQueue DEF Phases
<1>5. QED
  BY <1>3, <1>4

(* The tail of a request settles: the abstract queue does not change.      *)
LEMMA CleanupStutters ==
  ASSUME TypeOK, QueueInv, NEW r \in Requests, Cleanup(r)
  PROVE  QueueInv' /\ UNCHANGED <<stages, ahead>>
<1> USE QueuesAssumption
<1>1. /\ r \in Scoped /\ WorkEnded(r)
      /\ cleaned' = cleaned \cup {r}
      /\ tails' = [tails EXCEPT ![Scope[r]] =
           IF tails[Scope[r]] = r THEN NoRequest ELSE @]
      /\ UNCHANGED <<phase, prev, ahead>>
  BY DEF Cleanup
<1>2. ahead[r] \subseteq cleaned
  BY <1>1 DEF QueueInv, ChainInv, WorkEnded
<1>3. ChainInv'
  BY <1>1 DEF QueueInv, ChainInv, WorkEnded, Chained
<1>4. ASSUME NEW k \in Scopes
      PROVE  /\ tails'[k] = NoRequest =>
                  \A s \in Scoped : Scope[s] = k /\ Chained(s) => s \in cleaned'
             /\ tails'[k] # NoRequest => tails'[k] = tails[k]
  <2>1. CASE k = Scope[r] /\ tails[k] = r
    <3>1. \A s \in Scoped : Scope[s] = k /\ Chained(s) =>
            s = r \/ s \in ahead[r]
      BY <1>1, <2>1 DEF QueueInv, TailInv, Scoped
    <3>2. tails'[k] = NoRequest
      BY <1>1, <2>1 DEF TypeOK
    <3>3. QED
      BY <1>1, <1>2, <3>1, <3>2
  <2>2. CASE ~(k = Scope[r] /\ tails[k] = r)
    <3>1. tails'[k] = tails[k]
      BY <1>1, <2>2 DEF TypeOK
    <3>2. QED
      BY <1>1, <3>1 DEF QueueInv, TailInv
  <2>3. QED
    BY <2>1, <2>2
<1>5. TailInv'
  BY <1>1, <1>4 DEF QueueInv, TailInv, Chained
<1>6. UNCHANGED <<stages, ahead>>
  BY <1>1 DEF stages, Stage, Chained
<1>7. QED
  BY <1>3, <1>5, <1>6 DEF QueueInv

(* Every step keeps the chains and is a step of Serializer or a stutter.   *)
LEMMA QueueStep ==
  TypeOK /\ QueueInv /\ [Next]_vars =>
    QueueInv' /\ [Abstract!SNext]_<<stages, ahead>>
<1> SUFFICES ASSUME TypeOK, QueueInv, [Next]_vars
             PROVE  QueueInv' /\ [Abstract!SNext]_<<stages, ahead>>
  OBVIOUS
<1>1. ASSUME NEW r \in Requests, Accept(r)
      PROVE  QueueInv' /\ [Abstract!SNext]_<<stages, ahead>>
  <2>1. phase[r] = "idle"
    BY <1>1 DEF Accept
  <2>2. PICK k \in ScopesOf(r) :
          \/ AcceptInitialize(r)
          \/ AcceptRefused(r)
          \/ AcceptUnscoped(r)
          \/ k # NoScope /\ AcceptScoped(r, k)
    BY <1>1 DEF Accept
  <2>3. CASE AcceptInitialize(r) \/ AcceptRefused(r) \/ AcceptUnscoped(r)
    <3>1. /\ UNCHANGED queueVars
          /\ \E p \in {"error", "initializing", "running"} :
               phase' = [phase EXCEPT ![r] = p]
      BY <2>3 DEF AcceptInitialize, AcceptRefused, AcceptUnscoped
    <3>2. ~(r \in Scoped /\ Chained(r))
      BY <2>1 DEF QueueInv, ChainInv
    <3>3. QED
      BY <3>1, <3>2, OutsideQueue DEF Phases
  <2>4. CASE k # NoScope /\ AcceptScoped(r, k)
    <3>1. QueueInv' /\ r \in Scoped /\ Abstract!Put(r)
      BY <2>1, <2>4, EnqueuePuts
    <3>2. QED
      BY <3>1 DEF Abstract!SNext
  <2>5. QED
    BY <2>2, <2>3, <2>4
<1>2. ASSUME NEW r \in Requests, Start(r)
      PROVE  QueueInv' /\ [Abstract!SNext]_<<stages, ahead>>
  BY <1>2, StartBegins DEF Abstract!SNext
<1>3. ASSUME NEW r \in Requests, HandlerEnds(r)
      PROVE  QueueInv' /\ [Abstract!SNext]_<<stages, ahead>>
  BY <1>3, HandlerEndEnds DEF Abstract!SNext
<1>4. ASSUME NEW r \in Requests, Cleanup(r)
      PROVE  QueueInv' /\ [Abstract!SNext]_<<stages, ahead>>
  BY <1>4, CleanupStutters
<1>5. ASSUME NEW r \in Requests,
             \/ InitializeEnds(r) \/ SendResponse(r)
             \/ SendError(r) \/ LeaveDeferred(r)
      PROVE  QueueInv' /\ [Abstract!SNext]_<<stages, ahead>>
  <2>1. /\ phase[r] \notin {"queued", "running"}
        /\ UNCHANGED queueVars
    BY <1>5 DEF InitializeEnds, SendResponse, SendError, LeaveDeferred
  <2>2. \E p \in {"result", "error", "lost", "over"} :
          phase' = [phase EXCEPT ![r] = p]
    BY <1>5
       DEF InitializeEnds, SendResponse, SendError, LeaveDeferred, Continue
  <2>3. QED
    BY <2>1, <2>2, OutsideQueue DEF Phases
<1>6. CASE \/ \E r \in Requests : SendDeferred(r)
           \/ \E c \in Connections : Close(c) \/ Closed(c)
           \/ UNCHANGED vars
  <2>1. UNCHANGED <<phase, queueVars>>
    BY <1>6 DEF SendDeferred, Close, Closed, vars
  <2>2. QED
    BY <2>1, QueuesKeep
<1>7. QED
  BY <1>1, <1>2, <1>3, <1>4, <1>5, <1>6 DEF Next, Scheduled, Hosted

(* The promise chains implement Serializer: over all connections, the      *)
(* requests of one scope are handled one at a time, as they arrived.       *)
THEOREM QueuesSerialize == Spec => Serialized
<1>1. Init => QueueInv /\ Abstract!SInit
  BY QueueInit
<1>2. TypeOK /\ QueueInv /\ [Next]_vars =>
        QueueInv' /\ [Abstract!SNext]_<<stages, ahead>>
  BY QueueStep
<1>3. [Abstract!SNext]_<<stages, ahead>> => [Abstract!SNext]_(Abstract!sVars)
  BY DEF Abstract!sVars, stages
<1>4. QED
  BY <1>1, <1>2, <1>3, TypeCorrect, PTL DEF Spec, Serialized, Abstract!SSpec
-----------------------------------------------------------------------------
(* Connections.                                                            *)

(* A connection that was closed with nothing in progress has nothing in    *)
(* progress ever after.                                                    *)
ForgetInv ==
  \A c \in Connections : conn[c] # "open" /\ c \notin late =>
    /\ \A r \in Requests : Of[r] = c => ~InProgress(r)
    /\ \A t \in Threads : <<t, c>> \notin subs
    /\ conn[c] = "closed" => c \notin live

LEMMA ConnectionInit == Init => ForgetInv /\ InitializedIsLive
  BY DEF Init, ForgetInv, InitializedIsLive

(* A step of one request that is in progress or arrives at an open         *)
(* connection changes what is known of its own connection only.            *)
LEMMA RequestForgets ==
  ASSUME TypeOK, ForgetInv, NEW r \in Requests,
         InProgress(r) \/ conn[Of[r]] = "open",
         NEW p \in Phases, phase' = [phase EXCEPT ![r] = p] \/ phase' = phase,
         live' \subseteq live \cup {Of[r]},
         subs' \subseteq subs \cup (Threads \X {Of[r]}),
         UNCHANGED <<conn, late>>
  PROVE  ForgetInv'
<1>1. \A q \in Requests : q # r => phase'[q] = phase[q]
  BY DEF TypeOK
<1>2. SUFFICES ASSUME NEW c \in Connections, conn[c] # "open", c \notin late
               PROVE  /\ \A q \in Requests : Of[q] = c => ~InProgress(q)'
                      /\ \A t \in Threads : <<t, c>> \notin subs'
                      /\ conn[c] = "closed" => c \notin live'
  BY DEF ForgetInv
<1>3. c # Of[r]
  BY <1>2 DEF ForgetInv
<1>4. QED
  BY <1>1, <1>2, <1>3 DEF ForgetInv, InProgress

LEMMA ForgetStep == TypeOK /\ ForgetInv /\ [Next]_vars => ForgetInv'
<1> SUFFICES ASSUME TypeOK, ForgetInv, [Next]_vars PROVE ForgetInv'
  OBVIOUS
<1> USE QueuesAssumption
<1>1. ASSUME NEW r \in Requests, Accept(r) PROVE ForgetInv'
  <2>1. \E p \in Phases : phase' = [phase EXCEPT ![r] = p]
    BY <1>1 DEF Accept, AcceptInitialize, AcceptRefused, AcceptUnscoped,
                AcceptScoped, Phases
  <2>2. /\ conn[Of[r]] = "open" /\ UNCHANGED <<conn, live, late>>
        /\ subs' \subseteq subs \cup (Threads \X {Of[r]})
    BY <1>1 DEF Accept
  <2>3. QED
    BY <2>1, <2>2, RequestForgets
<1>2. ASSUME NEW r \in Requests,
             \/ Start(r) \/ HandlerEnds(r) \/ InitializeEnds(r)
             \/ SendResponse(r) \/ SendError(r) \/ LeaveDeferred(r)
      PROVE  ForgetInv'
  <2>1. InProgress(r) /\ UNCHANGED <<conn, late>>
    BY <1>2 DEF Start, HandlerEnds, InitializeEnds, SendResponse, SendError,
                LeaveDeferred, InProgress, connVars
  <2>2. \E p \in Phases : phase' = [phase EXCEPT ![r] = p]
    BY <1>2 DEF Start, HandlerEnds, InitializeEnds, SendResponse, SendError,
                LeaveDeferred, Continue, Phases
  <2>3. /\ live' \subseteq live \cup {Of[r]}
        /\ subs' \subseteq subs \cup (Threads \X {Of[r]})
    BY <1>2 DEF Start, HandlerEnds, InitializeEnds, SendResponse, SendError,
                LeaveDeferred, Continue, connVars
  <2>4. QED
    BY <2>1, <2>2, <2>3, RequestForgets
<1>3. ASSUME NEW c \in Connections, Close(c) PROVE ForgetInv'
  <2>1. /\ conn' = [conn EXCEPT ![c] = "closing"]
        /\ subs' = {s \in subs : s[2] # c}
        /\ late' = IF \E r \in Requests : Of[r] = c /\ InProgress(r)
                   THEN late \cup {c} ELSE late
        /\ UNCHANGED <<phase, live>>
    BY <1>3 DEF Close
  <2>2. QED
    BY <2>1 DEF ForgetInv, InProgress, TypeOK
<1>4. ASSUME NEW c \in Connections, Closed(c) PROVE ForgetInv'
  BY <1>4 DEF Closed, ForgetInv, InProgress, TypeOK
<1>5. CASE \/ \E r \in Requests : Cleanup(r) \/ SendDeferred(r)
           \/ UNCHANGED vars
  BY <1>5 DEF Cleanup, SendDeferred, vars, connVars, ForgetInv, InProgress
<1>6. QED
  BY <1>1, <1>2, <1>3, <1>4, <1>5 DEF Next, Scheduled, Hosted

(* A connection that closes while none of its requests is being processed  *)
(* is forgotten for good: not live, not subscribed.                        *)
THEOREM ClosedForgotten == Spec => []ClosedForgets
<1>1. ForgetInv => ClosedForgets
  BY DEF ForgetInv, ClosedForgets
<1>2. QED
  BY <1>1, ConnectionInit, ForgetStep, TypeCorrect, PTL DEF Spec

LEMMA LiveStep ==
  TypeOK /\ InitializedIsLive /\ [Next]_vars => InitializedIsLive'
<1> SUFFICES ASSUME TypeOK, InitializedIsLive, [Next]_vars
             PROVE  InitializedIsLive'
  OBVIOUS
<1> USE QueuesAssumption DEF InitializedIsLive, InProgress
<1>1. ASSUME NEW r \in Requests, Accept(r) PROVE InitializedIsLive'
  <2>1. phase[r] = "idle" /\ UNCHANGED <<conn, live>>
    BY <1>1 DEF Accept
  <2>2. \E p \in {"error", "running", "queued", "initializing"} :
          /\ phase' = [phase EXCEPT ![r] = p]
          /\ initialized' = initialized \/
               /\ initialized' = initialized \cup {Of[r]}
               /\ p = "initializing" /\ r \in Initializes
    BY <1>1 DEF Accept, AcceptInitialize, AcceptRefused, AcceptUnscoped,
                AcceptScoped
  <2>3. QED
    BY <2>1, <2>2 DEF TypeOK
<1>2. ASSUME NEW r \in Requests, Start(r) \/ HandlerEnds(r) \/ InitializeEnds(r)
      PROVE  InitializedIsLive'
  <2>1. /\ UNCHANGED <<conn, live, initialized>>
        /\ phase[r] \in {"queued", "running", "initializing"}
        /\ \E p \in {"running", "error", "result", "deferred"} :
             phase' = [phase EXCEPT ![r] = p]
    BY <1>2 DEF Start, HandlerEnds, InitializeEnds, connVars
  <2>2. QED
    BY <2>1 DEF TypeOK
<1>3. ASSUME NEW r \in Requests,
             SendResponse(r) \/ SendError(r) \/ LeaveDeferred(r)
      PROVE  InitializedIsLive'
  <2>1. UNCHANGED <<conn, initialized>>
    BY <1>3 DEF SendResponse, SendError, LeaveDeferred
  <2>2. \/ Continue(r)
        \/ /\ live' = live
           /\ \E p \in {"error", "lost"} : phase' = [phase EXCEPT ![r] = p]
    BY <1>3 DEF SendResponse, SendError, LeaveDeferred
  <2>3. CASE Continue(r)
    BY <2>1, <2>3 DEF Continue, TypeOK
  <2>4. CASE /\ live' = live
             /\ \E p \in {"error", "lost"} : phase' = [phase EXCEPT ![r] = p]
    BY <2>1, <2>4 DEF TypeOK
  <2>5. QED
    BY <2>2, <2>3, <2>4
<1>4. ASSUME NEW c \in Connections, Close(c) \/ Closed(c)
      PROVE  InitializedIsLive'
  <2>1. /\ UNCHANGED <<initialized, phase>>
        /\ \E s \in {"closing", "closed"} : conn' = [conn EXCEPT ![c] = s]
        /\ live' = live \/ live' = live \ {c}
    BY <1>4 DEF Close, Closed
  <2>2. \A d \in Connections : conn'[d] = "open" => conn[d] = "open" /\ d # c
    BY <2>1 DEF TypeOK
  <2>3. \A d \in Connections : d # c => (d \in live <=> d \in live')
    BY <2>1
  <2>4. QED
    BY <2>1, <2>2, <2>3
<1>5. CASE \/ \E r \in Requests : Cleanup(r) \/ SendDeferred(r)
           \/ UNCHANGED vars
  BY <1>5 DEF Cleanup, SendDeferred, vars, connVars
<1>6. QED
  BY <1>1, <1>2, <1>3, <1>4, <1>5 DEF Next, Scheduled, Hosted

(* Every open connection whose session is initialized is live, or will be  *)
(* when its `initialize` has been answered, if it can be.                  *)
THEOREM InitializedLive == Spec => []InitializedIsLive
<1>1. QED
  BY ConnectionInit, LiveStep, TypeCorrect, PTL DEF Spec
=============================================================================
