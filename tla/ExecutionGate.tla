--------------------------- MODULE ExecutionGate ---------------------------
(***************************************************************************)
(* The tool calls of one run: ToolCallRuntime and its                      *)
(* ReadWriteExecutionGate (core/src/tools/parallel.ts).  A call of a tool  *)
(* that supports parallel calls takes the gate as a reader, any other as a *)
(* writer; the gate queues first in, first out.  An abort answers calls    *)
(* early (raceAbort) while the body of the tool goes on.                   *)
(*                                                                         *)
(* A promise the gate resolves is followed by its caller in a later        *)
(* microtask, so a call is first granted and then dispatched.              *)
(***************************************************************************)
EXTENDS Naturals, Sequences, FiniteSets

CONSTANTS
  Calls,               \* the tool calls of the run
  Exclusive            \* those of tools that do not support parallel calls

ASSUME CallsAssumption ==
  /\ IsFiniteSet(Calls)
  /\ Exclusive \subseteq Calls

VARIABLES
  activeReaders,       \* the gate's counter of readers inside
  writerActive,        \* the gate holds a writer
  queue,               \* calls waiting for the gate
  pc,                  \* where handle_tool_call_with_source is, for each call
  body,                \* the tool's own promise, for each call
  aborted,             \* the run's AbortSignal has fired
  arrival              \* the calls that took a place at the gate, in order

gateVars == <<activeReaders, writerActive, queue>>
vars == <<gateVars, pc, body, aborted, arrival>>

CallPoints == {"new", "queued", "granted", "running", "returned"}
BodyStates == {"none", "running", "over"}

(* Every variable stays within its type. *)
TypeOK ==
  /\ activeReaders \in Nat
  /\ writerActive \in BOOLEAN
  /\ queue \in Seq(Calls)
  /\ pc \in [Calls -> CallPoints]
  /\ body \in [Calls -> BodyStates]
  /\ aborted \in BOOLEAN
  /\ arrival \in Seq(Calls)

Init ==
  /\ activeReaders = 0
  /\ writerActive = FALSE
  /\ queue = <<>>
  /\ pc = [c \in Calls |-> "new"]
  /\ body = [c \in Calls |-> "none"]
  /\ aborted = FALSE
  /\ arrival = <<>>

(* The call is inside the gate: from the grant to its release. *)
Inside(c) == pc[c] \in {"granted", "running"}

(* Slip: a reader looks at the writer inside only, not at the queue. *)
CanGrantPastQueue(c) ==
  IF c \in Exclusive
  THEN ~writerActive /\ activeReaders = 0 /\ queue = <<>>
  ELSE ~writerActive

(* canGrantImmediately *)
CanGrantImmediately(c) ==
  IF c \in Exclusive
  THEN ~writerActive /\ activeReaders = 0 /\ queue = <<>>
  ELSE ~writerActive /\ \A i \in 1 .. Len(queue) : queue[i] \notin Exclusive

(* How many readers are in front of the first writer of a queue. *)
LeadingReads(q) ==
  CHOOSE n \in 0 .. Len(q) :
    /\ \A i \in 1 .. n : q[i] \notin Exclusive
    /\ n < Len(q) => q[n + 1] \in Exclusive

(* Slip: the writer at the head does not wait for the readers inside. *)
DrainEagerly(q, readers, writer, points) ==
  LET write == ~writer /\ q # <<>> /\ q[1] \in Exclusive
      n     == IF write THEN 1 ELSE IF writer THEN 0 ELSE LeadingReads(q)
  IN  /\ queue' = SubSeq(q, n + 1, Len(q))
      /\ writerActive' = (writer \/ write)
      /\ activeReaders' = IF write THEN readers ELSE readers + n
      /\ pc' = [c \in Calls |-> IF \E i \in 1 .. n : q[i] = c THEN "granted"
                                ELSE points[c]]

(* drain, on queue q and the counters it finds: nothing passes a writer    *)
(* inside; a writer at the head enters alone, once no reader is inside;    *)
(* readers at the head enter together.                                     *)
Drain(q, readers, writer, points) ==
  LET write == ~writer /\ readers = 0 /\ q # <<>> /\ q[1] \in Exclusive
      n     == IF write THEN 1 ELSE IF writer THEN 0 ELSE LeadingReads(q)
  IN  /\ queue' = SubSeq(q, n + 1, Len(q))
      /\ writerActive' = (writer \/ write)
      /\ activeReaders' = IF write THEN readers ELSE readers + n
      /\ pc' = [c \in Calls |-> IF \E i \in 1 .. n : q[i] = c THEN "granted"
                                ELSE points[c]]

(* The call reaches the runtime.  After an abort it is answered at once;   *)
(* otherwise it acquires the gate, or queues and drains.                   *)
Arrive(c) ==
  /\ pc[c] = "new"
  /\ IF aborted
     THEN /\ pc' = [pc EXCEPT ![c] = "returned"]
          /\ UNCHANGED <<gateVars, arrival>>
     ELSE /\ arrival' = Append(arrival, c)
          /\ IF CanGrantImmediately(c)
             THEN /\ pc' = [pc EXCEPT ![c] = "granted"]
                  /\ activeReaders' = IF c \in Exclusive THEN activeReaders
                                      ELSE activeReaders + 1
                  /\ writerActive' = (writerActive \/ c \in Exclusive)
                  /\ UNCHANGED queue
             ELSE Drain(Append(queue, c), activeReaders, writerActive,
                        [pc EXCEPT ![c] = "queued"])
  /\ UNCHANGED <<body, aborted>>

(* The caller continues with the gate: the tool is dispatched before       *)
(* raceAbort looks at the signal.                                          *)
Dispatch(c) ==
  /\ pc[c] = "granted"
  /\ pc' = [pc EXCEPT ![c] = "running"]
  /\ body' = [body EXCEPT ![c] = "running"]
  /\ UNCHANGED <<gateVars, aborted, arrival>>

(* The tool's promise settles. *)
BodyEnds(c) ==
  /\ body[c] = "running"
  /\ body' = [body EXCEPT ![c] = "over"]
  /\ UNCHANGED <<gateVars, pc, aborted, arrival>>

(* Slip: the call waits for the body whatever the signal says. *)
AnsweredByBody(c) == body[c] = "over"

(* raceAbort: the tool's promise or the abort, whichever is first. *)
Answered(c) == body[c] = "over" \/ aborted

(* Slip: the release forgets to drain the queue. *)
ReleaseOnly(c) ==
  /\ pc[c] = "running"
  /\ Answered(c)
  /\ pc' = [pc EXCEPT ![c] = "returned"]
  /\ activeReaders' = IF c \in Exclusive \/ activeReaders = 0
                      THEN activeReaders ELSE activeReaders - 1
  /\ writerActive' = (writerActive /\ c \notin Exclusive)
  /\ UNCHANGED <<queue, body, aborted, arrival>>

(* Slip: `return run()' without await, so that `finally' is not held back. *)
ReleaseUnawaited(c) ==
  /\ pc[c] = "running"
  /\ Drain(queue,
           IF c \in Exclusive \/ activeReaders = 0
           THEN activeReaders ELSE activeReaders - 1,
           writerActive /\ c \notin Exclusive,
           [pc EXCEPT ![c] = "returned"])
  /\ UNCHANGED <<body, aborted, arrival>>

(* The call returns; its `finally` releases the gate, which drains. *)
Release(c) ==
  /\ pc[c] = "running"
  /\ Answered(c)
  /\ Drain(queue,
           IF c \in Exclusive \/ activeReaders = 0
           THEN activeReaders ELSE activeReaders - 1,
           writerActive /\ c \notin Exclusive,
           [pc EXCEPT ![c] = "returned"])
  /\ UNCHANGED <<body, aborted, arrival>>

(* The run is interrupted. *)
Abort ==
  /\ ~aborted
  /\ aborted' = TRUE
  /\ UNCHANGED <<gateVars, pc, body, arrival>>

Next ==
  \/ \E c \in Calls : Arrive(c) \/ Dispatch(c) \/ BodyEnds(c) \/ Release(c)
  \/ Abort

Spec == Init /\ [][Next]_vars

(* A granted call is continued and an answered one returns; tools need not *)
(* return, and calls need not arrive.                                      *)
FairSpec ==
  /\ Spec
  /\ \A c \in Calls : WF_vars(Dispatch(c)) /\ WF_vars(Release(c))
-----------------------------------------------------------------------------
(* Properties.                                                             *)

Conflict(c, d) == c \in Exclusive \/ d \in Exclusive

(* An exclusive call is alone inside the gate. *)
ExclusiveInside ==
  \A c, d \in Calls :
    c # d /\ Inside(c) /\ Inside(d) => ~Conflict(c, d)

(* Calls that conflict enter in the order in which they arrived, each one  *)
(* after the earlier one has returned: an exclusive tool waits for earlier *)
(* parallel work and blocks later parallel work.                           *)
ConflictsInOrder ==
  \A i, j \in 1 .. Len(arrival) :
    i < j /\ Conflict(arrival[i], arrival[j])
          /\ pc[arrival[j]] # "queued"
      => pc[arrival[i]] = "returned"

(* No wakeup is lost: whoever heads the queue waits for a call inside that *)
(* conflicts with it.                                                      *)
HeadWaitsForConflict ==
  queue # <<>> => \E c \in Calls : Inside(c) /\ Conflict(c, queue[1])

(* A call in the queue returns if every tool does. *)
QueuedCallReturns ==
  (\A c \in Calls : WF_vars(BodyEnds(c)))
    => \A c \in Calls : pc[c] = "queued" ~> pc[c] = "returned"

(* After an abort every call returns even if no tool ever does. *)
AbortReturnsCalls ==
  \A c \in Calls : aborted /\ pc[c] # "new" ~> pc[c] = "returned"

(* Until an abort, what holds of calls holds of the tools' bodies: one that *)
(* needs the runtime to itself has it.                                     *)
ExclusiveBodies ==
  ~aborted =>
    \A c, d \in Calls :
      c # d /\ body[c] = "running" /\ body[d] = "running" => ~Conflict(c, d)

(* CODEX_PARITY_LEDGER.md: "parallel tools overlap, nonparallel tools wait *)
(* for active parallel work and block later parallel work".  Read as what  *)
(* tools do, not what calls do: an exclusive tool's body runs alone.       *)
ExclusiveToolAlone ==
  \A c, d \in Calls :
    c # d /\ body[c] = "running" /\ body[d] = "running" => ~Conflict(c, d)
=============================================================================
