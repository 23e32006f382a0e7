------------------------ MODULE TurnLifecycleProofs ------------------------
(* Proofs about TurnLifecycle for every number of turns, steps and faults. *)
EXTENDS TurnLifecycle, TLAPS

USE DEF slotVars, runVars, eventVars

-----------------------------------------------------------------------------
(* Typing.  First the state changes the handlers share, then the actions.  *)

(* Cancelling a turn's calls keeps the map of calls typed. *)
LEMMA CancelPendingType ==
  ASSUME TypeOK, CancelPending
  PROVE  /\ call' \in [Turns -> CallStates]
         /\ pending' \subseteq Turns
         /\ pendingInput' \in BOOLEAN
  BY DEF TypeOK, CancelPending, CallStates

(* The head of on_task_finished keeps the slot and the calls typed. *)
LEMMA FinishTaskType ==
  ASSUME TypeOK, NEW t \in Turns, FinishTask(t)
  PROVE  /\ hasTask' \in BOOLEAN
         /\ call' \in [Turns -> CallStates]
         /\ pending' \subseteq Turns
         /\ pendingInput' \in BOOLEAN
<1>1. CASE activeTurn = t /\ hasTask
  BY <1>1, CancelPendingType DEF FinishTask
<1>2. CASE ~(activeTurn = t /\ hasTask)
  BY <1>2 DEF FinishTask, TypeOK
<1>3. QED
  BY <1>1, <1>2

(* The synchronous head of failTurn keeps the slot and the calls typed. *)
LEMMA FailTaskType ==
  ASSUME TypeOK, NEW t \in Turns, FailTask(t)
  PROVE  /\ hasTask' \in BOOLEAN
         /\ call' \in [Turns -> CallStates]
         /\ pending' \subseteq Turns
         /\ pendingInput' \in BOOLEAN
  BY CancelPendingType DEF FailTask, TypeOK

(* Dropping an active turn without a task keeps the slot typed. *)
LEMMA DropEmptyTurnType ==
  ASSUME TypeOK, DropEmptyTurn
  PROVE  /\ activeTurn' \in TurnOrNone
         /\ pending' \subseteq Turns
         /\ pendingInput' \in BOOLEAN
<1>1. None \in TurnOrNone
  BY BoundsAssumption DEF None, TurnOrNone
<1>2. CASE hasTask
  BY <1>2 DEF DropEmptyTurn, TypeOK
<1>3. CASE ~hasTask
  BY <1>1, <1>3 DEF DropEmptyTurn, TypeOK
<1>4. QED
  BY <1>2, <1>3

(* Recording an error in the tracked history keeps it typed. *)
LEMMA TrackErrorType ==
  ASSUME TypeOK, TrackError
  PROVE  tracked' \subseteq Turns
  BY DEF TypeOK, TrackError

(* Recording a terminal event in the tracked history keeps it typed. *)
LEMMA TrackEndType ==
  ASSUME TypeOK, NEW t \in Turns, NEW event \in {"complete", "aborted"},
         TrackEnd(t, event)
  PROVE  /\ tracked' \subseteq Turns
         /\ ended' \in [Turns -> SUBSET {"complete", "aborted"}]
  BY DEF TypeOK, TrackEnd

(* A run that settles keeps the run and its calls typed. *)
LEMMA SettleType ==
  ASSUME TypeOK, NEW t \in Turns, Settle(t)
  PROVE  /\ run' \in [Turns -> RunPoints]
         /\ abortController' \in TurnOrNone
         /\ steps' \in [Turns -> 0 .. MaxSteps]
  BY BoundsAssumption DEF TypeOK, Settle, RunPoints, TurnOrNone, None

(* Moving a run to another point of its code keeps it typed. *)
LEMMA GoToType ==
  ASSUME TypeOK, NEW t \in Turns, NEW pc \in RunPoints, GoTo(t, pc)
  PROVE  /\ run' \in [Turns -> RunPoints]
         /\ abortController' \in TurnOrNone
         /\ steps' \in [Turns -> 0 .. MaxSteps]
  BY DEF TypeOK, GoTo

(* A request that is being served belongs to a turn. *)
LEMMA HandlerTurn ==
  ASSUME TypeOK, handler.pc # "idle"
  PROVE  /\ handler \in [pc : HandlerPoints, turn : Turns]
         /\ handler.turn \in Turns
  BY DEF TypeOK, Idle

(* Every step keeps every variable within its type. *)
LEMMA TypeStep ==
  ASSUME TypeOK, [Next]_vars
  PROVE  TypeOK'
<1>1. ASSUME NEW k \in Kinds, StartTurn(k) PROVE TypeOK'
  BY <1>1, BoundsAssumption
  DEF StartTurn, TypeOK, HandlerPoints, Idle, Turns, TurnOrNone, None
<1>2. ASSUME DeliverStarted PROVE TypeOK'
  BY <1>2, HandlerTurn
  DEF DeliverStarted, TrackStarted, TypeOK, HandlerPoints
<1>3. ASSUME SpawnTask PROVE TypeOK'
  <2>1. handler.turn \in Turns
    BY <1>3, HandlerTurn DEF SpawnTask
  <2>2. run' \in [Turns -> RunPoints]
    BY <1>3, <2>1 DEF SpawnTask, TypeOK, RunPoints
  <2>3. abortController' \in TurnOrNone
    BY <1>3, <2>1, BoundsAssumption DEF SpawnTask, Turns, TurnOrNone
  <2>4. QED
    BY <1>3, <2>2, <2>3
    DEF SpawnTask, TypeOK, slotVars, eventVars
<1>4. ASSUME StopByHook PROVE TypeOK'
  BY <1>4, HandlerTurn, FinishTaskType, TrackErrorType
  DEF StopByHook, TypeOK, HandlerPoints
<1>5. ASSUME DeliverStopped PROVE TypeOK'
  BY <1>5, HandlerTurn, DropEmptyTurnType, TrackEndType
  DEF DeliverStopped, TypeOK, Idle
<1>6. ASSUME StartFails PROVE TypeOK'
  BY <1>6, BoundsAssumption, HandlerTurn
  DEF StartFails, InjectFault, TypeOK, Idle
<1>7. ASSUME Steer PROVE TypeOK'
  BY <1>7
  DEF Steer, TypeOK
<1>8. ASSUME Interrupt PROVE TypeOK'
  <2>1. activeTurn \in Turns /\ None \in TurnOrNone
    BY <1>8, BoundsAssumption DEF Interrupt, TypeOK, Turns, TurnOrNone, None
  <2>2. aborted' \in [Turns -> BOOLEAN]
    BY <1>8 DEF Interrupt, TypeOK
  <2>3. handler' \in {Idle} \union [pc : HandlerPoints, turn : Turns]
    BY <1>8, <2>1 DEF Interrupt, HandlerPoints
  <2>4. hasTask' \in BOOLEAN
    BY <1>8 DEF Interrupt
  <2>5. QED
    BY <1>8, <2>1, <2>2, <2>3, <2>4, CancelPendingType DEF Interrupt, TypeOK
<1>9. ASSUME AbortTask PROVE TypeOK'
  BY <1>9, HandlerTurn
  DEF AbortTask, TypeOK, HandlerPoints
<1>10. ASSUME DeliverAborted PROVE TypeOK'
  BY <1>10, HandlerTurn, TrackEndType
  DEF DeliverAborted, TypeOK, Idle
<1>11. ASSUME InterruptFails PROVE TypeOK'
  BY <1>11, BoundsAssumption, HandlerTurn
  DEF InterruptFails, InjectFault, TypeOK, Idle
<1>12. ASSUME NEW t \in Turns, SetupDone(t) PROVE TypeOK'
  BY <1>12, BoundsAssumption, SettleType
  DEF SetupDone, TypeOK, RunPoints
<1>13. ASSUME NEW t \in Turns, CompactDone(t) PROVE TypeOK'
  BY <1>13, SettleType, GoToType, FinishTaskType
  DEF CompactDone, TypeOK, RunPoints
<1>14. ASSUME NEW t \in Turns, SetupFails(t) PROVE TypeOK'
  BY <1>14, SettleType, GoToType, FailTaskType
  DEF SetupFails, TypeOK, RunPoints
<1>15. ASSUME NEW t \in Turns, ToolCall(t) PROVE TypeOK'
  BY <1>15
  DEF ToolCall, TypeOK, RunPoints, CallStates
<1>16. ASSUME NEW t \in Turns, StreamDone(t) PROVE TypeOK'
  BY <1>16, GoToType
  DEF StreamDone, TypeOK, RunPoints
<1>17. ASSUME NEW t \in Turns, FinishStep(t) PROVE TypeOK'
  <2>1. /\ pendingInput' \in BOOLEAN
        /\ hasTask' \in BOOLEAN
        /\ call' \in [Turns -> CallStates]
        /\ pending' \subseteq Turns
    BY <1>17, FinishTaskType DEF FinishStep, TypeOK, CallStates
  <2>2. /\ run' \in [Turns -> RunPoints]
        /\ steps' \in [Turns -> 0 .. MaxSteps]
        /\ abortController' \in TurnOrNone
    BY <1>17, BoundsAssumption, SettleType, GoToType
    DEF FinishStep, StepLeft, TypeOK, RunPoints
  <2>3. QED
    BY <1>17, <2>1, <2>2 DEF FinishStep, TypeOK
<1>18. ASSUME NEW t \in Turns, SamplingFails(t) PROVE TypeOK'
  BY <1>18, SettleType, GoToType, FailTaskType
  DEF SamplingFails, TypeOK, RunPoints
<1>19. ASSUME NEW t \in Turns, DeliverComplete(t) PROVE TypeOK'
  BY <1>19, DropEmptyTurnType, TrackEndType, SettleType, GoToType
  DEF DeliverComplete, TypeOK, RunPoints
<1>20. ASSUME NEW t \in Turns, DeliverCompleteAgain(t) PROVE TypeOK'
  BY <1>20, DropEmptyTurnType, TrackEndType, SettleType
  DEF DeliverCompleteAgain, TypeOK, RunPoints
<1>21. ASSUME NEW t \in Turns, DeliverError(t) PROVE TypeOK'
  BY <1>21, TrackErrorType, GoToType
  DEF DeliverError, TypeOK, RunPoints
<1>22. ASSUME NEW t \in Turns, DeliverFailed(t) PROVE TypeOK'
  <2>1. None \in TurnOrNone
    BY BoundsAssumption DEF None, TurnOrNone
  <2>2. CASE aborted[t]
    BY <1>22, <2>2, TrackEndType, DropEmptyTurnType, SettleType
    DEF DeliverFailed, TypeOK
  <2>3. CASE ~aborted[t]
    BY <1>22, <2>1, <2>3, TrackEndType, FailTaskType, GoToType
    DEF DeliverFailed, TypeOK, RunPoints
  <2>4. QED
    BY <2>2, <2>3
<1>23. ASSUME NEW t \in Turns, DeliverFailedAgain(t) PROVE TypeOK'
  BY <1>23, DropEmptyTurnType, TrackEndType, SettleType
  DEF DeliverFailedAgain, TypeOK, RunPoints
<1>24. ASSUME NEW t \in Turns, PersistFails(t) PROVE TypeOK'
  BY <1>24, BoundsAssumption, SettleType, GoToType, FailTaskType
  DEF PersistFails, InjectFault, TypeOK, RunPoints
<1>25. ASSUME NEW t \in Turns, CallReturns(t) PROVE TypeOK'
  BY <1>25
  DEF CallReturns, TypeOK, CallStates
<1>26. ASSUME NEW t \in Turns, AskUser(t) PROVE TypeOK'
  BY <1>26
  DEF AskUser, TypeOK, CallStates
<1>27. ASSUME NEW t \in Turns, AskPermission(t) PROVE TypeOK'
  BY <1>27
  DEF AskPermission, TypeOK, CallStates
<1>28. ASSUME NEW t \in Turns, RegisterPermission(t) PROVE TypeOK'
  BY <1>28
  DEF RegisterPermission, TypeOK, CallStates
<1>29. ASSUME NEW t \in Turns, Answer(t) PROVE TypeOK'
  BY <1>29
  DEF Answer, TypeOK, CallStates
<1>30. CASE UNCHANGED vars
  BY <1>30 DEF vars, TypeOK
<1>31. QED
  BY <1>1, <1>2, <1>3, <1>4, <1>5, <1>6, <1>7, <1>8, <1>9, <1>10, <1>11,
     <1>12, <1>13, <1>14, <1>15, <1>16, <1>17, <1>18, <1>19, <1>20, <1>21,
     <1>22, <1>23, <1>24, <1>25, <1>26, <1>27, <1>28, <1>29, <1>30
  DEF Next, Request, RunStep, CallStep
-----------------------------------------------------------------------------
(* The inductive invariant.                                                *)

(* No ActiveTurn, no task and no registration. *)
SlotClean == activeTurn = None => ~hasTask /\ pending = {}

(* Turns that were not started yet have done nothing. *)
FreshTurns ==
  /\ activeTurn <= last
  /\ handler.turn <= last
  /\ \A t \in Turns : t > last => run[t] = "idle" /\ ended[t] = {}

(* A run makes its calls; a registered call waits. *)
CallsOfRuns ==
  /\ \A t \in Turns : run[t] = "idle" => call[t] = "none"
  /\ \A t \in pending : call[t] = "waiting"

(* A turn whose start is being served has no run and no end yet. *)
StartingTurn ==
  /\ handler.pc \in {"starting", "preparing", "stopping"} =>
       run[handler.turn] = "idle"
  /\ handler.pc \in {"starting", "preparing"} => ended[handler.turn] = {}

(* An interrupt emptied the slot, and has aborted the run when it is about *)
(* to report that.                                                         *)
InterruptedTurn ==
  /\ handler.pc \in {"stopHooks", "aborting"} => activeTurn = None
  /\ handler.pc = "aborting" => ~Live(handler.turn)

IInv ==
  /\ TypeOK
  /\ SlotClean
  /\ FreshTurns
  /\ CallsOfRuns
  /\ StartingTurn
  /\ InterruptedTurn
  /\ SpawnFindsTask
  /\ LiveRunOwnsSlot
  /\ LiveCallAnswerable
  /\ EndedMeansStopped
-----------------------------------------------------------------------------
(* What one step of a run, of a call or of the request queue may do, as    *)
(* far as the invariant is concerned.                                      *)

(* What a step does to a call u and its registration: nothing; the slot    *)
(* was empty and is dropped; it is cancelled; or the step is u's own and   *)
(* leaves it not waiting.                                                  *)
CallKept(u) == call'[u] = call[u] /\ (u \in pending' <=> u \in pending)
CallDropped(u) == call'[u] = call[u] /\ u \notin pending' /\ ~hasTask
CallCancelled(u) ==
  u \in pending /\ u \notin pending' /\ call'[u] = "cancelled"
CallRenewed(u) ==
  u \notin pending' /\ call'[u] # "waiting" /\ call[u] # "waiting"

(* The run of t moves on: it touches nobody else's program point or        *)
(* terminal notifications, and never starts working again.                 *)
RunFrame(t) ==
  /\ run[t] \notin {"idle", "settled"}
  /\ \A u \in Turns \ {t} : run'[u] = run[u] /\ ended'[u] = ended[u]
  /\ run'[t] # "idle"
  /\ run'[t] \in {"setup", "sampling", "tools"} => Working(t)
  /\ ended'[t] # ended[t] => run'[t] \notin {"setup", "sampling", "tools"}
  /\ UNCHANGED <<last, aborted, handler, abandoned>>

(* It may drop an ActiveTurn without tasks, and remove its own task when   *)
(* it has stopped working.                                                 *)
SlotFrame(t) ==
  /\ \/ activeTurn' = activeTurn
     \/ activeTurn' = None /\ ~hasTask /\ pending' = {}
  /\ \/ hasTask' = hasTask
     \/ /\ activeTurn = t
        /\ ~hasTask'
        /\ run'[t] \notin {"setup", "sampling", "tools"}
  /\ \A u \in Turns :
       \/ CallKept(u)
       \/ CallDropped(u)
       \/ CallCancelled(u)
       \/ u = t /\ CallRenewed(u)

(* Cancelling touches the calls registered in one turn and no other. *)
LEMMA CancelPendingCalls ==
  ASSUME TypeOK, CancelPending, NEW u \in Turns
  PROVE  CallKept(u) \/ CallCancelled(u)
  BY DEF TypeOK, CancelPending, CallKept, CallCancelled

(* on_task_finished changes the slot of its own turn only. *)
LEMMA FinishTaskSlot ==
  ASSUME TypeOK, NEW t \in Turns, FinishTask(t)
  PROVE  /\ hasTask' = hasTask \/ (activeTurn = t /\ ~hasTask')
         /\ \A u \in Turns : CallKept(u) \/ CallCancelled(u)
<1>1. CASE activeTurn = t /\ hasTask
  BY <1>1, CancelPendingCalls DEF FinishTask
<1>2. CASE ~(activeTurn = t /\ hasTask)
  BY <1>2 DEF FinishTask, CallKept
<1>3. QED
  BY <1>1, <1>2

(* failTurn's head changes the slot of its own turn only. *)
LEMMA FailTaskSlot ==
  ASSUME TypeOK, NEW t \in Turns, FailTask(t)
  PROVE  /\ hasTask' = hasTask \/ (activeTurn = t /\ ~hasTask')
         /\ \A u \in Turns : CallKept(u) \/ CallCancelled(u)
<1>1. \A u \in Turns : CallKept(u) \/ CallCancelled(u)
  BY CancelPendingCalls DEF FailTask
<1>2. hasTask' = hasTask \/ (activeTurn = t /\ ~hasTask')
  BY DEF FailTask, TypeOK
<1>3. QED
  BY <1>1, <1>2

(* An active turn is dropped only when its task is gone. *)
LEMMA DropEmptyTurnSlot ==
  ASSUME TypeOK, DropEmptyTurn, UNCHANGED call
  PROVE  /\ \/ activeTurn' = activeTurn
            \/ activeTurn' = None /\ ~hasTask /\ pending' = {}
         /\ \A u \in Turns : CallKept(u) \/ CallDropped(u)
<1>1. CASE hasTask
  BY <1>1 DEF DropEmptyTurn, CallKept
<1>2. CASE ~hasTask
  BY <1>2 DEF DropEmptyTurn, CallDropped
<1>3. QED
  BY <1>1, <1>2

(* Every step of a run stays within its frame. *)
LEMMA RunStepFrame ==
  ASSUME TypeOK, NEW t \in Turns, RunStep(t)
  PROVE  RunFrame(t)
<1>1. ASSUME SetupDone(t) PROVE RunFrame(t)
  BY <1>1 DEF SetupDone, RunFrame, Working, Settle, GoTo, TrackEnd, TypeOK
<1>2. ASSUME CompactDone(t) PROVE RunFrame(t)
  BY <1>2 DEF CompactDone, RunFrame, Working, Settle, GoTo, TrackEnd, TypeOK
<1>3. ASSUME SetupFails(t) PROVE RunFrame(t)
  BY <1>3 DEF SetupFails, RunFrame, Working, Settle, GoTo, TrackEnd, TypeOK
<1>4. ASSUME ToolCall(t) PROVE RunFrame(t)
  BY <1>4 DEF ToolCall, RunFrame, Working, Settle, GoTo, TrackEnd, TypeOK
<1>5. ASSUME StreamDone(t) PROVE RunFrame(t)
  BY <1>5 DEF StreamDone, RunFrame, Working, Settle, GoTo, TrackEnd, TypeOK
<1>6. ASSUME FinishStep(t) PROVE RunFrame(t)
  BY <1>6 DEF FinishStep, RunFrame, Working, Settle, GoTo, TrackEnd, TypeOK
<1>7. ASSUME SamplingFails(t) PROVE RunFrame(t)
  BY <1>7 DEF SamplingFails, RunFrame, Working, Settle, GoTo, TrackEnd, TypeOK
<1>8. ASSUME DeliverComplete(t) PROVE RunFrame(t)
  BY <1>8
  DEF DeliverComplete, RunFrame, Working, Settle, GoTo, TrackEnd, TypeOK
<1>9. ASSUME DeliverCompleteAgain(t) PROVE RunFrame(t)
  BY <1>9
  DEF DeliverCompleteAgain, RunFrame, Working, Settle, GoTo, TrackEnd, TypeOK
<1>10. ASSUME DeliverError(t) PROVE RunFrame(t)
  BY <1>10 DEF DeliverError, RunFrame, Working, Settle, GoTo, TrackEnd, TypeOK
<1>11. ASSUME DeliverFailed(t) PROVE RunFrame(t)
  BY <1>11 DEF DeliverFailed, RunFrame, Working, Settle, GoTo, TrackEnd, TypeOK
<1>12. ASSUME DeliverFailedAgain(t) PROVE RunFrame(t)
  BY <1>12
  DEF DeliverFailedAgain, RunFrame, Working, Settle, GoTo, TrackEnd, TypeOK
<1>13. ASSUME PersistFails(t) PROVE RunFrame(t)
  BY <1>13 DEF PersistFails, RunFrame, Working, Settle, GoTo, TrackEnd, TypeOK
<1>14. QED
  BY <1>1, <1>2, <1>3, <1>4, <1>5, <1>6, <1>7, <1>8, <1>9, <1>10, <1>11,
     <1>12, <1>13
  DEF RunStep

(* Every step of a run leaves the slot of another turn in place. *)
LEMMA RunStepSlot ==
  ASSUME TypeOK, CallsOfRuns, NEW t \in Turns, RunStep(t)
  PROVE  SlotFrame(t)
<1>1. ASSUME SetupDone(t) PROVE SlotFrame(t)
  BY <1>1 DEF SetupDone, SlotFrame, CallKept
<1>2. ASSUME CompactDone(t) PROVE SlotFrame(t)
  BY <1>2, FinishTaskSlot DEF CompactDone, SlotFrame, CallKept, GoTo, TypeOK
<1>3. ASSUME SetupFails(t) PROVE SlotFrame(t)
  BY <1>3, FailTaskSlot DEF SetupFails, SlotFrame, CallKept, GoTo, TypeOK
<1>4. ASSUME ToolCall(t) PROVE SlotFrame(t)
  BY <1>4 DEF ToolCall, SlotFrame, CallKept, CallRenewed, CallsOfRuns, TypeOK
<1>5. ASSUME StreamDone(t) PROVE SlotFrame(t)
  BY <1>5 DEF StreamDone, SlotFrame, CallKept
<1>6. ASSUME FinishStep(t) PROVE SlotFrame(t)
  BY <1>6, FinishTaskSlot
  DEF FinishStep, CallsIn, InFlight, SlotFrame, CallKept, CallRenewed,
      CallsOfRuns, GoTo, TypeOK
<1>7. ASSUME SamplingFails(t) PROVE SlotFrame(t)
  BY <1>7, FailTaskSlot DEF SamplingFails, SlotFrame, CallKept, GoTo, TypeOK
<1>8. ASSUME DeliverComplete(t) PROVE SlotFrame(t)
  BY <1>8, DropEmptyTurnSlot DEF DeliverComplete, SlotFrame
<1>9. ASSUME DeliverCompleteAgain(t) PROVE SlotFrame(t)
  BY <1>9, DropEmptyTurnSlot DEF DeliverCompleteAgain, SlotFrame
<1>10. ASSUME DeliverError(t) PROVE SlotFrame(t)
  BY <1>10 DEF DeliverError, SlotFrame, CallKept
<1>11. ASSUME DeliverFailed(t) PROVE SlotFrame(t)
  BY <1>11, DropEmptyTurnSlot, FailTaskSlot
  DEF DeliverFailed, FailTask, CancelPending, SlotFrame, GoTo, TypeOK
<1>12. ASSUME DeliverFailedAgain(t) PROVE SlotFrame(t)
  BY <1>12, DropEmptyTurnSlot DEF DeliverFailedAgain, SlotFrame
<1>13. ASSUME PersistFails(t) PROVE SlotFrame(t)
  BY <1>13, FailTaskSlot DEF PersistFails, SlotFrame, CallKept, GoTo, TypeOK
<1>14. QED
  BY <1>1, <1>2, <1>3, <1>4, <1>5, <1>6, <1>7, <1>8, <1>9, <1>10, <1>11,
     <1>12, <1>13
  DEF RunStep

(* The call of t moves on: only t's registration changes, it waits when it *)
(* is registered, and it is registered when it waits and a turn is active. *)
CallFrame(t) ==
  /\ call[t] # "none"
  /\ \A u \in Turns \ {t} : CallKept(u)
  /\ t \in pending' => call'[t] = "waiting"
  /\ call'[t] = "waiting" /\ activeTurn # None => t \in pending'
  /\ activeTurn = None => pending' \subseteq pending
  /\ UNCHANGED <<activeTurn, hasTask, last, runVars, aborted, handler, ended,
                 abandoned>>

(* Every step of an interactive call stays within its frame. *)
LEMMA CallStepFrame ==
  ASSUME TypeOK, CallsOfRuns, NEW t \in Turns, CallStep(t)
  PROVE  CallFrame(t)
<1>1. ASSUME CallReturns(t) PROVE CallFrame(t)
  BY <1>1 DEF CallReturns, CallFrame, CallKept, CallsOfRuns, TypeOK
<1>2. ASSUME AskUser(t) PROVE CallFrame(t)
  BY <1>2 DEF AskUser, CallFrame, CallKept, CallsOfRuns, TypeOK
<1>3. ASSUME AskPermission(t) PROVE CallFrame(t)
  BY <1>3 DEF AskPermission, CallFrame, CallKept, CallsOfRuns, TypeOK
<1>4. ASSUME RegisterPermission(t) PROVE CallFrame(t)
  BY <1>4 DEF RegisterPermission, CallFrame, CallKept, CallsOfRuns, TypeOK
<1>5. ASSUME Answer(t) PROVE CallFrame(t)
  BY <1>5 DEF Answer, CallFrame, CallKept, CallsOfRuns, TypeOK
<1>6. QED
  BY <1>1, <1>2, <1>3, <1>4, <1>5 DEF CallStep

-----------------------------------------------------------------------------
(* The invariant is inductive.                                             *)

(* The invariant holds before the first turn. *)
LEMMA IInvInit == Init => IInv
<1> SUFFICES ASSUME Init PROVE IInv
  OBVIOUS
<1>1. TypeOK
  <2>1. None \in TurnOrNone /\ 0 \in TurnOrNone /\ 0 \in 0 .. MaxSteps
        /\ 0 \in 0 .. MaxFaults
    BY BoundsAssumption DEF None, TurnOrNone
  <2>2. /\ kind \in [Turns -> Kinds]
        /\ run \in [Turns -> RunPoints]
        /\ steps \in [Turns -> 0 .. MaxSteps]
        /\ aborted \in [Turns -> BOOLEAN]
        /\ call \in [Turns -> CallStates]
        /\ ended \in [Turns -> SUBSET {"complete", "aborted"}]
    BY <2>1 DEF Init, Kinds, RunPoints, CallStates
  <2>3. QED
    BY <2>1, <2>2 DEF Init, TypeOK
<1>2. SlotClean /\ FreshTurns /\ CallsOfRuns
  BY DEF Init, SlotClean, FreshTurns, CallsOfRuns, Idle, None
<1>3. StartingTurn /\ InterruptedTurn /\ SpawnFindsTask
  BY DEF Init, StartingTurn, InterruptedTurn, SpawnFindsTask, Idle
<1>4. \A t \in Turns : ~Live(t)
  BY DEF Init, Live, Working
<1>5. QED
  BY <1>1, <1>2, <1>3, <1>4
  DEF IInv, LiveRunOwnsSlot, LiveCallAnswerable, EndedMeansStopped

(* Steps of a run. *)
LEMMA IInvRun ==
  ASSUME IInv, TypeOK', NEW t \in Turns, RunStep(t)
  PROVE  IInv'
<1> USE DEF Live, Working
<1>1. TypeOK /\ RunFrame(t) /\ SlotFrame(t)
  BY RunStepFrame, RunStepSlot DEF IInv
<1>2. \A u \in Turns : Live(u)' => Live(u)
  BY <1>1 DEF RunFrame
<1>3. SlotClean'
  BY <1>1
  DEF SlotClean, SlotFrame, CallKept, CallDropped, CallCancelled, CallRenewed,
      TypeOK, IInv
<1>4. FreshTurns'
  BY <1>1
  DEF FreshTurns, RunFrame, SlotFrame, IInv, TypeOK, Turns, TurnOrNone, None
<1>5. CallsOfRuns'
  BY <1>1
  DEF CallsOfRuns, RunFrame, SlotFrame, CallKept, CallDropped, CallCancelled,
      CallRenewed, IInv, TypeOK
<1>6. StartingTurn'
  BY <1>1, HandlerTurn DEF StartingTurn, RunFrame, IInv
<1>7. InterruptedTurn'
  BY <1>1, <1>2, HandlerTurn DEF InterruptedTurn, RunFrame, SlotFrame, IInv
<1>8. SpawnFindsTask'
  BY <1>1 DEF SpawnFindsTask, StartingTurn, RunFrame, SlotFrame, IInv
<1>9. LiveRunOwnsSlot'
  BY <1>1, <1>2 DEF LiveRunOwnsSlot, RunFrame, SlotFrame, IInv
<1>10. LiveCallAnswerable'
  BY <1>1, <1>2
  DEF LiveCallAnswerable, LiveRunOwnsSlot, RunFrame, SlotFrame, CallKept,
      CallDropped, CallCancelled, CallRenewed, IInv
<1>11. EndedMeansStopped'
  BY <1>1, <1>2 DEF EndedMeansStopped, RunFrame, IInv
<1>12. QED
  BY <1>3, <1>4, <1>5, <1>6, <1>7, <1>8, <1>9, <1>10, <1>11 DEF IInv

(* Steps of an interactive call. *)
LEMMA IInvCall ==
  ASSUME IInv, TypeOK', NEW t \in Turns, CallStep(t)
  PROVE  IInv'
<1> USE DEF Live, Working
<1>1. TypeOK /\ CallFrame(t)
  BY CallStepFrame DEF IInv
<1>2. \A u \in Turns : Live(u)' => Live(u)
  BY <1>1 DEF CallFrame
<1>3. SlotClean'
  BY <1>1 DEF SlotClean, CallFrame, IInv, None
<1>4. FreshTurns'
  BY <1>1 DEF FreshTurns, CallFrame, IInv
<1>5. CallsOfRuns'
  BY <1>1 DEF CallsOfRuns, CallFrame, IInv, CallKept, TypeOK
<1>6. StartingTurn'
  BY <1>1 DEF StartingTurn, CallFrame, IInv
<1>7. InterruptedTurn'
  BY <1>1, <1>2 DEF InterruptedTurn, CallFrame, IInv
<1>8. SpawnFindsTask'
  BY <1>1 DEF SpawnFindsTask, CallFrame, IInv
<1>9. LiveRunOwnsSlot'
  BY <1>1, <1>2 DEF LiveRunOwnsSlot, CallFrame, IInv
<1>10. LiveCallAnswerable'
  BY <1>1, <1>2
  DEF LiveCallAnswerable, CallFrame, IInv, LiveRunOwnsSlot, CallKept, Turns,
      None
<1>11. EndedMeansStopped'
  BY <1>1, <1>2 DEF EndedMeansStopped, CallFrame, IInv
<1>12. QED
  BY <1>3, <1>4, <1>5, <1>6, <1>7, <1>8, <1>9, <1>10, <1>11 DEF IInv

(* Requests: one step per action of the thread's queue; under each, the    *)
(* slot and what the turns have done, the request itself, and the live run.*)
LEMMA IInvRequest ==
  ASSUME IInv, TypeOK', Request
  PROVE  IInv'
<1> USE DEF Live, Working
<1>0. TypeOK
  BY DEF IInv
<1>1. ASSUME NEW k \in Kinds, StartTurn(k) PROVE IInv'
  <2>1. SlotClean' /\ FreshTurns' /\ CallsOfRuns'
    BY <1>0, <1>1
    DEF StartTurn, SlotClean, FreshTurns, CallsOfRuns, StartingTurn,
        SpawnFindsTask, IInv, TypeOK, Idle, None, Turns, TurnOrNone
  <2>2. StartingTurn' /\ InterruptedTurn' /\ SpawnFindsTask'
    BY <1>0, <1>1
    DEF StartTurn, StartingTurn, InterruptedTurn, SpawnFindsTask, FreshTurns,
        IInv, TypeOK, Idle, Turns
  <2>3. \A t \in Turns : ~Live(t)
    BY <1>0, <1>1
    DEF StartTurn, LiveRunOwnsSlot, SpawnFindsTask, StartingTurn, IInv, None,
        Turns
  <2>4. \A t \in Turns : ~Live(t)'
    BY <1>1, <2>3 DEF StartTurn
  <2>5. LiveRunOwnsSlot' /\ LiveCallAnswerable' /\ EndedMeansStopped'
    BY <2>4 DEF LiveRunOwnsSlot, LiveCallAnswerable, EndedMeansStopped
  <2>6. QED
    BY <2>1, <2>2, <2>5 DEF IInv
<1>2. ASSUME DeliverStarted PROVE IInv'
  <2>1. SlotClean' /\ FreshTurns' /\ CallsOfRuns'
    BY <1>0, <1>2, HandlerTurn
    DEF DeliverStarted, SlotClean, FreshTurns, CallsOfRuns, StartingTurn,
        SpawnFindsTask, IInv, TypeOK, Idle, None, Turns, TurnOrNone
  <2>2. StartingTurn' /\ InterruptedTurn' /\ SpawnFindsTask'
    BY <1>0, <1>2, HandlerTurn
    DEF DeliverStarted, StartingTurn, InterruptedTurn, SpawnFindsTask,
        FreshTurns, IInv, TypeOK, Idle, Turns
  <2>3. LiveRunOwnsSlot' /\ LiveCallAnswerable'
    BY <1>0, <1>2, HandlerTurn
    DEF DeliverStarted, LiveRunOwnsSlot, LiveCallAnswerable, SpawnFindsTask,
        StartingTurn, InterruptedTurn, CallsOfRuns, IInv, TypeOK, Idle
  <2>4. EndedMeansStopped'
    BY <1>0, <1>2, HandlerTurn
    DEF DeliverStarted, EndedMeansStopped, StartingTurn, InterruptedTurn,
        IInv, TypeOK
  <2>5. QED
    BY <2>1, <2>2, <2>3, <2>4 DEF IInv
<1>3. ASSUME SpawnTask PROVE IInv'
  <2>1. SlotClean' /\ FreshTurns' /\ CallsOfRuns'
    BY <1>0, <1>3, HandlerTurn
    DEF SpawnTask, SlotClean, FreshTurns, CallsOfRuns, StartingTurn,
        SpawnFindsTask, IInv, TypeOK, Idle, None, Turns, TurnOrNone
  <2>2. StartingTurn' /\ InterruptedTurn' /\ SpawnFindsTask'
    BY <1>0, <1>3, HandlerTurn
    DEF SpawnTask, StartingTurn, InterruptedTurn, SpawnFindsTask, FreshTurns,
        IInv, TypeOK, Idle, Turns
  <2>3. LiveRunOwnsSlot' /\ LiveCallAnswerable'
    BY <1>0, <1>3, HandlerTurn
    DEF SpawnTask, LiveRunOwnsSlot, LiveCallAnswerable, SpawnFindsTask,
        StartingTurn, InterruptedTurn, CallsOfRuns, IInv, TypeOK, Idle
  <2>4. EndedMeansStopped'
    BY <1>0, <1>3, HandlerTurn
    DEF SpawnTask, EndedMeansStopped, StartingTurn, InterruptedTurn, IInv,
        TypeOK
  <2>5. QED
    BY <2>1, <2>2, <2>3, <2>4 DEF IInv
<1>4. ASSUME StopByHook PROVE IInv'
  <2>0. /\ UNCHANGED <<activeTurn, last, run, ended>>
        /\ handler'.turn = handler.turn
        /\ CancelPending
    BY <1>0, <1>4, HandlerTurn
    DEF StopByHook, FinishTask, SpawnFindsTask, IInv
  <2>1. SlotClean' /\ FreshTurns' /\ CallsOfRuns'
    <3>1. SlotClean'
      BY <1>0, <1>4, <2>0, HandlerTurn
      DEF SlotClean, SpawnFindsTask, StopByHook, IInv, None, Turns
    <3>2. FreshTurns'
      BY <2>0 DEF FreshTurns, IInv
    <3>3. CallsOfRuns'
      BY <1>0, <2>0 DEF CallsOfRuns, CancelPending, IInv, TypeOK
    <3>4. QED
      BY <3>1, <3>2, <3>3
  <2>2. StartingTurn' /\ InterruptedTurn' /\ SpawnFindsTask'
    BY <1>0, <1>4, HandlerTurn
    DEF StopByHook, FinishTask, CancelPending, StartingTurn, InterruptedTurn,
        SpawnFindsTask, FreshTurns, IInv, TypeOK, Idle, Turns
  <2>3. \A t \in Turns : ~Live(t)
    BY <1>0, <1>4, HandlerTurn
    DEF StopByHook, LiveRunOwnsSlot, SpawnFindsTask, StartingTurn, IInv, None,
        Turns
  <2>4. \A t \in Turns : ~Live(t)'
    BY <1>4, <2>3 DEF StopByHook
  <2>5. LiveRunOwnsSlot' /\ LiveCallAnswerable' /\ EndedMeansStopped'
    BY <2>4 DEF LiveRunOwnsSlot, LiveCallAnswerable, EndedMeansStopped
  <2>6. QED
    BY <2>1, <2>2, <2>5 DEF IInv
<1>5. ASSUME DeliverStopped PROVE IInv'
  <2>1. SlotClean' /\ FreshTurns' /\ CallsOfRuns'
    BY <1>0, <1>5, HandlerTurn
    DEF DeliverStopped, DropEmptyTurn, TrackEnd, SlotClean, FreshTurns,
        CallsOfRuns, StartingTurn, SpawnFindsTask, IInv, TypeOK, Idle, None,
        Turns, TurnOrNone
  <2>2. StartingTurn' /\ InterruptedTurn' /\ SpawnFindsTask'
    BY <1>0, <1>5, HandlerTurn
    DEF DeliverStopped, DropEmptyTurn, TrackEnd, StartingTurn,
        InterruptedTurn, SpawnFindsTask, FreshTurns, IInv, TypeOK, Idle, Turns
  <2>3. LiveRunOwnsSlot' /\ LiveCallAnswerable'
    BY <1>0, <1>5, HandlerTurn
    DEF DeliverStopped, DropEmptyTurn, TrackEnd, LiveRunOwnsSlot,
        LiveCallAnswerable, SpawnFindsTask, StartingTurn, InterruptedTurn,
        CallsOfRuns, IInv, TypeOK, Idle
  <2>4. EndedMeansStopped'
    BY <1>0, <1>5, HandlerTurn
    DEF DeliverStopped, DropEmptyTurn, TrackEnd, EndedMeansStopped,
        StartingTurn, InterruptedTurn, IInv, TypeOK
  <2>5. QED
    BY <2>1, <2>2, <2>3, <2>4 DEF IInv
<1>6. ASSUME StartFails PROVE IInv'
  <2>1. SlotClean' /\ FreshTurns' /\ CallsOfRuns'
    BY <1>0, <1>6, HandlerTurn
    DEF StartFails, SlotClean, FreshTurns, CallsOfRuns, StartingTurn,
        SpawnFindsTask, IInv, TypeOK, Idle, None, Turns, TurnOrNone
  <2>2. StartingTurn' /\ InterruptedTurn' /\ SpawnFindsTask'
    BY <1>0, <1>6, HandlerTurn
    DEF StartFails, StartingTurn, InterruptedTurn, SpawnFindsTask, FreshTurns,
        IInv, TypeOK, Idle, Turns
  <2>3. LiveRunOwnsSlot' /\ LiveCallAnswerable'
    BY <1>0, <1>6, HandlerTurn
    DEF StartFails, LiveRunOwnsSlot, LiveCallAnswerable, SpawnFindsTask,
        StartingTurn, InterruptedTurn, CallsOfRuns, IInv, TypeOK, Idle
  <2>4. EndedMeansStopped'
    BY <1>0, <1>6, HandlerTurn
    DEF StartFails, EndedMeansStopped, StartingTurn, InterruptedTurn, IInv,
        TypeOK
  <2>5. QED
    BY <2>1, <2>2, <2>3, <2>4 DEF IInv
<1>7. ASSUME Steer PROVE IInv'
  <2>1. SlotClean' /\ FreshTurns' /\ CallsOfRuns'
    BY <1>0, <1>7
    DEF Steer, SlotClean, FreshTurns, CallsOfRuns, StartingTurn,
        SpawnFindsTask, IInv, TypeOK, Idle, None, Turns, TurnOrNone
  <2>2. StartingTurn' /\ InterruptedTurn' /\ SpawnFindsTask'
    BY <1>0, <1>7
    DEF Steer, StartingTurn, InterruptedTurn, SpawnFindsTask, FreshTurns,
        IInv, TypeOK, Idle, Turns
  <2>3. LiveRunOwnsSlot' /\ LiveCallAnswerable'
    BY <1>0, <1>7
    DEF Steer, LiveRunOwnsSlot, LiveCallAnswerable, SpawnFindsTask,
        StartingTurn, InterruptedTurn, CallsOfRuns, IInv, TypeOK, Idle
  <2>4. EndedMeansStopped'
    BY <1>0, <1>7
    DEF Steer, EndedMeansStopped, StartingTurn, InterruptedTurn, IInv, TypeOK
  <2>5. QED
    BY <2>1, <2>2, <2>3, <2>4 DEF IInv
<1>8. ASSUME Interrupt PROVE IInv'
  <2>1. SlotClean' /\ FreshTurns' /\ CallsOfRuns'
    BY <1>0, <1>8
    DEF Interrupt, CancelPending, SlotClean, FreshTurns, CallsOfRuns,
        StartingTurn, SpawnFindsTask, IInv, TypeOK, Idle, None, Turns,
        TurnOrNone
  <2>2. StartingTurn' /\ InterruptedTurn' /\ SpawnFindsTask'
    BY <1>0, <1>8
    DEF Interrupt, CancelPending, StartingTurn, InterruptedTurn,
        SpawnFindsTask, FreshTurns, IInv, TypeOK, Idle, Turns
  <2>3. LiveRunOwnsSlot' /\ LiveCallAnswerable'
    BY <1>0, <1>8
    DEF Interrupt, CancelPending, LiveRunOwnsSlot, LiveCallAnswerable,
        SpawnFindsTask, StartingTurn, InterruptedTurn, CallsOfRuns, IInv,
        TypeOK, Idle
  <2>4. EndedMeansStopped'
    BY <1>0, <1>8
    DEF Interrupt, CancelPending, EndedMeansStopped, StartingTurn,
        InterruptedTurn, IInv, TypeOK
  <2>5. QED
    BY <2>1, <2>2, <2>3, <2>4 DEF IInv
<1>9. ASSUME AbortTask PROVE IInv'
  <2>1. SlotClean' /\ FreshTurns' /\ CallsOfRuns'
    BY <1>0, <1>9, HandlerTurn
    DEF AbortTask, SlotClean, FreshTurns, CallsOfRuns, StartingTurn,
        SpawnFindsTask, IInv, TypeOK, Idle, None, Turns, TurnOrNone
  <2>2. StartingTurn' /\ InterruptedTurn' /\ SpawnFindsTask'
    BY <1>0, <1>9, HandlerTurn
    DEF AbortTask, StartingTurn, InterruptedTurn, SpawnFindsTask, FreshTurns,
        IInv, TypeOK, Idle, Turns
  <2>3. \A t \in Turns : Live(t)' => Live(t) /\ t # handler.turn
    BY <1>0, <1>9, HandlerTurn DEF AbortTask, TypeOK
  <2>4. LiveRunOwnsSlot' /\ LiveCallAnswerable' /\ EndedMeansStopped'
    BY <1>9, <2>3
    DEF AbortTask, LiveRunOwnsSlot, LiveCallAnswerable, EndedMeansStopped, IInv
  <2>5. QED
    BY <2>1, <2>2, <2>4 DEF IInv
<1>10. ASSUME DeliverAborted PROVE IInv'
  <2>1. SlotClean' /\ FreshTurns' /\ CallsOfRuns'
    BY <1>0, <1>10, HandlerTurn
    DEF DeliverAborted, TrackEnd, SlotClean, FreshTurns, CallsOfRuns,
        StartingTurn, SpawnFindsTask, IInv, TypeOK, Idle, None, Turns,
        TurnOrNone
  <2>2. StartingTurn' /\ InterruptedTurn' /\ SpawnFindsTask'
    BY <1>0, <1>10, HandlerTurn
    DEF DeliverAborted, TrackEnd, StartingTurn, InterruptedTurn,
        SpawnFindsTask, FreshTurns, IInv, TypeOK, Idle, Turns
  <2>3. LiveRunOwnsSlot' /\ LiveCallAnswerable'
    BY <1>0, <1>10, HandlerTurn
    DEF DeliverAborted, TrackEnd, LiveRunOwnsSlot, LiveCallAnswerable,
        SpawnFindsTask, StartingTurn, InterruptedTurn, CallsOfRuns, IInv,
        TypeOK, Idle
  <2>4. EndedMeansStopped'
    BY <1>0, <1>10, HandlerTurn
    DEF DeliverAborted, TrackEnd, EndedMeansStopped, StartingTurn,
        InterruptedTurn, IInv, TypeOK
  <2>5. QED
    BY <2>1, <2>2, <2>3, <2>4 DEF IInv
<1>11. ASSUME InterruptFails PROVE IInv'
  <2>1. SlotClean' /\ FreshTurns' /\ CallsOfRuns'
    BY <1>0, <1>11, HandlerTurn
    DEF InterruptFails, SlotClean, FreshTurns, CallsOfRuns, StartingTurn,
        SpawnFindsTask, IInv, TypeOK, Idle, None, Turns, TurnOrNone
  <2>2. StartingTurn' /\ InterruptedTurn' /\ SpawnFindsTask'
    BY <1>0, <1>11, HandlerTurn
    DEF InterruptFails, StartingTurn, InterruptedTurn, SpawnFindsTask,
        FreshTurns, IInv, TypeOK, Idle, Turns
  <2>3. LiveRunOwnsSlot' /\ LiveCallAnswerable'
    BY <1>0, <1>11, HandlerTurn
    DEF InterruptFails, LiveRunOwnsSlot, LiveCallAnswerable, SpawnFindsTask,
        StartingTurn, InterruptedTurn, CallsOfRuns, IInv, TypeOK, Idle
  <2>4. EndedMeansStopped'
    BY <1>0, <1>11, HandlerTurn
    DEF InterruptFails, EndedMeansStopped, StartingTurn, InterruptedTurn,
        IInv, TypeOK
  <2>5. QED
    BY <2>1, <2>2, <2>3, <2>4 DEF IInv
<1>12. QED
  BY <1>1, <1>2, <1>3, <1>4, <1>5, <1>6, <1>7, <1>8, <1>9, <1>10, <1>11
  DEF Request

(* Every step keeps the invariant. *)
LEMMA IInvStep == IInv /\ [Next]_vars => IInv'
<1> SUFFICES ASSUME IInv, [Next]_vars PROVE IInv'
  OBVIOUS
<1>1. TypeOK'
  BY TypeStep DEF IInv
<1>2. CASE Request
  BY <1>1, <1>2, IInvRequest
<1>3. ASSUME NEW t \in Turns, RunStep(t) PROVE IInv'
  BY <1>1, <1>3, IInvRun
<1>4. ASSUME NEW t \in Turns, CallStep(t) PROVE IInv'
  BY <1>1, <1>4, IInvCall
<1>5. CASE UNCHANGED vars
  BY <1>5
  DEF vars, IInv, TypeOK, SlotClean, FreshTurns, CallsOfRuns, StartingTurn,
      InterruptedTurn, SpawnFindsTask, LiveRunOwnsSlot, LiveCallAnswerable,
      EndedMeansStopped, Live, Working
<1>6. QED
  BY <1>2, <1>3, <1>4, <1>5 DEF Next

(* The inductive invariant holds in every state of every behaviour, for any*)
(* number of turns, sampling steps and failures: the ground of the theorems*)
(* below.                                                                  *)
THEOREM Invariance == Spec => []IInv
  BY IInvInit, IInvStep, PTL DEF Spec

-----------------------------------------------------------------------------
(* The results.                                                            *)

(* TypeOK holds whatever the numbers of turns, steps and failures. *)
THEOREM TypeCorrect == Spec => []TypeOK
<1>1. IInv => TypeOK
  BY DEF IInv
<1>2. QED
  BY <1>1, Invariance, PTL

(* The task a start request registered is still there when its run is      *)
(* spawned: no older run, however late, removes it in between.             *)
THEOREM SpawnFindsItsTask == Spec => []SpawnFindsTask
<1>1. IInv => SpawnFindsTask
  BY DEF IInv
<1>2. QED
  BY <1>1, Invariance, PTL

(* At most one run works for the thread, with any number of older runs     *)
(* still unwinding and any number of failures.                             *)
THEOREM OneLiveRun == Spec => []SingleLiveRun
<1>1. IInv => SingleLiveRun
  <2>1. SUFFICES ASSUME IInv, NEW t \in Turns, NEW u \in Turns,
                        Live(t), Live(u)
                 PROVE  t = u
    BY DEF SingleLiveRun
  <2>2. /\ \/ activeTurn = t /\ hasTask
           \/ handler = [pc |-> "stopHooks", turn |-> t]
        /\ \/ activeTurn = u /\ hasTask
           \/ handler = [pc |-> "stopHooks", turn |-> u]
    BY <2>1 DEF IInv, LiveRunOwnsSlot
  <2>3. ASSUME NEW v \in Turns, handler = [pc |-> "stopHooks", turn |-> v]
        PROVE  activeTurn = None /\ handler.turn = v
    BY <2>1, <2>3 DEF IInv, InterruptedTurn
  <2>4. None \notin Turns
    BY BoundsAssumption DEF None, Turns
  <2>5. QED
    BY <2>2, <2>3, <2>4
<1>2. QED
  BY <1>1, Invariance, PTL

(* A live run that waits for the user waits for a registration the answer  *)
(* can reach.                                                              *)
THEOREM CallsAnswerable == Spec => []LiveCallAnswerable
<1>1. IInv => LiveCallAnswerable
  BY DEF IInv
<1>2. QED
  BY <1>1, Invariance, PTL

(* A terminal notification is never sent for a turn whose run still works. *)
THEOREM EndsAreFinal == Spec => []EndedMeansStopped
<1>1. IInv => EndedMeansStopped
  BY DEF IInv
<1>2. QED
  BY <1>1, Invariance, PTL

(* A step that takes accepted input away from a turn that goes on. *)
InputTaken ==
  pendingInput /\ ~pendingInput' /\ activeTurn' = activeTurn /\ hasTask'

(* No request does: they clear the input only with the task or the turn. *)
LEMMA RequestKeepsInput ==
  ASSUME TypeOK, Request
  PROVE  ~InputTaken
<1>1. pendingInput \in BOOLEAN /\ hasTask \in BOOLEAN
  BY DEF TypeOK
<1>2. CASE \/ \E k \in Kinds : StartTurn(k)
           \/ DeliverStarted \/ SpawnTask \/ StartFails
           \/ AbortTask \/ DeliverAborted \/ InterruptFails
  BY <1>2 DEF StartTurn, DeliverStarted, SpawnTask, StartFails, AbortTask,
     DeliverAborted, InterruptFails, slotVars, InputTaken
<1>3. CASE StopByHook
  BY <1>3 DEF StopByHook, FinishTask, CancelPending, InputTaken
<1>4. CASE DeliverStopped
  <2>1. hasTask' = hasTask
        /\ (hasTask => pendingInput' = pendingInput)
    BY <1>4 DEF DeliverStopped, DropEmptyTurn
  <2>2. QED
    BY <2>1 DEF InputTaken
<1>5. CASE Steer \/ Interrupt
  BY <1>5 DEF Steer, Interrupt, InputTaken
<1>6. QED
  BY <1>2, <1>3, <1>4, <1>5 DEF Request

(* A run does it when its tools are in or when it fails, and a failing run *)
(* takes its own task with it.                                             *)
LEMMA RunTakesInput ==
  ASSUME TypeOK, NEW t \in Turns, RunStep(t), InputTaken
  PROVE  \/ run[t] = "tools" /\ run'[t] # "tools"
         \/ /\ activeTurn # t
            /\ run[t] # run'[t] /\ run'[t] \in {"fail1", "fail2"}
<1>1. /\ pendingInput # pendingInput' /\ hasTask'
      /\ run \in [Turns -> RunPoints]
  BY DEF TypeOK, InputTaken
<1>2. CASE SetupDone(t) \/ ToolCall(t) \/ StreamDone(t) \/ DeliverError(t)
  BY <1>1, <1>2 DEF SetupDone, ToolCall, StreamDone, DeliverError, slotVars
<1>3. CASE CompactDone(t)
  BY <1>1, <1>3 DEF CompactDone, FinishTask
<1>4. CASE FinishStep(t)
  BY <1>1, <1>4 DEF FinishStep, Settle, GoTo
<1>5. CASE DeliverComplete(t) \/ DeliverCompleteAgain(t)
           \/ DeliverFailedAgain(t)
  <2>1. hasTask' = hasTask
        /\ (hasTask => pendingInput' = pendingInput)
    BY <1>5 DEF DeliverComplete, DeliverCompleteAgain, DeliverFailedAgain,
       DropEmptyTurn
  <2>2. QED
    BY <1>1, <2>1
<1>6. CASE SetupFails(t) \/ SamplingFails(t) \/ PersistFails(t)
  BY <1>1, <1>6 DEF SetupFails, SamplingFails, PersistFails, FailTask, GoTo
<1>7. CASE DeliverFailed(t)
  <2>1. CASE aborted[t]
    <3>1. hasTask' = hasTask
          /\ (hasTask => pendingInput' = pendingInput)
      BY <1>7, <2>1 DEF DeliverFailed, DropEmptyTurn
    <3>2. QED
      BY <1>1, <3>1
  <2>2. CASE ~aborted[t]
    BY <1>1, <1>7, <2>2 DEF DeliverFailed, FailTask, GoTo
  <2>3. QED
    BY <2>1, <2>2
<1>8. QED
  BY <1>2, <1>3, <1>4, <1>5, <1>6, <1>7 DEF RunStep

(* Steered input that was accepted leaves a turn that goes on only for the *)
(* turn's own run, or to an older run that still unwinds.                  *)
THEOREM SteerReachesItsRun == Spec => SteerReachesRun
<1> DEFINE Explained ==
      \/ run[activeTurn] = "tools" /\ run'[activeTurn] # "tools"
      \/ \E u \in Turns \ {activeTurn} :
           \/ run[u] = "tools" /\ run'[u] # "tools"
           \/ run[u] # run'[u] /\ run'[u] \in {"fail1", "fail2"}
<1>1. ASSUME TypeOK, [Next]_vars, InputTaken PROVE Explained
  <2>1. ~UNCHANGED vars
    BY <1>1 DEF vars, slotVars, InputTaken, TypeOK
  <2>2. PICK t \in Turns : RunStep(t) \/ CallStep(t)
    BY <1>1, <2>1, RequestKeepsInput DEF Next
  <2>3. CASE RunStep(t)
    BY <1>1, <2>3, RunTakesInput
  <2>4. CASE CallStep(t)
    BY <1>1, <2>4 DEF CallStep, CallReturns, AskUser, AskPermission,
       RegisterPermission, Answer, slotVars, InputTaken, TypeOK
  <2>5. QED
    BY <2>2, <2>3, <2>4
<1>2. TypeOK /\ [Next]_vars =>
        [pendingInput /\ ~pendingInput' /\ activeTurn' = activeTurn /\ hasTask'
           => Explained]_vars
  BY <1>1 DEF InputTaken
<1>3. QED
  BY <1>2, TypeCorrect, PTL DEF Spec, SteerReachesRun

(* The thread implements the slot: a new turn takes it only while it is    *)
(* free, and no other step moves it from one turn to another.              *)
THEOREM SlotRefinement == Spec => ImplementsSlot
<1>1. Init => Slot!Init
  BY DEF Init, Slot!Init, None, Slot!None
<1>2. [Next]_vars => [Slot!Next]_(Slot!slotVars)
  <2>1. SUFFICES ASSUME [Next]_vars PROVE [Slot!Next]_(Slot!slotVars)
    OBVIOUS
  <2>2. ASSUME NEW k \in Kinds, StartTurn(k) PROVE Slot!Take
    BY <2>2 DEF StartTurn, Slot!Take, None, Slot!None
  <2>3. ASSUME UNCHANGED last,
               activeTurn' = activeTurn \/ activeTurn' = None
        PROVE  Slot!GiveBack \/ UNCHANGED Slot!slotVars
    BY <2>3 DEF Slot!GiveBack, Slot!slotVars, None, Slot!None
  <2>4. ASSUME Request, \A k \in Kinds : ~StartTurn(k)
        PROVE  /\ UNCHANGED last
               /\ activeTurn' = activeTurn \/ activeTurn' = None
    BY <2>4
    DEF Request, DeliverStarted, SpawnTask, StopByHook, DeliverStopped,
        DropEmptyTurn, StartFails, Steer, Interrupt, AbortTask,
        DeliverAborted, InterruptFails
  <2>5. ASSUME NEW t \in Turns, RunStep(t)
        PROVE  /\ UNCHANGED last
               /\ activeTurn' = activeTurn \/ activeTurn' = None
    BY <2>5
    DEF RunStep, SetupDone, CompactDone, SetupFails, ToolCall, StreamDone,
        FinishStep, SamplingFails, DeliverComplete, DeliverCompleteAgain,
        DeliverError, DeliverFailed, DeliverFailedAgain, PersistFails,
        DropEmptyTurn
  <2>6. ASSUME NEW t \in Turns, CallStep(t)
        PROVE  UNCHANGED <<last, activeTurn>>
    BY <2>6
    DEF CallStep, CallReturns, AskUser, AskPermission, RegisterPermission,
        Answer
  <2>7. CASE UNCHANGED vars
    BY <2>7 DEF vars, Slot!slotVars
  <2>8. QED
    BY <2>1, <2>2, <2>3, <2>4, <2>5, <2>6, <2>7 DEF Next, Slot!Next
<1>3. QED
  BY <1>1, <1>2, PTL DEF Spec, ImplementsSlot, Slot!Spec
=============================================================================
