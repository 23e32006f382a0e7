--------------------------- MODULE TurnLifecycle ---------------------------
(***************************************************************************)
(* The life of the turns of one thread: Session.activeTurn and its         *)
(* TurnState (core/src/session/session.ts, core/src/state/turn.ts), the    *)
(* background run of a regular or compact task (session/turn.ts,           *)
(* compact-task-runner.ts, app-server/src/session_task_runner.ts), the     *)
(* request handlers that start, steer and interrupt turns                  *)
(* (request_processors/turn_processor.ts) and the ThreadState the app      *)
(* server keeps from the emitted events (thread_state.ts).                 *)
(*                                                                         *)
(* Everything runs on one JavaScript thread: code between two awaits that  *)
(* leave the process (persistence, hooks, the model, a tool, the user) is  *)
(* one action.  Request handlers of a thread are serialised by its request *)
(* queue, so one `handler` record stands for the request being served; the *)
(* runs and the interactive calls of all turns interleave with it.         *)
(*                                                                         *)
(* Turn n is the n-th turn started on the thread; the ActiveTurn object is *)
(* identified with the turn it was created for, since start_task creates a *)
(* new one whenever activeTurn is null.                                    *)
(***************************************************************************)
EXTENDS Naturals, FiniteSets

CONSTANTS
  MaxTurns,            \* bound on the turns started on the thread
  MaxSteps,            \* bound of run_sampling_request (8 in the code)
  MaxFaults            \* bound on injected persistence, hook or store failures

ASSUME BoundsAssumption ==
  /\ MaxTurns \in Nat
  /\ MaxSteps \in Nat \ {0}
  /\ MaxFaults \in Nat

None == 0              \* activeTurn (or abortController) is null

Turns == 1 .. MaxTurns

TurnOrNone == 0 .. MaxTurns

Kinds == {"Regular", "Compact"}

VARIABLES
  activeTurn,          \* the turn whose ActiveTurn the session holds, or None
  hasTask,             \* that ActiveTurn still holds a RunningTask
  pending,             \* turns with a call registered in its TurnState
  pendingInput,        \* its TurnState holds steered input
  last,                \* the last turn started
  kind,                \* the TaskKind of each turn
  run,                 \* program point of each turn's background run
  steps,               \* sampling steps each run has begun
  aborted,             \* the AbortSignal of each turn's run has fired
  call,                \* state of each turn's interactive tool call
  abortController,     \* RuntimeSession.abortController: the turn it aborts
  handler,             \* the request the thread's queue is serving
  tracked,             \* turns ThreadState.currentTurnHistory has in progress
  ended,               \* terminal notifications delivered for each turn
  abandoned,           \* turns whose interrupt failed before aborting the run
  faults               \* failures injected so far

slotVars == <<activeTurn, hasTask, pending, pendingInput>>
runVars  == <<run, steps, abortController>>
eventVars == <<tracked, ended>>
vars == <<slotVars, last, kind, runVars, aborted, call, handler, eventVars,
          abandoned, faults>>

(* A call that is still waiting, in hooks or for its answer. *)
InFlight(t) == call[t] \in {"hooks", "permHooks", "waiting"}

(* The run still talks to the model or runs tools. *)
Working(t) == run[t] \in {"setup", "sampling", "tools"}

(* The run of t works for the thread: nobody has told it to stop, and no   *)
(* failed interrupt has cut it off from the signal that would.             *)
Live(t) == Working(t) /\ ~aborted[t] /\ t \notin abandoned

Idle == [pc |-> "idle", turn |-> None]

Init ==
  /\ activeTurn = None
  /\ hasTask = FALSE
  /\ pending = {}
  /\ pendingInput = FALSE
  /\ last = 0
  /\ kind = [t \in Turns |-> "Regular"]
  /\ run = [t \in Turns |-> "idle"]
  /\ steps = [t \in Turns |-> 0]
  /\ aborted = [t \in Turns |-> FALSE]
  /\ call = [t \in Turns |-> "none"]
  /\ abortController = None
  /\ handler = Idle
  /\ tracked = {}
  /\ ended = [t \in Turns |-> {}]
  /\ abandoned = {}
  /\ faults = 0
-----------------------------------------------------------------------------
(* State changes several handlers share.                                   *)

(* TurnState.cancelPending: every registered call resolves with null, and  *)
(* clearPending drops the steered input with the registrations.            *)
CancelPending ==
  /\ call' = [t \in Turns |-> IF t \in pending THEN "cancelled" ELSE call[t]]
  /\ pending' = {}
  /\ pendingInput' = FALSE

(* The synchronous head of on_task_finished: pending calls are cancelled   *)
(* only when the turn's own task was still there and was the last one.     *)
FinishTask(t) ==
  IF activeTurn = t /\ hasTask
  THEN hasTask' = FALSE /\ CancelPending
  ELSE UNCHANGED <<hasTask, pending, pendingInput, call>>

(* The slips a change to this code could make stand beside the definition  *)
(* they would replace: here, failTurn clears the active turn's tasks        *)
(* instead of its own.                                                     *)
FailAnyTask(t) ==
  /\ hasTask' = FALSE
  /\ CancelPending

(* The synchronous head of failTurn: it removes only its own task but      *)
(* cancels whatever is pending in the turn that is active now.             *)
FailTask(t) ==
  /\ hasTask' = (hasTask /\ activeTurn # t)
  /\ CancelPending

(* Slip: activeTurn is reset without looking at its size. *)
DropAnyTurn ==
  /\ activeTurn' = None
  /\ pending' = {}
  /\ pendingInput' = FALSE

(* Slip: the active turn's input is cleared before its size is looked at. *)
ClearActiveTurn ==
  /\ pendingInput' = FALSE
  /\ IF hasTask
     THEN UNCHANGED <<activeTurn, pending>>
     ELSE activeTurn' = None /\ pending' = {}

(* The tail of on_task_finished and failTurn: the ActiveTurn is dropped    *)
(* when it has no task left.  Its registrations go with it, unresolved.    *)
DropEmptyTurn ==
  IF hasTask
  THEN UNCHANGED <<activeTurn, pending, pendingInput>>
  ELSE activeTurn' = None /\ pending' = {} /\ pendingInput' = FALSE

(* The newest in-progress turn, the one active_turn() returns. *)
Newest(S) == {t \in S : \A u \in S : u <= t}

(* ThreadState.trackCurrentTurnEvent: a terminal event of any turn empties *)
(* the history of the current one.  Events of items are not modelled: the  *)
(* next one of a turn that was dropped adds it again, without its earlier  *)
(* items (ensure_turn).                                                    *)
TrackStarted(t) == tracked' = tracked \union {t}
TrackError == tracked' = tracked \ Newest(tracked)
TrackEnd(t, event) ==
  /\ tracked' = {}
  /\ ended' = [ended EXCEPT ![t] = @ \union {event}]

(* The promise of spawn_task settles; its `finally` clears the session's   *)
(* controller, whichever run that controller belongs to.                   *)
Settle(t) ==
  /\ run' = [run EXCEPT ![t] = "settled"]
  /\ abortController' = None
  /\ UNCHANGED steps

GoTo(t, pc) ==
  /\ run' = [run EXCEPT ![t] = pc]
  /\ UNCHANGED <<steps, abortController>>

InjectFault ==
  /\ faults < MaxFaults
  /\ faults' = faults + 1
-----------------------------------------------------------------------------
(* Requests: turn/start, thread/compact/start, turn/steer, turn/interrupt. *)

(* Slip: the check for an active turn is missing. *)
StartUnchecked(k) ==
  /\ handler.pc = "idle"
  /\ last < MaxTurns
  /\ last' = last + 1
  /\ activeTurn' = last'
  /\ hasTask' = TRUE
  /\ kind' = [kind EXCEPT ![last'] = k]
  /\ handler' = [pc |-> "starting", turn |-> last']
  /\ UNCHANGED <<pending, pendingInput, runVars, aborted, call, eventVars,
                 abandoned, faults>>

(* turnStart or threadCompactStart passes its check and startTurn (or      *)
(* startCompactTurn) runs up to the turn_started event of start_task.  The *)
(* reads in between cannot be overtaken: only this queue starts a turn.    *)
StartTurn(k) ==
  /\ handler.pc = "idle"
  /\ activeTurn = None
  /\ last < MaxTurns
  /\ last' = last + 1
  /\ activeTurn' = last'
  /\ hasTask' = TRUE
  /\ kind' = [kind EXCEPT ![last'] = k]
  /\ handler' = [pc |-> "starting", turn |-> last']
  /\ UNCHANGED <<pending, pendingInput, runVars, aborted, call, eventVars,
                 abandoned, faults>>

(* turn_started is persisted and delivered. *)
DeliverStarted ==
  /\ handler.pc = "starting"
  /\ handler' = [handler EXCEPT !.pc = "preparing"]
  /\ TrackStarted(handler.turn)
  /\ UNCHANGED <<slotVars, last, kind, runVars, aborted, call, ended,
                 abandoned, faults>>

(* Hooks let the turn go on, its context and input are recorded, history   *)
(* and model client are loaded, and spawnTask starts the run.              *)
SpawnTask ==
  /\ handler.pc = "preparing"
  /\ handler' = Idle
  /\ run' = [run EXCEPT ![handler.turn] = "setup"]
  /\ abortController' = handler.turn
  /\ UNCHANGED <<slotVars, last, kind, steps, aborted, call, eventVars,
                 abandoned, faults>>

(* Slip: the hook's error is thrown without completing the turn. *)
StopByHookOnly ==
  /\ handler.pc = "preparing"
  /\ handler' = Idle
  /\ TrackError
  /\ UNCHANGED <<slotVars, last, kind, runVars, aborted, call, ended,
                 abandoned, faults>>

(* A UserPromptSubmit or PreCompact hook stops the turn: an error event,   *)
(* then completeTurn up to its turn_complete event.                        *)
StopByHook ==
  /\ handler.pc = "preparing"
  /\ handler' = [handler EXCEPT !.pc = "stopping"]
  /\ TrackError
  /\ FinishTask(handler.turn)
  /\ UNCHANGED <<activeTurn, last, kind, runVars, aborted, ended, abandoned,
                 faults>>

DeliverStopped ==
  /\ handler.pc = "stopping"
  /\ handler' = Idle
  /\ DropEmptyTurn
  /\ TrackEnd(handler.turn, "complete")
  /\ UNCHANGED <<hasTask, last, kind, runVars, aborted, call, abandoned,
                 faults>>

(* A hook, the rollout, loadHistory or createModelClient throws after      *)
(* start_task: the request fails and nothing takes the task back.          *)
StartFails ==
  /\ handler.pc \in {"starting", "preparing", "stopping"}
  /\ InjectFault
  /\ handler' = Idle
  /\ UNCHANGED <<slotVars, last, kind, runVars, aborted, call, eventVars,
                 abandoned>>

(* turnSteer: steer_input accepts input for the first task of the active   *)
(* turn, when that is the regular turn the client expects.                 *)
Steer ==
  /\ handler.pc = "idle"
  /\ activeTurn # None
  /\ hasTask
  /\ kind[activeTurn] = "Regular"
  /\ pendingInput' = TRUE
  /\ UNCHANGED <<activeTurn, hasTask, pending, last, kind, runVars, aborted,
                 call, handler, eventVars, abandoned, faults>>

(* turnInterrupt of the active turn: the session's controller is aborted,  *)
(* whichever run it belongs to; abort_all_tasks drains the tasks, cancels  *)
(* what is pending and drops the ActiveTurn, then runs the Stop hooks of   *)
(* the drained task.  An ActiveTurn without tasks is dropped at once.      *)
Interrupt ==
  /\ handler.pc = "idle"
  /\ activeTurn # None
  /\ aborted' = [t \in Turns |-> aborted[t] \/ t = abortController]
  /\ CancelPending
  /\ activeTurn' = None
  /\ hasTask' = FALSE
  /\ handler' = IF hasTask THEN [pc |-> "stopHooks", turn |-> activeTurn]
                ELSE Idle
  /\ UNCHANGED <<last, kind, runVars, eventVars, abandoned, faults>>

(* Slip: abort_all_tasks trusts the session's controller to have aborted   *)
(* the run.                                                                *)
AbortNothing ==
  /\ handler.pc = "stopHooks"
  /\ handler' = [handler EXCEPT !.pc = "aborting"]
  /\ UNCHANGED <<slotVars, last, kind, runVars, aborted, call, eventVars,
                 abandoned, faults>>

(* The Stop hooks are done: the task's own controller is aborted (a task   *)
(* that was never spawned has none).                                       *)
AbortTask ==
  /\ handler.pc = "stopHooks"
  /\ handler' = [handler EXCEPT !.pc = "aborting"]
  /\ aborted' = [aborted EXCEPT ![handler.turn] =
                   @ \/ run[handler.turn] # "idle"]
  /\ UNCHANGED <<slotVars, last, kind, runVars, call, eventVars, abandoned,
                 faults>>

DeliverAborted ==
  /\ handler.pc = "aborting"
  /\ handler' = Idle
  /\ TrackEnd(handler.turn, "aborted")
  /\ UNCHANGED <<slotVars, last, kind, runVars, aborted, call, abandoned,
                 faults>>

(* A Stop hook or the rollout throws: the request fails half way.  Before  *)
(* the abort, the drained task keeps running with nobody to stop it.       *)
InterruptFails ==
  /\ handler.pc \in {"stopHooks", "aborting"}
  /\ InjectFault
  /\ handler' = Idle
  /\ abandoned' = IF handler.pc = "stopHooks"
                  THEN abandoned \union {handler.turn} ELSE abandoned
  /\ UNCHANGED <<slotVars, last, kind, runVars, aborted, call, eventVars>>

Request ==
  \/ \E k \in Kinds : StartTurn(k)
  \/ DeliverStarted \/ SpawnTask \/ StopByHook \/ DeliverStopped
  \/ StartFails
  \/ Steer
  \/ Interrupt \/ AbortTask \/ DeliverAborted \/ InterruptFails
-----------------------------------------------------------------------------
(* The background run of turn t.                                           *)

(* Before sampling: automatic compaction, tool listing, steering items; a  *)
(* compact task goes through its whole compaction here.                    *)
SetupDone(t) ==
  /\ run[t] = "setup"
  /\ kind[t] = "Regular"
  /\ IF aborted[t]
     THEN Settle(t)
     ELSE /\ run' = [run EXCEPT ![t] = "sampling"]
          /\ steps' = [steps EXCEPT ![t] = 1]
          /\ UNCHANGED abortController
  /\ UNCHANGED <<slotVars, last, kind, aborted, call, handler, eventVars,
                 abandoned, faults>>

(* run_compact_task returns and spawn_task finishes the turn, once. *)
CompactDone(t) ==
  /\ run[t] = "setup"
  /\ kind[t] = "Compact"
  /\ IF aborted[t]
     THEN Settle(t) /\ UNCHANGED <<hasTask, pending, pendingInput, call>>
     ELSE GoTo(t, "complete2") /\ FinishTask(t)
  /\ UNCHANGED <<activeTurn, last, kind, aborted, handler, eventVars,
                 abandoned, faults>>

(* An error outside run_sampling_request: only spawn_task's catch sees it. *)
SetupFails(t) ==
  /\ run[t] = "setup"
  /\ IF aborted[t]
     THEN Settle(t) /\ UNCHANGED <<hasTask, pending, pendingInput, call>>
     ELSE GoTo(t, "fail2") /\ FailTask(t)
  /\ UNCHANGED <<activeTurn, last, kind, aborted, handler, eventVars,
                 abandoned, faults>>

(* The stream yields a tool call; its future starts without being awaited. *)
ToolCall(t) ==
  /\ run[t] = "sampling"
  /\ ~aborted[t]
  /\ call[t] = "none"
  /\ call' = [call EXCEPT ![t] = "hooks"]
  /\ UNCHANGED <<slotVars, last, kind, runVars, aborted, handler, eventVars,
                 abandoned, faults>>

StreamDone(t) ==
  /\ run[t] = "sampling"
  /\ GoTo(t, "tools")
  /\ UNCHANGED <<slotVars, last, kind, aborted, call, handler, eventVars,
                 abandoned, faults>>

(* Slip: a tool future is not raced against the abort. *)
CallsInUnraced(t) == ~InFlight(t)

(* Promise.all over the tool futures; raceAbort resolves them on abort. *)
CallsIn(t) == InFlight(t) => aborted[t]

(* Slip: one step too many. *)
StepLeftInclusive(t) == steps[t] <= MaxSteps

(* The bound of the sampling loop. *)
StepLeft(t) == steps[t] < MaxSteps

(* The tool futures are in, pending input is taken from the turn that is   *)
(* active now, and the loop goes on when there is a call to follow up or   *)
(* input to send and a step left.                                          *)
FinishStep(t) ==
  /\ run[t] = "tools"
  /\ CallsIn(t)
  /\ LET followUp == call[t] # "none" \/ pendingInput
     IN  CASE aborted[t] ->
                /\ Settle(t)
                /\ pendingInput' = FALSE
                /\ UNCHANGED <<hasTask, pending, call>>
           [] ~aborted[t] /\ followUp /\ StepLeft(t) ->
                /\ run' = [run EXCEPT ![t] = "sampling"]
                /\ steps' = [steps EXCEPT ![t] = @ + 1]
                /\ call' = [call EXCEPT ![t] = "none"]
                /\ pendingInput' = FALSE
                /\ UNCHANGED <<abortController, hasTask, pending>>
           [] OTHER ->
                /\ GoTo(t, "complete1")
                /\ IF activeTurn = t /\ hasTask
                   THEN FinishTask(t)
                   ELSE /\ pendingInput' = FALSE
                        /\ UNCHANGED <<hasTask, pending, call>>
  /\ UNCHANGED <<activeTurn, last, kind, aborted, handler, eventVars,
                 abandoned, faults>>

(* The stream, a fatal tool error or the rollout throws inside the         *)
(* sampling loop; an aborted run returns instead of failing.               *)
SamplingFails(t) ==
  /\ run[t] \in {"sampling", "tools"}
  /\ IF aborted[t]
     THEN Settle(t) /\ UNCHANGED <<hasTask, pending, pendingInput, call>>
     ELSE GoTo(t, "fail1") /\ FailTask(t)
  /\ UNCHANGED <<activeTurn, last, kind, aborted, handler, eventVars,
                 abandoned, faults>>

(* run_sampling_request's turn_complete is delivered.  Unless the run was  *)
(* aborted meanwhile, spawn_task calls on_task_finished a second time; the *)
(* task is gone by then, so its head does nothing.                         *)
DeliverComplete(t) ==
  /\ run[t] = "complete1"
  /\ DropEmptyTurn
  /\ TrackEnd(t, "complete")
  /\ IF aborted[t] THEN Settle(t) ELSE GoTo(t, "complete2")
  /\ UNCHANGED <<hasTask, last, kind, aborted, call, handler, abandoned,
                 faults>>

(* spawn_task's own turn_complete, for a regular turn the second one. *)
DeliverCompleteAgain(t) ==
  /\ run[t] = "complete2"
  /\ DropEmptyTurn
  /\ TrackEnd(t, "complete")
  /\ Settle(t)
  /\ UNCHANGED <<hasTask, last, kind, aborted, call, handler, abandoned,
                 faults>>

(* failTurn delivers its error event, which marks the newest tracked turn  *)
(* failed whichever turn that is.                                          *)
DeliverError(t) ==
  /\ run[t] \in {"fail1", "fail2"}
  /\ TrackError
  /\ GoTo(t, IF run[t] = "fail1" THEN "failed1" ELSE "failed2")
  /\ UNCHANGED <<slotVars, last, kind, aborted, call, handler, ended,
                 abandoned, faults>>

(* The turn_complete of run_sampling_request's failTurn; the error is      *)
(* thrown on and spawn_task's catch fails the turn again.                  *)
DeliverFailed(t) ==
  /\ run[t] = "failed1"
  /\ TrackEnd(t, "complete")
  /\ IF aborted[t]
     THEN DropEmptyTurn /\ Settle(t) /\ UNCHANGED <<hasTask, call>>
     ELSE /\ GoTo(t, "fail2")
          /\ FailTask(t)
          /\ activeTurn' = IF hasTask THEN activeTurn ELSE None
  /\ UNCHANGED <<last, kind, aborted, handler, abandoned, faults>>

DeliverFailedAgain(t) ==
  /\ run[t] = "failed2"
  /\ DropEmptyTurn
  /\ TrackEnd(t, "complete")
  /\ Settle(t)
  /\ UNCHANGED <<hasTask, last, kind, aborted, call, handler, abandoned,
                 faults>>

(* The rollout rejects the event a run is about to deliver.  spawn_task's  *)
(* catch fails the turn (again) unless it is already doing so.             *)
PersistFails(t) ==
  /\ run[t] \in {"complete1", "complete2", "fail1", "failed1", "fail2",
                 "failed2"}
  /\ InjectFault
  /\ IF aborted[t] \/ run[t] \in {"fail2", "failed2"}
     THEN Settle(t) /\ UNCHANGED <<hasTask, pending, pendingInput, call>>
     ELSE GoTo(t, "fail2") /\ FailTask(t)
  /\ UNCHANGED <<activeTurn, last, kind, aborted, handler, eventVars,
                 abandoned>>

RunStep(t) ==
  \/ SetupDone(t) \/ CompactDone(t) \/ SetupFails(t)
  \/ ToolCall(t) \/ StreamDone(t) \/ FinishStep(t) \/ SamplingFails(t)
  \/ DeliverComplete(t) \/ DeliverCompleteAgain(t)
  \/ DeliverError(t) \/ DeliverFailed(t) \/ DeliverFailedAgain(t)
  \/ PersistFails(t)
-----------------------------------------------------------------------------
(* The interactive tool call of turn t.  It is not cancelled with the run: *)
(* raceAbort only stops waiting for it.                                    *)

(* The tool ends without asking anybody. *)
CallReturns(t) ==
  /\ call[t] \in {"hooks", "permHooks"}
  /\ call' = [call EXCEPT ![t] = "answered"]
  /\ UNCHANGED <<slotVars, last, kind, runVars, aborted, handler, eventVars,
                 abandoned, faults>>

(* request_user_input and request_dynamic_tool: no active turn answers     *)
(* null; otherwise the call registers with whichever turn is active.       *)
AskUser(t) ==
  /\ call[t] = "hooks"
  /\ IF activeTurn = None
     THEN call' = [call EXCEPT ![t] = "cancelled"] /\ UNCHANGED pending
     ELSE /\ call' = [call EXCEPT ![t] = "waiting"]
          /\ pending' = pending \union {t}
  /\ UNCHANGED <<activeTurn, hasTask, pendingInput, last, kind, runVars,
                 aborted, handler, eventVars, abandoned, faults>>

(* request_permissions looks at the active turn, then awaits its hooks ... *)
AskPermission(t) ==
  /\ call[t] = "hooks"
  /\ call' = [call EXCEPT ![t] = IF activeTurn = None THEN "cancelled"
                                 ELSE "permHooks"]
  /\ UNCHANGED <<slotVars, last, kind, runVars, aborted, handler, eventVars,
                 abandoned, faults>>

(* ... and registers through `activeTurn?.` with the turn active by then,  *)
(* or with none, and waits in either case.                                 *)
RegisterPermission(t) ==
  /\ call[t] = "permHooks"
  /\ call' = [call EXCEPT ![t] = "waiting"]
  /\ pending' = IF activeTurn = None THEN pending ELSE pending \union {t}
  /\ UNCHANGED <<activeTurn, hasTask, pendingInput, last, kind, runVars,
                 aborted, handler, eventVars, abandoned, faults>>

(* The client's answer reaches the active turn's registration. *)
Answer(t) ==
  /\ t \in pending
  /\ pending' = pending \ {t}
  /\ call' = [call EXCEPT ![t] = "answered"]
  /\ UNCHANGED <<activeTurn, hasTask, pendingInput, last, kind, runVars,
                 aborted, handler, eventVars, abandoned, faults>>

CallStep(t) ==
  \/ CallReturns(t) \/ AskUser(t) \/ AskPermission(t)
  \/ RegisterPermission(t) \/ Answer(t)

Next == Request \/ \E t \in Turns : RunStep(t) \/ CallStep(t)

(* Promises that are pending keep being run: the request being served, the *)
(* runs and the hooks of a call go on, and a model's stream ends or throws.*)
(* Nothing makes the client send a request or answer a call, and no tool   *)
(* or store is bound to fail.                                              *)
Fairness ==
  /\ WF_vars(DeliverStarted \/ SpawnTask \/ StopByHook \/ DeliverStopped
             \/ AbortTask \/ DeliverAborted)
  /\ \A t \in Turns :
       /\ WF_vars(SetupDone(t) \/ CompactDone(t) \/ SetupFails(t))
       /\ WF_vars(run[t] = "sampling" /\ (StreamDone(t) \/ SamplingFails(t)))
       /\ WF_vars(FinishStep(t))
       /\ WF_vars(DeliverComplete(t) \/ DeliverCompleteAgain(t)
                  \/ DeliverError(t) \/ DeliverFailed(t)
                  \/ DeliverFailedAgain(t))
       /\ WF_vars(CallReturns(t) \/ AskUser(t) \/ AskPermission(t)
                  \/ RegisterPermission(t))

Spec == Init /\ [][Next]_vars

FairSpec == Spec /\ Fairness
-----------------------------------------------------------------------------
(* Properties.                                                             *)

RunPoints == {"idle", "setup", "sampling", "tools", "complete1", "complete2",
              "fail1", "failed1", "fail2", "failed2", "settled"}

CallStates == {"none", "hooks", "permHooks", "waiting", "answered",
               "cancelled"}

HandlerPoints == {"starting", "preparing", "stopping", "stopHooks",
                  "aborting"}

(* Every variable stays within its type. *)
TypeOK ==
  /\ activeTurn \in TurnOrNone
  /\ hasTask \in BOOLEAN
  /\ pending \subseteq Turns
  /\ pendingInput \in BOOLEAN
  /\ last \in TurnOrNone
  /\ kind \in [Turns -> Kinds]
  /\ run \in [Turns -> RunPoints]
  /\ steps \in [Turns -> 0 .. MaxSteps]
  /\ aborted \in [Turns -> BOOLEAN]
  /\ call \in [Turns -> CallStates]
  /\ abortController \in TurnOrNone
  /\ handler \in {Idle} \union [pc : HandlerPoints, turn : Turns]
  /\ tracked \subseteq Turns
  /\ ended \in [Turns -> SUBSET {"complete", "aborted"}]
  /\ abandoned \subseteq Turns
  /\ faults \in 0 .. MaxFaults

(* A run that is about to be spawned finds the task its request registered *)
(* in the active turn, whatever older runs did during the request's        *)
(* awaits: spawn_task never takes the branch that registers it again.      *)
SpawnFindsTask ==
  handler.pc \in {"starting", "preparing"} =>
    activeTurn = handler.turn /\ hasTask

(* A live run is the one in the slot, except while the interrupt that took *)
(* it out of the slot has not reached the abort yet.                       *)
LiveRunOwnsSlot ==
  \A t \in Turns : Live(t) =>
    \/ activeTurn = t /\ hasTask
    \/ handler = [pc |-> "stopHooks", turn |-> t]

(* Two runs never work for the same thread at the same time, although an   *)
(* older run settles long after its turn was given up.                     *)
SingleLiveRun == \A t, u \in Turns : Live(t) /\ Live(u) => t = u

(* A live run whose tool call waits for the user can get its answer: the   *)
(* call is registered in the turn that answers are routed to.  Only an     *)
(* interrupt on its way to the abort may suspend that.                     *)
LiveCallAnswerable ==
  \A t \in Turns : Live(t) /\ call[t] = "waiting" =>
    \/ activeTurn = t /\ t \in pending
    \/ handler = [pc |-> "stopHooks", turn |-> t]

(* Once a client has been told that a turn completed or was aborted, the   *)
(* turn's run no longer works for the thread.                              *)
EndedMeansStopped ==
  \A t \in Turns : ended[t] # {} => ~Live(t)

(* Accepted steering input leaves a turn that goes on only for its own     *)
(* run, unless an older turn's run is still unwinding: it takes the input  *)
(* of the turn active by then when its tools come in, and drops it when it *)
(* fails.                                                                  *)
SteerReachesRun ==
  [][ pendingInput /\ ~pendingInput' /\ activeTurn' = activeTurn /\ hasTask'
      => \/ run[activeTurn] = "tools" /\ run'[activeTurn] # "tools"
         \/ \E u \in Turns \ {activeTurn} :
              \/ run[u] = "tools" /\ run'[u] # "tools"
              \/ run[u] # run'[u] /\ run'[u] \in {"fail1", "fail2"}
    ]_vars

(* An abort is never lost: the run it reached always settles, also when it *)
(* was waiting for an answer that nobody will give any more.               *)
AbortedRunSettles ==
  \A t \in Turns : aborted[t] ~> run[t] = "settled"

(* When nothing fails, a turn that was started is reported complete or     *)
(* aborted, or its call waits for an answer the client can give.           *)
TurnEndsOrAsks ==
  \A t \in Turns : last >= t ~> \/ ended[t] # {}
                                \/ t \in pending
                                \/ faults > 0

(* Seen through activeTurn the thread is a TurnSlot. *)
Slot == INSTANCE TurnSlot WITH slot <- activeTurn
ImplementsSlot == Slot!Spec

(* turn_processor.ts rejects a start with "A Codex turn is already active  *)
(* for this thread": then that turn's run is still in progress.            *)
RejectionMeansRunning ==
  handler.pc = "idle" /\ activeTurn # None =>
    run[activeTurn] \notin {"idle", "settled"}

(* ThreadState carries the active-turn state (core-realizations.md): the   *)
(* turn whose run is working is in the tracked history clients resume from.*)
ActiveTurnIsTracked ==
  \A t \in Turns : Live(t) /\ activeTurn = t => t \in tracked
=============================================================================
