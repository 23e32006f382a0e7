---------------------------- MODULE LiveHistory ----------------------------
(***************************************************************************)
(* The model-visible history of one thread: the ContextManager a Session   *)
(* keeps in memory, the rollout it appends to the ThreadStore, and the     *)
(* writers of both: starting a turn (context updates, then the user's      *)
(* message), model output, tool outputs that arrive whenever their tool    *)
(* ends, compaction by the model, the compact Op, thread_rollback, the     *)
(* marker of an interrupted turn, and a restart that rebuilds the history  *)
(* from the rollout.                                                       *)
(*                                                                         *)
(* reconstructHistoryFromRollout is a left fold over the rollout, so the   *)
(* rollout is kept as its fold: `rollout' is what a session that starts    *)
(* now would reconstruct, and appending an entry applies that entry's case *)
(* to it.  The store is the in-memory one: an append takes effect when it  *)
(* is called, which is after the live history changed and before the first *)
(* await.                                                                  *)
(***************************************************************************)
EXTENDS Integers, SequencesExt

CONSTANTS
  Settings,              \* settings a turn can run under
  NoSettings,            \* no reference context item
  DeveloperInstructions, \* the thread has developer instructions
  MaxTurns,              \* bound: turns
  Texts,                 \* the turns whose user message has text
  Room,                  \* the sets of turns whose messages' texts together
                         \* leave room in what a compaction keeps
  MaxCalls,              \* bound: tool calls of the model
  MaxCompactions,        \* bound: compactions begun
  MaxRollbacks,          \* bound: thread_rollback submissions
  MaxDropped,            \* bound: user turns dropped by one of them
  MaxRestarts            \* bound: restarts of the process

ASSUME HistoryAssumption ==
  /\ NoSettings \notin Settings
  /\ DeveloperInstructions \in BOOLEAN
  /\ MaxTurns \in Nat \ {0}
  /\ Texts \subseteq 1 .. MaxTurns
  /\ {} \in Room
  /\ \A S \in Room : SUBSET S \subseteq Room
  /\ MaxCalls \in Nat
  /\ MaxCompactions \in Nat
  /\ MaxRollbacks \in Nat
  /\ MaxDropped \in Nat
  /\ MaxRestarts \in Nat

Turns == 1 .. MaxTurns
Calls == 1 .. MaxCalls

VARIABLES
  live,        \* ContextManager: items and reference context item
  rollout,     \* what the rollout reconstructs to
  active,      \* the turn of Session.activeTurn, 0 for none
  stopping,    \* the turn an interrupt has drained and not yet marked
  last,        \* the last turn started
  turn,        \* of each turn: kind, settings until they are recorded,
               \* program point, and the messages of the history it has
               \* loaded, or its compaction has read
  call,        \* of each tool call: state, and its turn while it runs
  used,        \* compactions, rollbacks and restarts so far
  said,        \* user messages recorded and not rolled back
  interrupted, \* interrupted turns whose run has not ended
  late,        \* a compaction ended after its turn was interrupted, or took
               \* what it had loaded before a rollback emptied the history
  raced,       \* the history changed while a compaction was being replaced
  astray       \* the reference is not what the history last stated: a
               \* rollback or a restart came between the two

ghosts == <<said, interrupted, late, raced, astray>>
vars == <<live, rollout, active, stopping, last, turn, call, used, ghosts>>

(* Response items, abstracted to what the history code tells apart: of the *)
(* messages that state the context, the developer message of a whole one   *)
(* (Initial) from any other (Update).                                      *)
Initial(s) == [kind |-> "initial", id |-> s]
Update(s) == [kind |-> "update", id |-> s]
User(t) == [kind |-> "user", id |-> t]
Summary(t) == [kind |-> "summary", id |-> t]
Call(c) == [kind |-> "call", id |-> c]
Output(c) == [kind |-> "output", id |-> c]
Marker(t) == [kind |-> "aborted", id |-> t]
Items ==
  UNION {{Initial(s) : s \in Settings}, {Update(s) : s \in Settings},
         {User(t) : t \in Turns}, {Summary(t) : t \in Turns},
         {Call(c) : c \in Calls}, {Output(c) : c \in Calls},
         {Marker(t) : t \in Turns}}

(* isUserTurnBoundary: the summary of a compaction is a user message too. *)
IsUserTurnBoundary(item) == item.kind \in {"user", "summary"}

(* What the trim before a rolled-back turn takes for contextual: context   *)
(* messages and, by its <turn_aborted> tag, the marker of an interrupt.    *)
States(item) == item.kind \in {"initial", "update"}
IsContextual(item) == States(item) \/ item.kind = "aborted"

Users == {item \in Items : item.kind = "user"}
Markers == {item \in Items : item.kind = "aborted"}
Statements == {item \in Items : States(item)}
NotOutputs == {item \in Items : item.kind # "output"}

(* The items of history h that are in set K, in their order. *)
Keep(h, K) ==
  FlattenSeq([i \in DOMAIN h |-> IF h[i] \in K THEN <<h[i]>> ELSE <<>>])

UsersIn(h) == Keep(h, Users)
Strip(h) == Keep(h, Items \ Markers)
-----------------------------------------------------------------------------
(* ContextManager.                                                         *)

RecordItem(m, item) == [m EXCEPT !.history = Append(@, item)]

(* dropLastNUserTurns: where the n-th user turn from the end begins (the   *)
(* first one if there are fewer), moved back over contextual items.        *)
CutIndex(h, n) ==
  LET users == {i \in DOMAIN h : IsUserTurnBoundary(h[i])}
      cut == Min({i \in users : Cardinality({j \in users : j >= i}) <= n})
  IN  Min({k \in Min(users) .. cut :
             \A j \in k .. cut - 1 : IsContextual(h[j])})

DropLastNUserTurns(m, n) ==
  IF \E i \in DOMAIN m.history : IsUserTurnBoundary(m.history[i])
  THEN [m EXCEPT !.history = SubSeq(@, 1, CutIndex(m.history, n) - 1)]
  ELSE m

(* The items the trim steps over: contextual, right before the cut. *)
Dropped(h, n) ==
  IF \E i \in DOMAIN h : IsUserTurnBoundary(h[i])
  THEN SubSeq(h, CutIndex(h, n), Len(h)) ELSE <<>>
TrimmedItems(h, n) ==
  LET d == Dropped(h, n)
      user == {i \in DOMAIN d : IsUserTurnBoundary(d[i])}
  IN  IF d = <<>> THEN {} ELSE ToSet(SubSeq(d, 1, Min(user) - 1))

(* drop_last_n_user_turns of the live history: a trimmed developer message *)
(* with text of no context section (the developer instructions) clears the *)
(* reference context item.                                                 *)
DropLive(m, n) ==
  [history |-> DropLastNUserTurns(m, n).history,
   reference |->
     IF /\ DeveloperInstructions
        /\ \E item \in TrimmedItems(m.history, n) : item.kind = "initial"
     THEN NoSettings ELSE m.reference]

HasOutput(h, c) == \E i \in DOMAIN h : h[i] = Output(c)
HasCall(h, c) == \E i \in DOMAIN h : h[i] = Call(c)

(* ensureCallOutputsPresent: a call without output gets one right after it. *)
EnsureCallOutputsPresent(h) ==
  FlattenSeq([i \in DOMAIN h |->
    IF h[i].kind = "call" /\ ~HasOutput(h, h[i].id)
    THEN <<h[i], Output(h[i].id)>> ELSE <<h[i]>>])

RemoveOrphanOutputs(h) ==
  Keep(h, {item \in Items : item.kind = "output" => HasCall(h, item.id)})

(* Slip: outputs whose call is gone stay in the prompt. *)
ForPromptWithOrphans(h) == EnsureCallOutputsPresent(h)

(* forPrompt: what a request to the model carries. *)
ForPrompt(h) == RemoveOrphanOutputs(EnsureCallOutputsPresent(h))
-----------------------------------------------------------------------------
(* The rollout, entry by entry (reconstructHistoryFromRollout).            *)

(* Slip: a compaction leaves the reference context item. *)
ReplayCompactedKeeping(m, items) == [m EXCEPT !.history = items]

ReplayCompacted(m, items) == [history |-> items, reference |-> NoSettings]

(* Replay keeps the reference context item in a variable of its own, which *)
(* the trim cannot clear.                                                  *)
ReplayRolledBack(m, n) == DropLastNUserTurns(m, n)
ReplayTurnContext(m, s) == [m EXCEPT !.reference = s]
-----------------------------------------------------------------------------
(* A turn that is not under way. *)
At(pc) == [kind |-> "Regular", settings |-> NoSettings, pc |-> pc,
           read |-> <<>>]

Init ==
  /\ live = [history |-> <<>>, reference |-> NoSettings]
  /\ rollout = live
  /\ active = 0
  /\ stopping = 0
  /\ last = 0
  /\ turn = [t \in Turns |-> At("idle")]
  /\ call = [c \in Calls |-> [owner |-> 0, state |-> "none"]]
  /\ used = [compactions |-> 0, rollbacks |-> 0, restarts |-> 0]
  /\ said = {}
  /\ interrupted = {}
  /\ late = FALSE
  /\ raced = FALSE
  /\ astray = FALSE

GoTo(t, pc) == turn' = [turn EXCEPT ![t].pc = pc]
Replacing == \E t \in Turns : turn[t].pc = "replacing"

(* A change of both histories while a compaction has persisted its         *)
(* replacement and not put it in the live history yet.                     *)
NoteRace == raced' = (raced \/ Replacing)

(* record_conversation_items: the live history, then the rollout. *)
Record(item) ==
  /\ live' = RecordItem(live, item)
  /\ rollout' = RecordItem(rollout, item)
  /\ NoteRace
-----------------------------------------------------------------------------
(* What a compaction will find to keep in history h.                       *)

CollectUserMessages(h) ==
  Keep(h, {item \in Users : item.id \in Texts})
-----------------------------------------------------------------------------
(* Starting a turn: one request of the thread's queue.                     *)

CanStart ==
  /\ active = 0
  /\ stopping = 0
  /\ last < MaxTurns
  /\ \A t \in Turns : turn[t].pc # "loading"

Start(k, s) ==
  /\ CanStart
  /\ last' = last + 1
  /\ active' = last'
  /\ turn' = [turn EXCEPT ![last'] =
                IF k = "Regular"
                THEN [At("starting") EXCEPT !.settings = s]
                ELSE [At("setup") EXCEPT !.kind = k]]
  /\ UNCHANGED <<live, rollout, stopping, call, used, ghosts>>

(* startCompactTask loads the history before it starts a turn. *)
LoadHistory ==
  /\ CanStart
  /\ last' = last + 1
  /\ turn' = [turn EXCEPT ![last'] =
                [At("loading") EXCEPT !.kind = "Compact",
                   !.read = CollectUserMessages(ForPrompt(rollout.history))]]
  /\ UNCHANGED <<live, rollout, active, stopping, call, used, ghosts>>

StartCompact(t) ==
  /\ turn[t].pc = "loading"
  /\ GoTo(t, "setup")
  /\ active' = t
  /\ UNCHANGED <<live, rollout, stopping, last, call, used, ghosts>>

(* record_context_updates_and_set_reference_context_item: the whole        *)
(* context if there is no reference, else what changed since, in one       *)
(* message or two.                                                         *)
RecordContext(t) ==
  /\ turn[t].pc = "starting"
  /\ \/ /\ live.reference = NoSettings
        /\ Record(Initial(turn[t].settings))
        /\ astray' = FALSE
        /\ GoTo(t, "stating")
     \/ /\ live.reference \notin {NoSettings, turn[t].settings}
        /\ Record(Update(turn[t].settings))
        /\ astray' = FALSE
        /\ \E pc \in {"stating", "context"} : GoTo(t, pc)
     \/ /\ live.reference = turn[t].settings
        /\ GoTo(t, "context")
        /\ UNCHANGED <<live, rollout, raced, astray>>
  /\ UNCHANGED <<active, stopping, last, call, used, said, interrupted, late>>

(* The second message of a context that takes two. *)
RecordContextMore(t) ==
  /\ turn[t].pc = "stating"
  /\ GoTo(t, "context")
  /\ Record(Update(turn[t].settings))
  /\ UNCHANGED <<active, stopping, last, call, used, said, interrupted, late,
                 astray>>

PersistContext(t) ==
  /\ turn[t].pc = "context"
  /\ GoTo(t, "adopting")
  /\ rollout' = ReplayTurnContext(rollout, turn[t].settings)
  /\ NoteRace
  /\ UNCHANGED <<live, active, stopping, last, call, used, said, interrupted,
                 late, astray>>

AdoptContext(t) ==
  /\ turn[t].pc = "adopting"
  /\ turn' = [turn EXCEPT ![t] = At("prompted")]
  /\ live' = [live EXCEPT !.reference = turn[t].settings]
  /\ NoteRace
  /\ UNCHANGED <<rollout, active, stopping, last, call, used, said,
                 interrupted, late, astray>>

(* Slip: the message goes to the live history only. *)
RecordUserLive(t) ==
  /\ turn[t].pc = "prompted"
  /\ GoTo(t, "setup")
  /\ live' = RecordItem(live, User(t))
  /\ NoteRace
  /\ said' = said \union {t}
  /\ UNCHANGED <<rollout, active, stopping, last, call, used, interrupted,
                 late, astray>>

(* The user's message is recorded; then startRegularTask loads the history. *)
RecordUser(t) ==
  /\ turn[t].pc = "prompted"
  /\ Record(User(t))
  /\ turn' = [turn EXCEPT ![t].pc = "setup",
       ![t].read = CollectUserMessages(ForPrompt(rollout'.history))]
  /\ said' = said \union {t}
  /\ UNCHANGED <<active, stopping, last, call, used, interrupted, late,
                 astray>>
-----------------------------------------------------------------------------
(* The run of a turn.                                                      *)

(* Slip: the turn settles and stays active. *)
SettleActive(t) ==
  /\ turn' = [turn EXCEPT ![t] = At("settled")]
  /\ interrupted' = interrupted \ {t}
  /\ UNCHANGED active

Settle(t) ==
  /\ turn' = [turn EXCEPT ![t] = At("settled")]
  /\ interrupted' = interrupted \ {t}
  /\ active' = IF active = t THEN 0 ELSE active

BeginSampling(t) ==
  /\ turn[t].pc = "setup"
  /\ turn[t].kind = "Regular"
  /\ turn' = [turn EXCEPT ![t] = At("sampling")]
  /\ UNCHANGED <<live, rollout, active, stopping, last, call, used, ghosts>>

(* handle_output_item_done records the model's call and starts its tool.   *)
RecordCall(t, c) ==
  /\ turn[t].pc = "sampling"
  /\ call[c].state = "none"
  /\ \A d \in 1 .. c - 1 : call[d].state # "none"
  /\ call' = [call EXCEPT ![c] = [owner |-> t, state |-> "running"]]
  /\ Record(Call(c))
  /\ UNCHANGED <<active, stopping, last, turn, used, said, interrupted, late,
                 astray>>

(* The tool ends, or its abort does: the output is recorded, whatever has  *)
(* become of its turn and of the history by then.                          *)
RecordOutput(c) ==
  /\ call[c].state = "running"
  /\ call' = [call EXCEPT ![c] = [owner |-> 0, state |-> "ended"]]
  /\ Record(Output(c))
  /\ UNCHANGED <<active, stopping, last, turn, used, said, interrupted, late,
                 astray>>

(* The model wants nothing more and every tool output is in. *)
CompleteTurn(t) ==
  /\ turn[t].pc = "sampling"
  /\ \A c \in Calls : call[c].owner = t => call[c].state # "running"
  /\ Settle(t)
  /\ UNCHANGED <<live, rollout, stopping, last, call, used, said, late, raced,
                 astray>>

(* The model stream, or what runs before it, throws: the run ends and its  *)
(* tools go on.                                                            *)
FailTurn(t) ==
  /\ turn[t].pc \in {"setup", "summarizing", "sampling"}
  /\ Settle(t)
  /\ UNCHANGED <<live, rollout, stopping, last, call, used, said, late, raced,
                 astray>>
-----------------------------------------------------------------------------
(* Compaction: run_compact_task, before sampling or as a task of its own,  *)
(* and compactWithoutModel.                                                *)

(* selectRecentUserMessages: from the newest back, while there is room for *)
(* more; the oldest of them may be cut short, and stays the user's.        *)
SelectRecentUserMessages(users) ==
  LET Later(i) == {users[j].id : j \in i + 1 .. Len(users)}
      fits == {i \in DOMAIN users : Later(i) \in Room}
  IN  IF users = <<>> THEN <<>> ELSE SubSeq(users, Min(fits), Len(users))

BuildCompactedHistory(t, users) ==
  Append(SelectRecentUserMessages(users), Summary(t))

(* Of the messages of the turns S, the most recent for which there is room. *)
Recent(S) ==
  {t \in S \intersect Texts : {u \in S \intersect Texts : u > t} \in Room}

BeginCompaction ==
  /\ used.compactions < MaxCompactions
  /\ used' = [used EXCEPT !.compactions = @ + 1]

CompactRead(t) ==
  /\ turn[t].pc = "setup"
  /\ turn[t].kind # "Submitted"
  /\ BeginCompaction
  /\ IF ForPrompt(live.history) # <<>>
     THEN /\ turn' = [turn EXCEPT ![t].pc = "summarizing",
                 ![t].read = CollectUserMessages(ForPrompt(live.history))]
          /\ UNCHANGED late
     ELSE /\ GoTo(t, "summarizing")
          /\ late' = (late \/ turn[t].read # <<>>)
  /\ UNCHANGED <<live, rollout, active, stopping, last, call, said,
                 interrupted, raced, astray>>

(* The summary is in, or the stream ended early because the signal fired:  *)
(* recordCompactedItem.                                                    *)
CompactPersist(t) ==
  /\ turn[t].pc = "summarizing"
  /\ GoTo(t, "replacing")
  /\ rollout' = ReplayCompacted(rollout,
                  BuildCompactedHistory(t, turn[t].read))
  /\ NoteRace
  /\ said' = Recent(said)
  /\ late' = (late \/ t \in interrupted)
  /\ UNCHANGED <<live, active, stopping, last, call, used, interrupted,
                 astray>>

(* replace_history(replacementHistory, null), one await later. *)
CompactReplace(t) ==
  /\ turn[t].pc = "replacing"
  /\ live' = [history |-> BuildCompactedHistory(t, turn[t].read),
              reference |-> NoSettings]
  /\ IF turn[t].kind = "Regular"
     THEN /\ turn' = [turn EXCEPT ![t] = At("sampling")]
          /\ UNCHANGED <<active, interrupted>>
     ELSE Settle(t)
  /\ UNCHANGED <<rollout, stopping, last, call, used, said, late, raced,
                 astray>>

(* The compact Op: nothing of the old history is kept. *)
CompactWithoutModel(t) ==
  /\ turn[t].pc = "setup"
  /\ turn[t].kind = "Submitted"
  /\ BeginCompaction
  /\ live' = [history |-> BuildCompactedHistory(t, <<>>),
              reference |-> NoSettings]
  /\ rollout' = ReplayCompacted(rollout, BuildCompactedHistory(t, <<>>))
  /\ NoteRace
  /\ said' = {}
  /\ late' = (late \/ t \in interrupted)
  /\ Settle(t)
  /\ UNCHANGED <<stopping, last, call, astray>>
-----------------------------------------------------------------------------
(* Interrupts, rollbacks, restarts.                                        *)

(* abort_all_tasks drops the active turn; its run goes on until it sees    *)
(* the signal.                                                             *)
Interrupt ==
  /\ active # 0
  /\ turn[active].pc \notin
       {"starting", "stating", "context", "adopting", "prompted"}
  /\ active' = 0
  /\ stopping' = active
  /\ interrupted' = interrupted \union {active}
  /\ late' = (late \/ turn[active].pc = "replacing")
  /\ UNCHANGED <<live, rollout, last, turn, call, used, said, raced, astray>>

(* The Stop hooks are done: the marker is persisted, and only persisted. *)
MarkAborted ==
  /\ stopping # 0
  /\ stopping' = 0
  /\ rollout' = RecordItem(rollout, Marker(stopping))
  /\ UNCHANGED <<live, active, last, turn, call, used, ghosts>>

(* Slip: a rollback does not look for an active turn. *)
RollbackAnyTime(n) ==
  /\ used.rollbacks < MaxRollbacks
  /\ used' = [used EXCEPT !.rollbacks = @ + 1]
  /\ live' = DropLive(live, n)
  /\ rollout' = ReplayRolledBack(rollout, n)
  /\ NoteRace
  /\ said' = said \ {item.id : item \in ToSet(UsersIn(
                                          Dropped(live.history, n)))}
  /\ astray' = (astray \/ \E item \in ToSet(Dropped(live.history, n)) :
                             States(item))
  /\ UNCHANGED <<active, stopping, last, turn, call, interrupted, late>>

(* threadRollback: refused while a turn is active.  The live history drops *)
(* n user turns, then the event is persisted.                              *)
Rollback(n) ==
  /\ active = 0
  /\ used.rollbacks < MaxRollbacks
  /\ used' = [used EXCEPT !.rollbacks = @ + 1]
  /\ live' = DropLive(live, n)
  /\ rollout' = ReplayRolledBack(rollout, n)
  /\ NoteRace
  /\ said' = said \ {item.id : item \in ToSet(UsersIn(
                                          Dropped(live.history, n)))}
  /\ astray' = (astray \/ \E item \in ToSet(Dropped(live.history, n)) :
                             States(item))
  /\ UNCHANGED <<active, stopping, last, turn, call, interrupted, late>>

(* The process dies with its runs and tools; a new Session reconstructs    *)
(* the history from the rollout.                                           *)
Restart ==
  /\ used.restarts < MaxRestarts
  /\ used' = [used EXCEPT !.restarts = @ + 1]
  /\ live' = rollout
  /\ active' = 0
  /\ stopping' = 0
  /\ turn' = [t \in Turns |-> IF t <= last
                              THEN At("settled") ELSE turn[t]]
  /\ call' = [c \in Calls |-> IF call[c].state = "running"
                              THEN [owner |-> 0, state |-> "ended"]
                              ELSE call[c]]
  /\ interrupted' = {}
  /\ raced' = FALSE
  /\ astray' = (astray \/ \E t \in Turns :
                             turn[t].pc \in {"stating", "context"})
  /\ UNCHANGED <<rollout, last, said, late>>

Next ==
  \/ \E s \in Settings : Start("Regular", s)
  \/ Start("Submitted", NoSettings)
  \/ LoadHistory
  \/ \E t \in Turns :
       \/ StartCompact(t)
       \/ RecordContext(t) \/ RecordContextMore(t)
       \/ PersistContext(t) \/ AdoptContext(t)
       \/ RecordUser(t)
       \/ BeginSampling(t) \/ CompleteTurn(t) \/ FailTurn(t)
       \/ CompactRead(t) \/ CompactPersist(t) \/ CompactReplace(t)
       \/ CompactWithoutModel(t)
       \/ \E c \in Calls : RecordCall(t, c)
  \/ \E c \in Calls : RecordOutput(c)
  \/ Interrupt \/ MarkAborted
  \/ \E n \in 1 .. MaxDropped : Rollback(n)
  \/ Restart

Spec == Init /\ [][Next]_vars
-----------------------------------------------------------------------------
(* Properties.                                                             *)

Histories == Seq(Items)

(* Type correctness, and the turn the session calls active is one whose    *)
(* run, or start, is still under way.                                      *)
TypeOK ==
  /\ live.history \in Histories
  /\ live.reference \in Settings \union {NoSettings}
  /\ rollout.history \in Histories
  /\ rollout.reference \in Settings \union {NoSettings}
  /\ active \in 0 .. last
  /\ stopping \in 0 .. last
  /\ said \subseteq 1 .. last
  /\ interrupted \subseteq 1 .. last
  /\ {late, raced, astray} \subseteq BOOLEAN
  /\ active # 0 => turn[active].pc \notin {"idle", "settled"}
  /\ \A t \in Turns : t > last <=> turn[t].pc = "idle"
  /\ \A c \in Calls : call[c].owner = 0 <=> call[c].state # "running"

(* What history h makes a request to the model carry: every tool call with *)
(* exactly one output, somewhere after it; no output without its call; and *)
(* everything that is no output as recorded, in the order recorded.        *)
WellFormedPrompt(h) ==
  LET p == ForPrompt(h)
  IN  /\ \A i \in DOMAIN p :
           /\ p[i].kind = "call" =>
                \E j \in DOMAIN p :
                  /\ j > i
                  /\ \A k \in DOMAIN p : p[k] = Output(p[i].id) <=> k = j
           /\ p[i].kind = "output" => HasCall(SubSeq(p, 1, i), p[i].id)
      /\ Keep(p, NotOutputs) = Keep(h, NotOutputs)

(* The prompt is well formed at every moment, now and in a session rebuilt *)
(* from the rollout: whatever tools ended late, after their turn failed or *)
(* was interrupted, rolled back or compacted away, and whatever calls a    *)
(* restart left without an output.                                         *)
PromptWellFormed ==
  \A m \in {live, rollout} : WellFormedPrompt(m.history)

(* The rollout stands for the live history: a restart finds the items the  *)
(* live history has, plus the markers of interrupted turns, which rollback *)
(* steps over.  Between the two halves of a compaction they differ, and an *)
(* item recorded in that window stays lost to the live history.            *)
ReplayAgrees ==
  ~Replacing /\ ~raced => Strip(rollout.history) = Strip(live.history)

(* What the user said leaves the model's sight by rollback, by the compact *)
(* Op, and by a compaction that finds no room for it after what was said   *)
(* later, or no text in it; and what has left never returns, in the live   *)
(* history or after a restart: unless a compaction finished after its turn *)
(* had been interrupted, or was made of a history it had loaded before a   *)
(* rollback, which puts back what it had read.                             *)
UserMessagesKept ==
  LET Kept(m) == {item.id : item \in ToSet(UsersIn(m.history))}
  IN  ~late => /\ Kept(rollout) = said
               /\ said \subseteq Kept(live)
               /\ ~Replacing => Kept(live) = said

(* The settings history h last told the model. *)
LastStated(h) ==
  LET told == Keep(h, Statements)
  IN  IF told = <<>> THEN NoSettings ELSE Last(told).id

(* Between turns, a reference context item says what the history last told *)
(* the model, here and after a restart; so sending only what changed since *)
(* tells the model the settings in force.  The exceptions: a rollback drops *)
(* a context item with its turns and keeps the reference, a restart falls   *)
(* between a context item and its turn_context entry (the next context item *)
(* mends both), or a compaction was late.                                   *)
SettingsStated ==
  ( /\ ~astray /\ ~late
    /\ \A t \in Turns : turn[t].pc \notin {"stating", "context", "adopting"} )
  => \A m \in {live, rollout} :
       m.reference # NoSettings => LastStated(m.history) = m.reference
=============================================================================
