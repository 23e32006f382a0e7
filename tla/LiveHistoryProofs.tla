------------------------- MODULE LiveHistoryProofs --------------------------
(***************************************************************************)
(* Proofs about LiveHistory, for any number of turns, calls, compactions,  *)
(* rollbacks and restarts and histories of any length: TypeOK,             *)
(* PromptWellFormed, ReplayAgrees, UserMessagesKept and SettingsStated.    *)
(* The rollout agrees with the live history in one of two ways: exactly,   *)
(* while no recording raced with a compaction (Replays), and up to what    *)
(* tools recorded, while no compaction was late (Follows); the last two    *)
(* properties survive a race because of the second.                        *)
(***************************************************************************)
EXTENDS LiveHistoryLemmas

-----------------------------------------------------------------------------
(* The invariant, part by part, and the steps that several parts need. *)

(* A turn that is being started, and every point of a run. *)
Early == {"starting", "stating", "context", "adopting", "prompted"}
Pcs == Early \union {"idle", "loading", "setup", "sampling", "summarizing",
                     "replacing", "settled"}
(* What a ContextManager, a turn and a tool call are. *)
Memories == [history : Histories, reference : Settings \union {NoSettings}]
TurnRecords ==
  [kind : {"Regular", "Compact", "Submitted"},
   settings : Settings \union {NoSettings}, pc : Pcs, read : Seq(Users)]
CallRecords == [owner : 0 .. MaxTurns, state : {"none", "running", "ended"}]

(* What each variable holds. *)
Types ==
  /\ live \in Memories
  /\ rollout \in Memories
  /\ last \in 0 .. MaxTurns
  /\ active \in 0 .. last
  /\ stopping \in 0 .. last
  /\ turn \in [Turns -> TurnRecords]
  /\ call \in [Calls -> CallRecords]
  /\ said \subseteq 1 .. last
  /\ interrupted \subseteq 1 .. last
  /\ late \in BOOLEAN /\ raced \in BOOLEAN /\ astray \in BOOLEAN

(* Who runs: a turn that is being started is active, and a run under way   *)
(* is the active turn's or an interrupted one's; the active turn is the    *)
(* last, and so is one that loads the history before it starts.            *)
Runs ==
  /\ \A t \in Turns :
       /\ t > last <=> turn[t].pc = "idle"
       /\ turn[t].pc \in Early => t = active
       /\ turn[t].pc \in {"starting", "stating", "context", "adopting"}
            => turn[t].settings \in Settings
       /\ turn[t].pc = "loading" => t = last /\ active = 0
       /\ turn[t].pc \notin {"idle", "settled", "loading"}
            => t = active \/ t \in interrupted
       /\ turn[t].pc = "replacing" /\ t \in interrupted => late
       /\ t \in said => turn[t].pc \notin Early \union {"idle"}
  /\ active # 0 => active = last /\ turn[active].pc \notin {"idle", "settled"}
  /\ \A c \in Calls : call[c].owner = 0 <=> call[c].state # "running"

(* Recording appends the item to both histories. *)
LEMMA Recorded ==
  ASSUME Types, NEW item \in Items, Record(item)
  PROVE  /\ live'.history = Append(live.history, item)
         /\ rollout'.history = Append(rollout.history, item)
         /\ live'.reference = live.reference
         /\ rollout'.reference = rollout.reference
         /\ live' \in Memories /\ rollout' \in Memories
         /\ raced' = (raced \/ Replacing)
<1>1. /\ live' = [live EXCEPT !.history = Append(@, item)]
      /\ rollout' = [rollout EXCEPT !.history = Append(@, item)]
  BY DEF Record, RecordItem
<1>2. /\ live.history \in Seq(Items) /\ rollout.history \in Seq(Items)
      /\ live \in Memories /\ rollout \in Memories
  BY DEF Types, Memories, Histories
<1>3. /\ Append(live.history, item) \in Seq(Items)
      /\ Append(rollout.history, item) \in Seq(Items)
  BY <1>2, AppendFacts
<1>4. /\ live' = [history |-> Append(live.history, item),
                  reference |-> live.reference]
      /\ rollout' = [history |-> Append(rollout.history, item),
                     reference |-> rollout.reference]
  BY <1>1, <1>2 DEF Memories
<1>. QED BY <1>2, <1>3, <1>4 DEF Memories, Histories, Record, NoteRace

(* What a compaction puts in place of the history. *)
Built(t) == BuildCompactedHistory(t, turn[t].read)

(* What it puts there: messages it has read, and its summary. *)
LEMMA BuiltFacts ==
  ASSUME NEW t \in Turns, NEW users \in Seq(Users)
  PROVE  /\ BuildCompactedHistory(t, users) \in Seq(Items)
         /\ ToSet(BuildCompactedHistory(t, users)) \subseteq TurnItems
         /\ Ordered(users) =>
              /\ Ordered(BuildCompactedHistory(t, users))
              /\ \A u \in Turns :
                   User(u) \in ToSet(BuildCompactedHistory(t, users))
                     <=> /\ User(u) \in ToSet(users)
                         /\ {v \in Turns : v > u /\ User(v) \in ToSet(users)}
                              \in Room
<1>. DEFINE kept == SelectRecentUserMessages(users)
<1>0. /\ kept \in Seq(Users)
      /\ Ordered(users) =>
           /\ Ordered(kept)
           /\ \A u \in Turns : User(u) \in ToSet(kept)
                <=> /\ User(u) \in ToSet(users)
                    /\ {v \in Turns : v > u /\ User(v) \in ToSet(users)}
                         \in Room
  BY SelectFacts
<1>4. BuildCompactedHistory(t, users) = Append(kept, Summary(t))
  BY DEF BuildCompactedHistory
<1>. HIDE DEF kept
<1>1. Users \subseteq Items /\ Users \subseteq TurnItems
  BY DEF Users, TurnItems, IsUserTurnBoundary
<1>2. Summary(t) \in Items /\ Summary(t) \in TurnItems
  BY ItemMembers, ItemFields DEF TurnItems, IsUserTurnBoundary
<1>3. kept \in Seq(Items)
  BY <1>0, <1>1, ElementOfSeq, LenProperties, SeqDef
<1>5. ToSet(Append(kept, Summary(t))) = ToSet(kept) \union {Summary(t)}
  BY <1>2, <1>3, ToSetAppend
<1>6. ToSet(kept) \subseteq Users
  BY <1>0, ToSetType
<1>7. \A u \in Turns : User(u) # Summary(t)
  BY ItemFields
<1>8. Append(kept, Summary(t)) \in Seq(Items)
  BY <1>2, <1>3, AppendFacts
<1>9. Ordered(kept) => Ordered(Append(kept, Summary(t)))
  BY <1>2, <1>3, <1>7, OrderedAppend
<1>10. \A u \in Turns : User(u) \in ToSet(Append(kept, Summary(t)))
                          <=> User(u) \in ToSet(kept)
  BY <1>5, <1>7
<1>. QED BY <1>0, <1>1, <1>2, <1>4, <1>5, <1>6, <1>8, <1>9, <1>10

(* A rollback drops at least one turn, *)
LEMMA DropsSome == 1 .. MaxDropped \subseteq Nat \ {0}
  BY HistoryAssumption

(* and leaves a prefix of the history. *)
LEMMA RolledBack ==
  ASSUME Types, NEW n \in Nat \ {0}, Rollback(n)
  PROVE  /\ live'.history = Rest(live.history, n)
         /\ rollout'.history = Rest(rollout.history, n)
         /\ live'.reference \in {live.reference, NoSettings}
         /\ rollout'.reference = rollout.reference
         /\ live' \in Memories /\ rollout' \in Memories
<1>1. /\ live = [history |-> live.history, reference |-> live.reference]
      /\ rollout = [history |-> rollout.history,
                    reference |-> rollout.reference]
      /\ live.history \in Seq(Items) /\ rollout.history \in Seq(Items)
      /\ live.reference \in Settings \union {NoSettings}
      /\ rollout.reference \in Settings \union {NoSettings}
  BY DEF Types, Memories, Histories
<1>2. live' = DropLive(live, n) /\ rollout' = DropLastNUserTurns(rollout, n)
  BY DEF Rollback, ReplayRolledBack
<1>3. /\ DropLive(live, n).history = Rest(live.history, n)
      /\ DropLive(live, n).reference \in {live.reference, NoSettings}
      /\ DropLive(live, n) = [history |-> DropLive(live, n).history,
                              reference |-> DropLive(live, n).reference]
  BY <1>1, DropIs
<1>4. DropLastNUserTurns(rollout, n)
        = [history |-> Rest(rollout.history, n),
           reference |-> rollout.reference]
  BY <1>1, DropIs
<1>5. /\ Rest(live.history, n) \in Seq(Items)
      /\ Rest(rollout.history, n) \in Seq(Items)
  BY <1>1, RestType
<1>. QED BY <1>1, <1>2, <1>3, <1>4, <1>5 DEF Memories, Histories

(* What a rollback drops is a history. *)
LEMMA DroppedIs ==
  ASSUME NEW h \in Seq(Items), NEW n \in Nat \ {0}
  PROVE  Dropped(h, n) \in Seq(Items)
<1>1. CASE HasTurn(h)
  <2>1. CutIndex(h, n) \in 1 .. Len(h)
    BY <1>1, CutFacts
  <2>2. SubSeq(h, CutIndex(h, n), Len(h)) \in Seq(Items)
    BY <2>1, SubSeqProperties, LenProperties, ElementOfSeq
  <2>. QED BY <1>1, <2>2 DEF Dropped, HasTurn
<1>2. CASE ~HasTurn(h)
  BY <1>2 DEF Dropped, HasTurn
<1>. QED BY <1>1, <1>2

(* ForPrompt of a history is a history. *)
LEMMA ForPromptType ==
  ASSUME NEW h \in Seq(Items)
  PROVE  ForPrompt(h) \in Seq(Items)
<1>1. EnsureCallOutputsPresent(h) \in Seq(Items)
  BY EnsureIsFill, FillType
<1>. QED BY <1>1, KeepTyped DEF ForPrompt, RemoveOrphanOutputs

(* What a compaction will find to keep are user messages. *)
LEMMA CollectType ==
  ASSUME NEW h \in Seq(Items)
  PROVE  CollectUserMessages(ForPrompt(h)) \in Seq(Users)
<1>. DEFINE K == {item \in Users : item.id \in Texts}
<1>1. Keep(ForPrompt(h), K) \in Seq(Items \intersect K)
  BY ForPromptType, KeepType
<1>2. Items \intersect K \subseteq Users
  OBVIOUS
<1>. QED BY <1>1, <1>2, ElementOfSeq, LenProperties, SeqDef
         DEF CollectUserMessages

(* What a compaction keeps of the messages of S are some of them. *)
LEMMA RecentSome ==
  ASSUME NEW S
  PROVE  Recent(S) \subseteq S
  BY DEF Recent

(* At first every variable has its type. *)
LEMMA InitTypes == Init => Types
<1>. SUFFICES ASSUME Init PROVE Types
  OBVIOUS
<1>1. live \in Memories /\ rollout \in Memories
  BY EmptySeq DEF Init, Memories, Histories
<1>2. turn \in [Turns -> TurnRecords]
  BY EmptySeq DEF Init, TurnRecords, At, Pcs
<1>3. call \in [Calls -> CallRecords] /\ last \in 0 .. MaxTurns
  BY HistoryAssumption DEF Init, CallRecords
<1>4. /\ active = 0 /\ stopping = 0 /\ said = {} /\ interrupted = {}
      /\ last = 0
  BY DEF Init
<1>5. late \in BOOLEAN /\ raced \in BOOLEAN /\ astray \in BOOLEAN
  BY DEF Init
<1>. QED BY <1>1, <1>2, <1>3, <1>4, <1>5 DEF Types

(* A step leaves every variable of its type. *)
LEMMA NextTypes ==
  ASSUME Types, Runs, [Next]_vars
  PROVE  Types'
<1>. USE DEF Types, Turns, Calls
<1>0. /\ MaxTurns \in Nat
      /\ \A pc \in Pcs : At(pc) \in TurnRecords
      /\ \A t \in Turns, pc \in Pcs :
           [turn EXCEPT ![t].pc = pc] \in [Turns -> TurnRecords]
      /\ \A t \in Turns, r \in TurnRecords :
           [turn EXCEPT ![t] = r] \in [Turns -> TurnRecords]
  <2>1. \A pc \in Pcs : At(pc) \in TurnRecords
    BY EmptySeq DEF TurnRecords, At
  <2>2. \A t \in Turns, pc \in Pcs :
           [turn EXCEPT ![t].pc = pc] \in [Turns -> TurnRecords]
    BY DEF TurnRecords
  <2>. QED BY <2>1, <2>2, HistoryAssumption
<1>1. ASSUME NEW s \in Settings, Start("Regular", s) PROVE Types'
  <2>1. last + 1 \in Turns
    BY <1>0, <1>1 DEF Start, CanStart
  <2>2. [At("starting") EXCEPT !.settings = s] \in TurnRecords
    BY EmptySeq DEF TurnRecords, At, Pcs, Early
  <2>3. turn' \in [Turns -> TurnRecords]
    BY <1>0, <1>1, <2>1, <2>2 DEF Start
  <2>. QED BY <1>0, <1>1, <2>1, <2>3 DEF Start, ghosts
<1>2. ASSUME NEW k \in {"Compact", "Submitted"}, Start(k, NoSettings)
      PROVE  Types'
  <2>1. last + 1 \in Turns
    BY <1>0, <1>2 DEF Start, CanStart
  <2>2. [At("setup") EXCEPT !.kind = k] \in TurnRecords
    BY EmptySeq DEF TurnRecords, At, Pcs, Early
  <2>3. turn' \in [Turns -> TurnRecords]
    BY <1>0, <1>2, <2>1, <2>2 DEF Start
  <2>. QED BY <1>0, <1>2, <2>1, <2>3 DEF Start, ghosts
<1>3. ASSUME NEW t \in Turns, RecordContext(t) PROVE Types'
  <2>1. turn' \in [Turns -> TurnRecords]
    <3>1. PICK pc \in Pcs : GoTo(t, pc)
      BY <1>3 DEF RecordContext, Pcs, Early
    <3>. QED BY <1>0, <3>1 DEF GoTo
  <2>2. CASE UNCHANGED <<live, rollout, raced, astray>>
    BY <1>3, <2>1, <2>2 DEF RecordContext
  <2>3. ASSUME NEW item \in Items, Record(item), astray' = FALSE PROVE Types'
    <3>1. live' \in Memories /\ rollout' \in Memories
      BY <2>3, Recorded
    <3>. QED BY <1>3, <2>1, <2>3, <3>1 DEF RecordContext, Record, NoteRace
  <2>4. turn[t].settings \in Settings
    BY <1>3 DEF RecordContext, Runs
  <2>5. /\ Initial(turn[t].settings) \in Items
        /\ Update(turn[t].settings) \in Items
    BY <2>4, ItemMembers
  <2>6. CASE /\ Record(Initial(turn[t].settings))
             /\ astray' = FALSE
    BY <2>3, <2>5, <2>6
  <2>7. CASE /\ Record(Update(turn[t].settings))
             /\ astray' = FALSE
    BY <2>3, <2>5, <2>7
  <2>. QED BY <1>3, <2>2, <2>6, <2>7 DEF RecordContext
<1>4. ASSUME NEW t \in Turns, PersistContext(t) PROVE Types'
  <2>1. turn' \in [Turns -> TurnRecords]
    BY <1>0, <1>4 DEF PersistContext, GoTo, Pcs, Early
  <2>2. rollout' \in Memories
    <3>1. turn[t].settings \in Settings \union {NoSettings}
      BY DEF TurnRecords
    <3>. QED BY <1>4, <3>1 DEF PersistContext, ReplayTurnContext, Memories
  <2>. QED BY <1>4, <2>1, <2>2 DEF PersistContext, NoteRace
<1>5. ASSUME NEW t \in Turns, AdoptContext(t) PROVE Types'
  <2>1. turn' \in [Turns -> TurnRecords]
    BY <1>0, <1>5 DEF AdoptContext, Pcs, Early
  <2>2. live' \in Memories
    <3>1. turn[t].settings \in Settings \union {NoSettings}
      BY DEF TurnRecords
    <3>. QED BY <1>5, <3>1 DEF AdoptContext, Memories
  <2>. QED BY <1>5, <2>1, <2>2 DEF AdoptContext, NoteRace
<1>6. ASSUME NEW t \in Turns, RecordUser(t) PROVE Types'
  <2>2. live' \in Memories /\ rollout' \in Memories
    BY <1>6, ItemMembers, Recorded DEF RecordUser
  <2>1. turn' \in [Turns -> TurnRecords]
    <3>1. CollectUserMessages(ForPrompt(rollout'.history)) \in Seq(Users)
      BY <2>2, CollectType DEF Memories, Histories
    <3>. DEFINE users == CollectUserMessages(ForPrompt(rollout'.history))
    <3>2. turn' = [turn EXCEPT ![t] = [@ EXCEPT !.pc = "setup",
                                                !.read = users]]
      BY <1>6 DEF RecordUser
    <3>. HIDE DEF users
    <3>3. [turn[t] EXCEPT !.pc = "setup", !.read = users] \in TurnRecords
      BY <3>1 DEF TurnRecords, Pcs, users
    <3>. QED BY <1>0, <3>2, <3>3
  <2>3. t \in 1 .. last
    BY <1>0, <1>6 DEF RecordUser, Runs
  <2>. QED BY <1>6, <2>1, <2>2, <2>3 DEF RecordUser, Record, NoteRace
<1>7. ASSUME NEW t \in Turns, BeginSampling(t) PROVE Types'
  <2>1. turn' \in [Turns -> TurnRecords]
    BY <1>0, <1>7 DEF BeginSampling, Pcs, Early
  <2>. QED BY <1>7, <2>1 DEF BeginSampling, ghosts
<1>8. ASSUME NEW t \in Turns, Settle(t)
      PROVE  /\ turn' \in [Turns -> TurnRecords]
             /\ interrupted' \subseteq interrupted
             /\ active' \in 0 .. last
  <2>1. turn' \in [Turns -> TurnRecords]
    BY <1>0, <1>8 DEF Settle, Pcs
  <2>2. interrupted' \subseteq interrupted
    BY <1>8 DEF Settle
  <2>3. active' \in {0, active} /\ active \in 0 .. last /\ last \in Nat
    BY <1>0, <1>8 DEF Settle
  <2>. QED BY <2>1, <2>2, <2>3
<1>9. ASSUME NEW t \in Turns, CompleteTurn(t) \/ FailTurn(t) PROVE Types'
  <2>1. Settle(t)
    BY <1>9 DEF CompleteTurn, FailTurn
  <2>2. UNCHANGED <<live, rollout, stopping, last, call, said, late, raced,
                    astray>>
    BY <1>9 DEF CompleteTurn, FailTurn
  <2>. QED BY <1>8, <2>1, <2>2
<1>10. ASSUME NEW t \in Turns, CompactRead(t) PROVE Types'
  <2>. DEFINE users == CollectUserMessages(ForPrompt(live.history))
  <2>1. users \in Seq(Users)
    BY CollectType DEF Memories, Histories
  <2>2. \/ turn' = [turn EXCEPT ![t] = [@ EXCEPT !.pc = "summarizing",
                                                !.read = users]]
        \/ GoTo(t, "summarizing")
    BY <1>10 DEF CompactRead
  <2>. HIDE DEF users
  <2>3. [turn[t] EXCEPT !.pc = "summarizing", !.read = users] \in TurnRecords
    BY <2>1 DEF TurnRecords, Pcs
  <2>6. [turn EXCEPT ![t].pc = "summarizing"] \in [Turns -> TurnRecords]
    BY <1>0 DEF Pcs
  <2>4. turn' \in [Turns -> TurnRecords]
    BY <1>0, <2>2, <2>3, <2>6 DEF GoTo
  <2>5. late' \in BOOLEAN
    BY <1>10 DEF CompactRead
  <2>. QED BY <1>10, <2>4, <2>5 DEF CompactRead
<1>11. ASSUME NEW t \in Turns, CompactPersist(t) PROVE Types'
  <2>1. turn' \in [Turns -> TurnRecords]
    BY <1>0, <1>11 DEF CompactPersist, GoTo, Pcs, Early
  <2>2. BuildCompactedHistory(t, turn[t].read) \in Seq(Items)
    BY BuiltFacts DEF TurnRecords
  <2>3. rollout' \in Memories
    BY <1>11, <2>2 DEF CompactPersist, ReplayCompacted, Memories, Histories
  <2>4. said' \subseteq 1 .. last'
    BY <1>11, RecentSome DEF CompactPersist
  <2>. QED BY <1>11, <2>1, <2>3, <2>4 DEF CompactPersist, NoteRace
<1>12. ASSUME NEW t \in Turns, CompactReplace(t) PROVE Types'
  <2>1. BuildCompactedHistory(t, turn[t].read) \in Seq(Items)
    BY BuiltFacts DEF TurnRecords
  <2>2. live' \in Memories
    BY <1>12, <2>1 DEF CompactReplace, Memories, Histories
  <2>3. /\ turn' \in [Turns -> TurnRecords]
        /\ interrupted' \subseteq interrupted
        /\ active' \in 0 .. last
    <3>1. CASE Settle(t)
      BY <1>8, <3>1
    <3>2. CASE ~Settle(t)
      <4>1. /\ turn' = [turn EXCEPT ![t] = At("sampling")]
            /\ UNCHANGED <<active, interrupted>>
        BY <1>12, <3>2 DEF CompactReplace
      <4>. QED BY <1>0, <4>1 DEF Pcs
    <3>. QED BY <3>1, <3>2
  <2>. QED BY <1>12, <2>2, <2>3 DEF CompactReplace
<1>13. ASSUME NEW t \in Turns, CompactWithoutModel(t) PROVE Types'
  <2>1. BuildCompactedHistory(t, <<>>) \in Seq(Items)
    BY BuiltFacts, EmptySeq
  <2>2. live' \in Memories /\ rollout' \in Memories
    BY <1>13, <2>1
       DEF CompactWithoutModel, ReplayCompacted, Memories, Histories
  <2>3. /\ turn' \in [Turns -> TurnRecords]
        /\ interrupted' \subseteq interrupted
        /\ active' \in 0 .. last
    BY <1>8, <1>13 DEF CompactWithoutModel
  <2>. QED BY <1>13, <2>2, <2>3 DEF CompactWithoutModel, NoteRace
<1>14. ASSUME NEW t \in Turns, NEW c \in Calls, RecordCall(t, c) PROVE Types'
  <2>1. live' \in Memories /\ rollout' \in Memories
    BY <1>14, ItemMembers, Recorded DEF RecordCall
  <2>2. call' \in [Calls -> CallRecords]
    BY <1>0, <1>14 DEF RecordCall, CallRecords
  <2>. QED BY <1>14, <2>1, <2>2 DEF RecordCall, Record, NoteRace
<1>15. ASSUME NEW c \in Calls, RecordOutput(c) PROVE Types'
  <2>1. live' \in Memories /\ rollout' \in Memories
    BY <1>15, ItemMembers, Recorded DEF RecordOutput
  <2>2. call' \in [Calls -> CallRecords]
    BY <1>0, <1>15 DEF RecordOutput, CallRecords
  <2>. QED BY <1>15, <2>1, <2>2 DEF RecordOutput, Record, NoteRace
<1>16. ASSUME Interrupt PROVE Types'
  BY <1>16 DEF Interrupt
<1>17. ASSUME MarkAborted PROVE Types'
  <2>1. Marker(stopping) \in Items
    BY <1>0, <1>17, ItemMembers DEF MarkAborted
  <2>2. rollout' \in Memories
    BY <1>17, <2>1, AppendFacts
       DEF MarkAborted, RecordItem, Memories, Histories
  <2>. QED BY <1>17, <2>2 DEF MarkAborted, ghosts
<1>18. ASSUME NEW n \in Nat \ {0}, Rollback(n) PROVE Types'
  <2>1. live' \in Memories /\ rollout' \in Memories
    BY <1>18, RolledBack
  <2>. QED BY <1>18, <2>1 DEF Rollback, NoteRace
<1>19. ASSUME Restart PROVE Types'
  <2>1. turn' \in [Turns -> TurnRecords]
    BY <1>0, <1>19 DEF Restart, Pcs, Early
  <2>2. call' \in [Calls -> CallRecords]
    <3>1. [owner |-> 0, state |-> "ended"] \in CallRecords
      BY <1>0 DEF CallRecords
    <3>2. call' = [c \in Calls |-> IF call[c].state = "running"
                                  THEN [owner |-> 0, state |-> "ended"]
                                  ELSE call[c]]
      BY <1>19 DEF Restart
    <3>3. \A c \in Calls : call[c] \in CallRecords
      OBVIOUS
    <3>. HIDE DEF Types
    <3>. QED BY <3>1, <3>2, <3>3
  <2>3. astray' \in BOOLEAN /\ late' \in BOOLEAN /\ raced' \in BOOLEAN
    BY <1>19 DEF Restart
  <2>4. /\ active' = 0 /\ stopping' = 0 /\ interrupted' = {}
        /\ live' = rollout /\ rollout' = rollout
        /\ last' = last /\ said' = said
    BY <1>19 DEF Restart
  <2>5. last \in Nat
    BY <1>0
  <2>. QED BY <2>1, <2>2, <2>3, <2>4, <2>5
<1>20. CASE UNCHANGED vars
  BY <1>20 DEF vars, ghosts
<1>21. ASSUME LoadHistory PROVE Types'
  <2>1. last + 1 \in Turns
    BY <1>0, <1>21 DEF LoadHistory, CanStart
  <2>2. CollectUserMessages(ForPrompt(rollout.history)) \in Seq(Users)
    BY CollectType DEF Memories, Histories
  <2>3. [At("loading") EXCEPT !.kind = "Compact",
           !.read = CollectUserMessages(ForPrompt(rollout.history))]
          \in TurnRecords
    BY <2>2 DEF TurnRecords, At, Pcs
  <2>4. turn' \in [Turns -> TurnRecords]
    BY <1>0, <1>21, <2>1, <2>3 DEF LoadHistory
  <2>. QED BY <1>0, <1>21, <2>1, <2>4 DEF LoadHistory, ghosts
<1>22. ASSUME NEW t \in Turns, StartCompact(t) PROVE Types'
  <2>1. turn' \in [Turns -> TurnRecords]
    BY <1>0, <1>22 DEF StartCompact, GoTo, Pcs, Early
  <2>2. t \in 0 .. last
    BY <1>0, <1>22 DEF StartCompact, Runs
  <2>. QED BY <1>22, <2>1, <2>2 DEF StartCompact, ghosts
<1>23. ASSUME NEW t \in Turns, RecordContextMore(t) PROVE Types'
  <2>1. turn' \in [Turns -> TurnRecords]
    BY <1>0, <1>23 DEF RecordContextMore, GoTo, Pcs, Early
  <2>2. turn[t].settings \in Settings
    BY <1>23 DEF RecordContextMore, Runs
  <2>3. live' \in Memories /\ rollout' \in Memories
    BY <1>23, <2>2, ItemMembers, Recorded DEF RecordContextMore
  <2>. QED BY <1>23, <2>1, <2>3 DEF RecordContextMore, Record, NoteRace
<1>. QED BY <1>1, <1>2, <1>3, <1>4, <1>5, <1>6, <1>7, <1>9, <1>10, <1>11,
            <1>12, <1>13, <1>14, <1>15, <1>16, <1>17, <1>18, <1>19, <1>20,
            <1>21, <1>22, <1>23, DropsSome
         DEF Next

(* Where the runs are after a step of turn t to point pc, *)
LEMMA Went ==
  ASSUME Types, NEW t \in Turns, NEW pc, GoTo(t, pc)
  PROVE  \A u \in Turns :
           /\ turn'[u].pc = IF u = t THEN pc ELSE turn[u].pc
           /\ turn'[u].settings = turn[u].settings
           /\ turn'[u].read = turn[u].read
           /\ u # t => turn'[u] = turn[u]
  BY DEF GoTo, Types, TurnRecords

(* when turn t becomes a turn that is not under way, *)
LEMMA Became ==
  ASSUME Types, NEW t \in Turns, NEW r, turn' = [turn EXCEPT ![t] = r]
  PROVE  \A u \in Turns : turn'[u] = IF u = t THEN r ELSE turn[u]
  BY DEF Types

(* and when its run ends. *)
LEMMA Settled ==
  ASSUME Types, NEW t \in Turns, Settle(t)
  PROVE  /\ \A u \in Turns :
              turn'[u] = IF u = t THEN At("settled") ELSE turn[u]
         /\ interrupted' = interrupted \ {t}
         /\ active' = IF active = t THEN 0 ELSE active
  BY Became DEF Settle

(* Where the user's message and a compaction's reading leave the runs. *)
LEMMA WentOn ==
  ASSUME Types, NEW t \in Turns
  PROVE  /\ RecordUser(t) => turn[t].pc = "prompted" /\ turn'[t].pc = "setup"
         /\ CompactRead(t) =>
              turn[t].pc = "setup" /\ turn'[t].pc = "summarizing"
         /\ RecordUser(t) \/ CompactRead(t) =>
              /\ turn'[t].settings = turn[t].settings
              /\ \A u \in Turns : u # t => turn'[u] = turn[u]
<1>1. ASSUME NEW pc, NEW users,
             turn' = [turn EXCEPT ![t].pc = pc, ![t].read = users]
      PROVE  /\ turn'[t].pc = pc /\ turn'[t].settings = turn[t].settings
             /\ \A u \in Turns : u # t => turn'[u] = turn[u]
  BY <1>1 DEF Types, TurnRecords
<1>2. ASSUME RecordUser(t)
      PROVE  /\ turn[t].pc = "prompted" /\ turn'[t].pc = "setup"
             /\ turn'[t].settings = turn[t].settings
             /\ \A u \in Turns : u # t => turn'[u] = turn[u]
  BY <1>1, <1>2 DEF RecordUser
<1>3. ASSUME CompactRead(t)
      PROVE  /\ turn[t].pc = "setup" /\ turn'[t].pc = "summarizing"
             /\ turn'[t].settings = turn[t].settings
             /\ \A u \in Turns : u # t => turn'[u] = turn[u]
  <2>1. CASE GoTo(t, "summarizing")
    BY <1>3, <2>1, Went DEF CompactRead
  <2>2. CASE turn' = [turn EXCEPT ![t].pc = "summarizing",
                 ![t].read = CollectUserMessages(ForPrompt(live.history))]
    BY <1>1, <1>3, <2>2 DEF CompactRead
  <2>. QED BY <1>3, <2>1, <2>2 DEF CompactRead
<1>. QED BY <1>2, <1>3

(* Where the loading before a compact task leaves them. *)
LEMMA Loaded ==
  ASSUME Types, LoadHistory
  PROVE  /\ last + 1 \in Turns /\ turn'[last + 1].pc = "loading"
         /\ \A u \in Turns : u # last + 1 => turn'[u] = turn[u]
<1>. DEFINE r == [At("loading") EXCEPT !.kind = "Compact",
                    !.read = CollectUserMessages(ForPrompt(rollout.history))]
<1>1. r.pc = "loading"
  BY DEF At
<1>2. last \in 0 .. MaxTurns /\ MaxTurns \in Nat
  BY HistoryAssumption DEF Types
<1>3. last + 1 \in Turns
  BY <1>2 DEF LoadHistory, CanStart, Turns
<1>4. turn' = [turn EXCEPT ![last + 1] = r]
  BY DEF LoadHistory
<1>. HIDE DEF r
<1>5. \A u \in Turns : turn'[u] = IF u = last + 1 THEN r ELSE turn[u]
  BY <1>4 DEF Types
<1>. QED BY <1>1, <1>3, <1>5

(* The fields of a turn that is not under way. *)
LEMMA AtFacts ==
  ASSUME NEW pc
  PROVE  At(pc).pc = pc /\ At(pc).settings = NoSettings /\ At(pc).read = <<>>
  BY DEF At

(* The bounds of the turn numbers. *)
LEMMA Numbers ==
  ASSUME Types
  PROVE  /\ MaxTurns \in Nat \ {0}
         /\ last \in 0 .. MaxTurns
         /\ active \in 0 .. last
         /\ stopping \in 0 .. last
         /\ Turns = 1 .. MaxTurns
         /\ 0 \notin Turns
         /\ active # 0 => active \in Turns
         /\ stopping # 0 => stopping \in Turns
         /\ \A t \in said \union interrupted : t \in 1 .. last /\ t \in Turns
  BY HistoryAssumption DEF Types, Turns

(* At first no turn has been started. *)
LEMMA InitRuns == Init => Runs
<1>1. \A t \in Turns : t > 0
  BY DEF Turns
<1>2. ASSUME Init PROVE Runs
  <2>1. \A t \in Turns : turn[t].pc = "idle"
    BY <1>2, AtFacts DEF Init
  <2>. QED BY <1>1, <1>2, <2>1 DEF Init, Runs, Early
<1>. QED BY <1>2

(* Every step keeps the order of the runs. *)
LEMMA NextRuns ==
  ASSUME Types, Runs, [Next]_vars
  PROVE  Runs'
<1>. DEFINE Owners ==
       \A c \in Calls : call[c].owner = 0 <=> call[c].state # "running"
<1>0. Owners
  BY DEF Runs
<1>1. ASSUME NEW s \in Settings, Start("Regular", s) PROVE Runs'
  <2>1. /\ last' = last + 1 /\ active' = last + 1 /\ last + 1 \in Turns
        /\ active = 0
        /\ UNCHANGED <<call, said, interrupted, late>>
    BY <1>1, Numbers DEF Start, CanStart, ghosts
  <2>2. \A u \in Turns :
          turn'[u] = IF u = last + 1
                     THEN [At("starting") EXCEPT !.settings = s]
                     ELSE turn[u]
    BY <1>1, <2>1, Became DEF Start
  <2>3. /\ [At("starting") EXCEPT !.settings = s].pc = "starting"
        /\ [At("starting") EXCEPT !.settings = s].settings = s
    BY DEF At
  <2>. HIDE DEF Owners
  <2>5. last + 1 \notin said \union interrupted /\ last \in Nat
    BY Numbers
  <2>6. ASSUME NEW u \in Turns, u # last + 1 PROVE turn[u].pc \notin Early
    BY <2>1, Numbers DEF Runs
  <2>7. turn'[last + 1].pc = "starting" /\ turn'[last + 1].settings = s
    BY <2>1, <2>2, <2>3
  <2>8. \A u \in Turns : u # last + 1 => turn'[u] = turn[u]
    BY <2>2
  <2>9. Owners'
    BY <1>0, <2>1 DEF Owners
  <2>10. \A u \in Turns : turn[u].pc # "loading"
    BY <1>1 DEF Start, CanStart
  <2>. QED BY <2>1, <2>5, <2>6, <2>7, <2>8, <2>9, <2>10, Numbers
           DEF Runs, Early, Owners
<1>2. ASSUME NEW k \in {"Compact", "Submitted"}, Start(k, NoSettings)
      PROVE  Runs'
  <2>1. /\ last' = last + 1 /\ active' = last + 1 /\ last + 1 \in Turns
        /\ active = 0
        /\ UNCHANGED <<call, said, interrupted, late>>
    BY <1>2, Numbers DEF Start, CanStart, ghosts
  <2>2. \A u \in Turns :
          turn'[u] = IF u = last + 1
                     THEN [At("setup") EXCEPT !.kind = k]
                     ELSE turn[u]
    BY <1>2, <2>1, Became DEF Start
  <2>3. [At("setup") EXCEPT !.kind = k].pc = "setup"
    BY DEF At
  <2>5. last + 1 \notin said \union interrupted /\ last \in Nat
    BY Numbers
  <2>6. ASSUME NEW u \in Turns, u # last + 1 PROVE turn[u].pc \notin Early
    BY <2>1, Numbers DEF Runs
  <2>7. turn'[last + 1].pc = "setup"
    BY <2>1, <2>2, <2>3
  <2>8. \A u \in Turns : u # last + 1 => turn'[u] = turn[u]
    BY <2>2
  <2>9. Owners'
    BY <1>0, <2>1
  <2>10. \A u \in Turns : turn[u].pc # "loading"
    BY <1>2 DEF Start, CanStart
  <2>. QED BY <2>1, <2>5, <2>6, <2>7, <2>8, <2>9, <2>10, Numbers
           DEF Runs, Early
<1>3. ASSUME NEW t \in Turns, RecordContext(t) PROVE Runs'
  <2>1. /\ turn[t].pc = "starting"
        /\ UNCHANGED <<last, active, call, said, interrupted, late>>
    BY <1>3 DEF RecordContext
  <2>2. PICK pc \in {"stating", "context"} : GoTo(t, pc)
    BY <1>3 DEF RecordContext
  <2>. QED BY <2>1, <2>2, Went, Numbers DEF Runs, Early
<1>4. ASSUME NEW t \in Turns, PersistContext(t) PROVE Runs'
  <2>1. /\ turn[t].pc = "context"
        /\ GoTo(t, "adopting")
        /\ UNCHANGED <<last, active, call, said, interrupted, late>>
    BY <1>4 DEF PersistContext
  <2>. QED BY <2>1, Went, Numbers DEF Runs, Early
<1>5. ASSUME NEW t \in Turns, AdoptContext(t) PROVE Runs'
  <2>1. /\ turn[t].pc = "adopting"
        /\ turn' = [turn EXCEPT ![t] = At("prompted")]
        /\ UNCHANGED <<last, active, call, said, interrupted, late>>
    BY <1>5 DEF AdoptContext
  <2>. QED BY <2>1, Became, AtFacts, Numbers DEF Runs, Early
<1>6. ASSUME NEW t \in Turns, RecordUser(t) PROVE Runs'
  <2>1. /\ said' = said \union {t}
        /\ UNCHANGED <<last, active, call, interrupted, late>>
    BY <1>6 DEF RecordUser
  <2>. QED BY <1>6, <2>1, WentOn, Numbers DEF Runs, Early
<1>7. ASSUME NEW t \in Turns, BeginSampling(t) PROVE Runs'
  <2>1. /\ turn[t].pc = "setup"
        /\ turn' = [turn EXCEPT ![t] = At("sampling")]
        /\ UNCHANGED <<last, active, call, said, interrupted, late>>
    BY <1>7 DEF BeginSampling, ghosts
  <2>. QED BY <2>1, Became, AtFacts, Numbers DEF Runs, Early
<1>8. ASSUME NEW t \in Turns, Settle(t),
             turn[t].pc \notin Early \union {"idle", "settled", "loading"},
             UNCHANGED <<last, call>>, late \in {late', FALSE},
             said' \subseteq said, late => late'
      PROVE  Runs'
  <2>1. /\ \A u \in Turns :
             turn'[u] = IF u = t THEN At("settled") ELSE turn[u]
        /\ interrupted' = interrupted \ {t}
        /\ active' = IF active = t THEN 0 ELSE active
    BY <1>8, Settled
  <2>. QED BY <1>8, <2>1, AtFacts, Numbers DEF Runs, Early
<1>9. ASSUME NEW t \in Turns, CompleteTurn(t) \/ FailTurn(t) PROVE Runs'
  <2>1. /\ Settle(t)
        /\ turn[t].pc \in {"setup", "summarizing", "sampling"}
        /\ UNCHANGED <<last, call, said, late>>
    BY <1>9 DEF CompleteTurn, FailTurn
  <2>. QED BY <1>8, <2>1 DEF Early, Types
<1>10. ASSUME NEW t \in Turns, CompactRead(t) PROVE Runs'
  <2>1. /\ turn[t].pc = "setup"
        /\ UNCHANGED <<last, active, call, said, interrupted>>
        /\ late => late'
    BY <1>10 DEF CompactRead
  <2>2. \A u \in Turns :
          /\ turn'[u].pc = IF u = t THEN "summarizing" ELSE turn[u].pc
          /\ turn'[u].settings = turn[u].settings
    BY <1>10, WentOn
  <2>. QED BY <2>1, <2>2, Numbers DEF Runs, Early
<1>11. ASSUME NEW t \in Turns, CompactPersist(t) PROVE Runs'
  <2>1. /\ turn[t].pc = "summarizing"
        /\ GoTo(t, "replacing")
        /\ UNCHANGED <<last, active, call, interrupted>>
        /\ said' \subseteq said
        /\ late' = (late \/ t \in interrupted)
    BY <1>11, RecentSome DEF CompactPersist
  <2>2. \A u \in Turns :
          /\ turn'[u].pc = IF u = t THEN "replacing" ELSE turn[u].pc
          /\ turn'[u].settings = turn[u].settings
    BY <2>1, Went
  <2>3. late => late'
    BY <2>1
  <2>4. t \in interrupted => late'
    BY <2>1
  <2>. QED BY <2>1, <2>2, <2>3, <2>4, Numbers DEF Runs, Early
<1>12. ASSUME NEW t \in Turns, CompactReplace(t) PROVE Runs'
  <2>1. /\ turn[t].pc = "replacing"
        /\ UNCHANGED <<last, call, said, late>>
    BY <1>12 DEF CompactReplace
  <2>2. CASE Settle(t)
    BY <1>8, <2>1, <2>2 DEF Early, Types
  <2>3. CASE /\ turn' = [turn EXCEPT ![t] = At("sampling")]
             /\ UNCHANGED <<active, interrupted>>
    BY <2>1, <2>3, Became, AtFacts, Numbers DEF Runs, Early
  <2>. QED BY <1>12, <2>2, <2>3 DEF CompactReplace
<1>13. ASSUME NEW t \in Turns, CompactWithoutModel(t) PROVE Runs'
  <2>1. /\ turn[t].pc = "setup"
        /\ Settle(t)
        /\ said' = {}
        /\ UNCHANGED <<last, call>>
        /\ late' = (late \/ t \in interrupted)
    BY <1>13 DEF CompactWithoutModel
  <2>. QED BY <1>8, <2>1 DEF Early, Types
<1>14. ASSUME NEW t \in Turns, NEW c \in Calls, RecordCall(t, c) PROVE Runs'
  <2>1. /\ UNCHANGED <<last, active, turn, said, interrupted, late>>
        /\ call' = [call EXCEPT ![c] = [owner |-> t, state |-> "running"]]
    BY <1>14 DEF RecordCall
  <2>2. Owners'
    BY <1>0, <2>1, Numbers DEF Types
  <2>. QED BY <2>1, <2>2, Numbers DEF Runs, Early
<1>15. ASSUME NEW c \in Calls, RecordOutput(c) PROVE Runs'
  <2>1. /\ UNCHANGED <<last, active, turn, said, interrupted, late>>
        /\ call' = [call EXCEPT ![c] = [owner |-> 0, state |-> "ended"]]
    BY <1>15 DEF RecordOutput
  <2>2. Owners'
    BY <1>0, <2>1, Numbers DEF Types
  <2>. QED BY <2>1, <2>2, Numbers DEF Runs, Early
<1>16. ASSUME Interrupt PROVE Runs'
  <2>1. /\ active # 0 /\ active \in Turns /\ turn[active].pc \notin Early
        /\ active' = 0 /\ interrupted' = interrupted \union {active}
        /\ late' = (late \/ turn[active].pc = "replacing")
        /\ UNCHANGED <<last, turn, call, said>>
    BY <1>16, Numbers DEF Interrupt, Early
  <2>. QED BY <2>1, Numbers DEF Runs, Early
<1>17. ASSUME MarkAborted PROVE Runs'
  BY <1>17 DEF MarkAborted, Runs, ghosts
<1>18. ASSUME NEW n \in Nat \ {0}, Rollback(n) PROVE Runs'
  <2>1. /\ UNCHANGED <<last, active, turn, call, interrupted, late>>
        /\ said' \subseteq said
    BY <1>18 DEF Rollback
  <2>. QED BY <2>1 DEF Runs
<1>19. ASSUME Restart PROVE Runs'
  <2>1. \A u \in Turns :
          turn'[u] = IF u <= last THEN At("settled") ELSE turn[u]
    BY <1>19 DEF Restart
  <2>2. \A c \in Calls :
          call'[c] = IF call[c].state = "running"
                     THEN [owner |-> 0, state |-> "ended"] ELSE call[c]
    BY <1>19 DEF Restart
  <2>3. /\ active' = 0 /\ interrupted' = {}
        /\ UNCHANGED <<last, said, late>>
    BY <1>19 DEF Restart
  <2>4. Owners'
    BY <1>0, <2>2
  <2>5. \A u \in Turns : (u <= last /\ turn'[u].pc = "settled")
                         \/ (u > last /\ turn'[u].pc = "idle")
    BY <2>1, AtFacts, Numbers DEF Runs
  <2>. QED BY <2>3, <2>4, <2>5, Numbers DEF Runs, Early
<1>20. CASE UNCHANGED vars
  BY <1>20 DEF vars, ghosts, Runs
<1>21. ASSUME LoadHistory PROVE Runs'
  <2>1. /\ last' = last + 1 /\ active' = 0 /\ active = 0
        /\ \A u \in Turns : turn[u].pc # "loading"
        /\ UNCHANGED <<call, said, interrupted, late>>
    BY <1>21 DEF LoadHistory, CanStart, ghosts
  <2>2. /\ last + 1 \in Turns /\ turn'[last + 1].pc = "loading"
        /\ \A u \in Turns : u # last + 1 => turn'[u] = turn[u]
    BY <1>21, Loaded
  <2>3. last + 1 \notin said \union interrupted /\ last \in Nat
    BY Numbers
  <2>4. call' = call
    BY <2>1
  <2>5. Owners'
    BY <1>0, <2>4
  <2>6. \A u \in Turns : turn[u].pc \notin Early
    BY <2>1, Numbers DEF Runs
  <2>. QED BY <2>1, <2>2, <2>3, <2>5, <2>6, Numbers DEF Runs, Early
<1>22. ASSUME NEW t \in Turns, StartCompact(t) PROVE Runs'
  <2>1. /\ turn[t].pc = "loading" /\ active' = t /\ GoTo(t, "setup")
        /\ UNCHANGED <<last, call, said, interrupted, late>>
    BY <1>22 DEF StartCompact, ghosts
  <2>2. t = last /\ active = 0
    BY <2>1 DEF Runs
  <2>. QED BY <2>1, <2>2, Went, Numbers DEF Runs, Early
<1>23. ASSUME NEW t \in Turns, RecordContextMore(t) PROVE Runs'
  <2>1. /\ turn[t].pc = "stating"
        /\ GoTo(t, "context")
        /\ UNCHANGED <<last, active, call, said, interrupted, late>>
    BY <1>23 DEF RecordContextMore
  <2>. QED BY <2>1, Went, Numbers DEF Runs, Early
<1>. QED BY <1>1, <1>2, <1>3, <1>4, <1>5, <1>6, <1>7, <1>9, <1>10, <1>11,
            <1>12, <1>13, <1>14, <1>15, <1>16, <1>17, <1>18, <1>19, <1>20,
            <1>21, <1>22, <1>23, DropsSome
         DEF Next

-----------------------------------------------------------------------------
(* PromptWellFormed: calls and outputs. *)

(* No history has a call or an output twice, or an output before its call; *)
(* its calls were made, and its outputs' tools ended.                      *)
Sound(h) == Once(h, Loose) /\ InOrder(h)
Issued(h, calls) ==
  \A c \in Calls : /\ Call(c) \in ToSet(h) => calls[c].state # "none"
                   /\ Output(c) \in ToSet(h) => calls[c].state = "ended"
Prompts ==
  /\ Sound(live.history) /\ Issued(live.history, call)
  /\ Sound(rollout.history) /\ Issued(rollout.history, call)

(* No call is taken back. *)
Onward(before, after) ==
  \A c \in Calls :
    /\ before[c].state # "none" => after[c].state # "none"
    /\ before[c].state = "ended" => after[c].state = "ended"

(* Calls and outputs, by their constructors. *)
LEMMA LooseIs ==
  /\ \A c \in Calls : Call(c) \in Loose /\ Output(c) \in Loose
  /\ \A x \in Loose : \E c \in Calls : x = Call(c) \/ x = Output(c)
  /\ \A c, d : Call(c) # Output(d) /\ (Call(c) = Call(d) => c = d)
               /\ (Output(c) = Output(d) => c = d)
<1>1. \A c \in Calls : Call(c) \in Loose /\ Output(c) \in Loose
  BY ItemMembers, ItemFields DEF Loose
<1>2. ASSUME NEW x \in Loose
      PROVE  \E c \in Calls : x = Call(c) \/ x = Output(c)
  <2>1. x \in Items /\ x.kind \in {"call", "output"}
    BY <1>2 DEF Loose
  <2>. QED BY <2>1, ItemKinds
<1>3. \A c, d : Call(c) # Output(d) /\ (Call(c) = Call(d) => c = d)
               /\ (Output(c) = Output(d) => c = d)
  BY ItemFields
<1>. QED BY <1>1, <1>2, <1>3

(* A history without calls and outputs is sound. *)
LEMMA SoundNone ==
  ASSUME NEW h \in Seq(Items), NEW calls, ToSet(h) \intersect Loose = {}
  PROVE  Sound(h) /\ Issued(h, calls)
<1>1. Once(h, Loose)
  BY DEF Once, ToSet
<1>2. InOrder(h)
  BY LooseIs DEF InOrder, Precedes, ToSet
<1>3. Issued(h, calls)
  BY LooseIs DEF Issued
<1>. QED BY <1>1, <1>2, <1>3 DEF Sound

(* What a compaction built is sound. *)
LEMMA BuiltSound ==
  ASSUME NEW t \in Turns, NEW users \in Seq(Users), NEW calls
  PROVE  /\ Sound(BuildCompactedHistory(t, users))
         /\ Issued(BuildCompactedHistory(t, users), calls)
<1>1. /\ BuildCompactedHistory(t, users) \in Seq(Items)
      /\ ToSet(BuildCompactedHistory(t, users)) \subseteq TurnItems
  BY BuiltFacts
<1>2. TurnItems \intersect Loose = {}
  BY DEF TurnItems, IsUserTurnBoundary, Loose
<1>. QED BY <1>1, <1>2, SoundNone

(* What is recorded is no call or output, a new call, or the first output  *)
(* of a call.                                                              *)
LEMMA SoundAppend ==
  ASSUME NEW h \in Seq(Items), NEW x \in Items, Sound(h),
         x \in Loose => x \notin ToSet(h),
         x.kind = "call" => Output(x.id) \notin ToSet(h)
  PROVE  Sound(Append(h, x))
<1>1. Once(Append(h, x), Loose)
  BY OnceAppend DEF Sound
<1>2. InOrder(Append(h, x))
  BY InOrderAppend DEF Sound
<1>. QED BY <1>1, <1>2 DEF Sound

(* A call is recorded once made, an output once its tool ended. *)
LEMMA IssuedAppend ==
  ASSUME NEW h \in Seq(Items), NEW x \in Items, NEW before, NEW after,
         Issued(h, before), Onward(before, after),
         \A c \in Calls : /\ x = Call(c) => after[c].state # "none"
                          /\ x = Output(c) => after[c].state = "ended"
  PROVE  Issued(Append(h, x), after)
<1>1. ToSet(Append(h, x)) = ToSet(h) \union {x}
  BY ToSetAppend
<1>. QED BY <1>1 DEF Issued, Onward

(* A rollback leaves a sound history. *)
LEMMA SoundRest ==
  ASSUME NEW h \in Seq(Items), NEW n \in Nat \ {0}, NEW calls,
         Sound(h), Issued(h, calls)
  PROVE  Sound(Rest(h, n)) /\ Issued(Rest(h, n), calls)
<1>1. Sound(Rest(h, n))
  BY RestOnce, RestInOrder DEF Sound
<1>2. Issued(Rest(h, n), calls)
  BY RestType DEF Issued
<1>. QED BY <1>1, <1>2

(* The empty histories are sound. *)
LEMMA InitPrompts == Init => Prompts
<1>. SUFFICES ASSUME Init PROVE Prompts
  OBVIOUS
<1>1. \A m \in {live, rollout} : m.history = <<>>
  BY DEF Init
<1>2. <<>> \in Seq(Items) /\ ToSet(<<>>) = {}
  BY EmptySeq, ToSetEmpty
<1>3. Sound(<<>>) /\ Issued(<<>>, call)
  BY <1>2, SoundNone
<1>. QED BY <1>1, <1>3 DEF Prompts

(* Every step leaves both histories sound: whatever came before, a call is *)
(* recorded once, its output once, and after it.                           *)
LEMMA NextPrompts ==
  ASSUME Types, Runs, Prompts, [Next]_vars
  PROVE  Prompts'
<1>0. /\ live.history \in Seq(Items) /\ rollout.history \in Seq(Items)
      /\ \A t \in Turns : turn[t].read \in Seq(Users)
      /\ <<>> \in Seq(Users)
  BY EmptySeq DEF Types, Memories, Histories, TurnRecords
<1>1. ASSUME UNCHANGED <<live, rollout>>, Onward(call, call')
      PROVE  Prompts'
  <2>1. live' = live /\ rollout' = rollout
    BY <1>1
  <2>. QED BY <1>1, <2>1 DEF Prompts, Issued, Onward
<1>2. UNCHANGED call => Onward(call, call')
  BY DEF Onward
<1>3. ASSUME NEW x \in Items, Record(x), Onward(call, call'),
             \A c \in Calls :
               /\ x = Call(c) => call[c].state = "none"
                                /\ call'[c].state # "none"
               /\ x = Output(c) => call[c].state # "ended"
                                  /\ call'[c].state = "ended"
      PROVE  Prompts'
  <2>1. ASSUME NEW h \in Seq(Items), Sound(h), Issued(h, call)
        PROVE  Sound(Append(h, x)) /\ Issued(Append(h, x), call')
    <3>1. x \in Loose => x \notin ToSet(h)
      BY <1>3, <2>1, LooseIs DEF Issued
    <3>2. x.kind = "call" => Output(x.id) \notin ToSet(h)
      BY <1>3, <2>1, ItemKinds DEF Issued
    <3>3. Sound(Append(h, x))
      BY <2>1, <3>1, <3>2, SoundAppend
    <3>4. \A c \in Calls : /\ x = Call(c) => call'[c].state # "none"
                           /\ x = Output(c) => call'[c].state = "ended"
      BY <1>3
    <3>5. Issued(Append(h, x), call')
      BY <1>3, <2>1, <3>4, IssuedAppend
    <3>. QED BY <3>3, <3>5
  <2>2. /\ live'.history = Append(live.history, x)
        /\ rollout'.history = Append(rollout.history, x)
    BY <1>3, Recorded
  <2>. QED BY <1>0, <2>1, <2>2 DEF Prompts
<1>4. ASSUME NEW x \in Items, x \notin Loose, Record(x), UNCHANGED call
      PROVE  Prompts'
  <2>1. \A c \in Calls : x # Call(c) /\ x # Output(c)
    BY <1>4, LooseIs
  <2>. QED BY <1>2, <1>3, <1>4, <2>1
<1>5. ASSUME UNCHANGED call,
             Sound(live'.history), Issued(live'.history, call),
             Sound(rollout'.history), Issued(rollout'.history, call)
      PROVE  Prompts'
  BY <1>5 DEF Prompts
<1>6. /\ Sound(live.history) /\ Issued(live.history, call)
      /\ Sound(rollout.history) /\ Issued(rollout.history, call)
  BY DEF Prompts
<1>7. \A t \in Turns, h \in Seq(Users) :
        /\ Sound(BuildCompactedHistory(t, h))
        /\ Issued(BuildCompactedHistory(t, h), call)
  BY BuiltSound
<1>11. ASSUME NEW k, NEW s, Start(k, s) PROVE Prompts'
  BY <1>1, <1>2, <1>11 DEF Start
<1>12. ASSUME NEW t \in Turns, RecordContext(t) PROVE Prompts'
  <2>1. turn[t].settings \in Settings /\ UNCHANGED call
    BY <1>12 DEF RecordContext, Runs
  <2>2. /\ Initial(turn[t].settings) \in Items \ Loose
        /\ Update(turn[t].settings) \in Items \ Loose
    BY <2>1, ItemMembers, ItemFields DEF Loose
  <2>3. CASE Record(Initial(turn[t].settings))
    BY <1>4, <2>1, <2>2, <2>3
  <2>4. CASE Record(Update(turn[t].settings))
    BY <1>4, <2>1, <2>2, <2>4
  <2>5. CASE UNCHANGED <<live, rollout>>
    BY <1>1, <1>2, <2>1, <2>5
  <2>. QED BY <1>12, <2>3, <2>4, <2>5 DEF RecordContext
<1>13. ASSUME NEW t \in Turns, PersistContext(t) PROVE Prompts'
  <2>1. /\ live' = live /\ rollout'.history = rollout.history
        /\ UNCHANGED call
    BY <1>13 DEF PersistContext, ReplayTurnContext, Types, Memories
  <2>. QED BY <1>5, <1>6, <2>1
<1>14. ASSUME NEW t \in Turns, AdoptContext(t) PROVE Prompts'
  <2>1. /\ live'.history = live.history /\ rollout' = rollout
        /\ UNCHANGED call
    BY <1>14 DEF AdoptContext, Types, Memories
  <2>. QED BY <1>5, <1>6, <2>1
<1>15. ASSUME NEW t \in Turns, RecordUser(t) PROVE Prompts'
  <2>1. User(t) \in Items /\ User(t) \notin Loose
    BY ItemMembers, ItemFields DEF Loose
  <2>. QED BY <1>4, <1>15, <2>1 DEF RecordUser
<1>16. ASSUME NEW t \in Turns,
              \/ BeginSampling(t) \/ CompleteTurn(t) \/ FailTurn(t)
              \/ CompactRead(t)
       PROVE  Prompts'
  <2>1. UNCHANGED <<live, rollout, call>>
    BY <1>16 DEF BeginSampling, CompleteTurn, FailTurn, CompactRead
  <2>. QED BY <1>1, <1>2, <2>1
<1>17. ASSUME NEW t \in Turns, CompactPersist(t) PROVE Prompts'
  <2>1. /\ live' = live
        /\ rollout'.history = BuildCompactedHistory(t, turn[t].read)
        /\ UNCHANGED call
    BY <1>17 DEF CompactPersist, ReplayCompacted
  <2>. QED BY <1>0, <1>5, <1>6, <1>7, <2>1
<1>18. ASSUME NEW t \in Turns, CompactReplace(t) PROVE Prompts'
  <2>1. /\ rollout' = rollout
        /\ live'.history = BuildCompactedHistory(t, turn[t].read)
        /\ UNCHANGED call
    BY <1>18 DEF CompactReplace
  <2>. QED BY <1>0, <1>5, <1>6, <1>7, <2>1
<1>19. ASSUME NEW t \in Turns, CompactWithoutModel(t) PROVE Prompts'
  <2>1. /\ rollout'.history = BuildCompactedHistory(t, <<>>)
        /\ live'.history = BuildCompactedHistory(t, <<>>)
        /\ UNCHANGED call
    BY <1>19 DEF CompactWithoutModel, ReplayCompacted
  <2>. QED BY <1>0, <1>5, <1>7, <2>1
<1>20. ASSUME NEW t \in Turns, NEW c \in Calls, RecordCall(t, c)
       PROVE  Prompts'
  <2>1. /\ call[c].state = "none" /\ call'[c].state = "running"
        /\ \A d \in Calls : d # c => call'[d] = call[d]
    BY <1>20 DEF RecordCall, Types
  <2>2. Record(Call(c)) /\ Call(c) \in Items
    BY <1>20, ItemMembers DEF RecordCall
  <2>3. \A d \in Calls : Call(c) # Output(d) /\ (Call(c) = Call(d) => d = c)
    BY LooseIs
  <2>. QED BY <1>3, <2>1, <2>2, <2>3 DEF Onward
<1>21. ASSUME NEW c \in Calls, RecordOutput(c) PROVE Prompts'
  <2>1. /\ call[c].state = "running" /\ call'[c].state = "ended"
        /\ \A d \in Calls : d # c => call'[d] = call[d]
    BY <1>21 DEF RecordOutput, Types
  <2>2. Record(Output(c)) /\ Output(c) \in Items
    BY <1>21, ItemMembers DEF RecordOutput
  <2>3. \A d \in Calls :
          Call(d) # Output(c) /\ (Output(c) = Output(d) => d = c)
    BY LooseIs
  <2>. QED BY <1>3, <2>1, <2>2, <2>3 DEF Onward
<1>22. ASSUME Interrupt PROVE Prompts'
  BY <1>1, <1>2, <1>22 DEF Interrupt
<1>23. ASSUME MarkAborted PROVE Prompts'
  <2>1. stopping \in Turns /\ UNCHANGED <<live, call>>
    BY <1>23, Numbers DEF MarkAborted
  <2>2. rollout'.history = Append(rollout.history, Marker(stopping))
    BY <1>23 DEF MarkAborted, RecordItem, Types, Memories
  <2>3. Marker(stopping) \in Items /\ Marker(stopping) \notin Loose
    BY <2>1, ItemMembers, ItemFields DEF Loose
  <2>4. \A c \in Calls : Marker(stopping) # Call(c)
                         /\ Marker(stopping) # Output(c)
    BY ItemFields
  <2>5. Sound(Append(rollout.history, Marker(stopping)))
    BY <1>0, <1>6, <2>3, <2>4, SoundAppend, ItemFields
  <2>6. Issued(Append(rollout.history, Marker(stopping)), call)
    <3>1. Onward(call, call)
      BY DEF Onward
    <3>. QED BY <1>0, <1>6, <2>3, <2>4, <3>1, IssuedAppend
  <2>. QED BY <1>5, <1>6, <2>1, <2>2, <2>5, <2>6
<1>24. ASSUME NEW n \in Nat \ {0}, Rollback(n) PROVE Prompts'
  <2>1. /\ live'.history = Rest(live.history, n)
        /\ rollout'.history = Rest(rollout.history, n)
    BY <1>24, RolledBack
  <2>2. \A h \in Seq(Items) : Sound(h) /\ Issued(h, call)
          => Sound(Rest(h, n)) /\ Issued(Rest(h, n), call)
    BY SoundRest
  <2>. QED BY <1>0, <1>5, <1>6, <1>24, <2>1, <2>2 DEF Rollback
<1>25. ASSUME Restart PROVE Prompts'
  <2>1. live' = rollout /\ rollout' = rollout
    BY <1>25 DEF Restart
  <2>2. Onward(call, call')
    BY <1>25 DEF Restart, Onward
  <2>3. Issued(rollout.history, call')
    BY <1>6, <2>2 DEF Issued, Onward
  <2>. QED BY <1>6, <2>1, <2>3 DEF Prompts
<1>26. CASE UNCHANGED vars
  BY <1>1, <1>2, <1>26 DEF vars
<1>27. CASE LoadHistory
  BY <1>1, <1>2, <1>27 DEF LoadHistory
<1>28. ASSUME NEW t \in Turns, StartCompact(t) PROVE Prompts'
  BY <1>1, <1>2, <1>28 DEF StartCompact
<1>29. ASSUME NEW t \in Turns, RecordContextMore(t) PROVE Prompts'
  <2>1. turn[t].settings \in Settings
    BY <1>29 DEF RecordContextMore, Runs
  <2>2. Update(turn[t].settings) \in Items \ Loose
    BY <2>1, ItemMembers, ItemFields DEF Loose
  <2>. QED BY <1>4, <1>29, <2>2 DEF RecordContextMore
<1>. QED BY <1>11, <1>12, <1>13, <1>14, <1>15, <1>16, <1>17, <1>18, <1>19,
            <1>20, <1>21, <1>22, <1>23, <1>24, <1>25, <1>26, <1>27, <1>28,
            <1>29, DropsSome
         DEF Next

-----------------------------------------------------------------------------
(* ReplayAgrees: the rollout and the live history. *)

(* The histories of the process and of its successor, while no compaction  *)
(* raced with a recording: the same but for markers, or the rollout holds  *)
(* what the one compaction under way is about to put into the live one.    *)
Replays ==
  ~raced =>
    /\ ~Replacing => Strip(rollout.history) = Strip(live.history)
    /\ \A t \in Turns : turn[t].pc = "replacing" =>
         /\ Strip(rollout.history) = Built(t)
         /\ \A u \in Turns : turn[u].pc = "replacing" => u = t

(* The same while no compaction was late, whatever raced: a recording that *)
(* raced was a tool's.                                                     *)
Follows ==
  ~late =>
    /\ ~Replacing => Agrees(rollout.history, live.history)
    /\ \A t \in Turns : turn[t].pc = "replacing" =>
         /\ Keep(rollout.history, TurnItems \union Statements) = Built(t)
         /\ rollout.reference = NoSettings

(* No compaction begins or ends its replacement. *)
StillReplacing ==
  \A u \in Turns :
    /\ turn'[u].pc = "replacing" <=> turn[u].pc = "replacing"
    /\ turn[u].pc = "replacing" => turn'[u] = turn[u]

(* Then a compaction being replaced is what it was. *)
LEMMA StillFacts ==
  ASSUME StillReplacing
  PROVE  /\ Replacing' <=> Replacing
         /\ \A t \in Turns :
              turn'[t].pc = "replacing" => turn[t].pc = "replacing"
                                           /\ Built(t)' = Built(t)
  BY DEF StillReplacing, Replacing, Built

(* Only a compaction and a restart do. *)
LEMMA Calm ==
  ASSUME Types, Runs
  PROVE  /\ \A k, s : Start(k, s) => StillReplacing
         /\ LoadHistory => StillReplacing
         /\ \A t \in Turns :
              \/ StartCompact(t) \/ RecordContext(t) \/ RecordContextMore(t)
              \/ PersistContext(t) \/ AdoptContext(t)
              \/ RecordUser(t) \/ BeginSampling(t)
              \/ CompleteTurn(t) \/ FailTurn(t)
              \/ CompactRead(t) \/ CompactWithoutModel(t)
              => StillReplacing
         /\ UNCHANGED turn => StillReplacing
<1>1. ASSUME NEW t \in Turns, NEW pc, turn[t].pc # "replacing",
             pc # "replacing", GoTo(t, pc)
      PROVE  StillReplacing
  BY <1>1, Went DEF StillReplacing
<1>2. ASSUME NEW t \in Turns, NEW r, turn[t].pc # "replacing",
             r.pc # "replacing", turn' = [turn EXCEPT ![t] = r]
      PROVE  StillReplacing
  BY <1>2, Became DEF StillReplacing
<1>3. \A pc : At(pc).pc = pc
  BY AtFacts
<1>4. ASSUME NEW t \in Turns, turn[t].pc # "replacing", Settle(t)
      PROVE  StillReplacing
  BY <1>2, <1>3, <1>4 DEF Settle
<1>5. ASSUME NEW k, NEW s, Start(k, s) PROVE StillReplacing
  <2>1. last + 1 \in Turns /\ turn[last + 1].pc = "idle"
    BY <1>5, Numbers DEF Start, CanStart, Runs
  <2>2. /\ [At("starting") EXCEPT !.settings = s].pc = "starting"
        /\ [At("setup") EXCEPT !.kind = k].pc = "setup"
    BY DEF At
  <2>3. PICK r : r.pc # "replacing" /\ turn' = [turn EXCEPT ![last + 1] = r]
    BY <1>5, <2>2 DEF Start
  <2>. QED BY <1>2, <2>1, <2>3
<1>6. ASSUME NEW t \in Turns,
             \/ StartCompact(t) \/ RecordContext(t) \/ RecordContextMore(t)
             \/ PersistContext(t)
      PROVE  StillReplacing
  <2>1. PICK pc \in {"stating", "context", "adopting", "setup"} : GoTo(t, pc)
    BY <1>6
       DEF StartCompact, RecordContext, RecordContextMore, PersistContext
  <2>2. turn[t].pc # "replacing"
    BY <1>6
       DEF StartCompact, RecordContext, RecordContextMore, PersistContext
  <2>. QED BY <1>1, <2>1, <2>2
<1>7. ASSUME NEW t \in Turns, AdoptContext(t) \/ BeginSampling(t)
      PROVE  StillReplacing
  BY <1>2, <1>3, <1>7 DEF AdoptContext, BeginSampling
<1>8. ASSUME NEW t \in Turns,
             CompleteTurn(t) \/ FailTurn(t) \/ CompactWithoutModel(t)
      PROVE  StillReplacing
  <2>1. turn[t].pc # "replacing" /\ Settle(t)
    BY <1>8 DEF CompleteTurn, FailTurn, CompactWithoutModel
  <2>. QED BY <1>4, <2>1
<1>9. ASSUME NEW t \in Turns, RecordUser(t) \/ CompactRead(t)
      PROVE  StillReplacing
  <2>1. /\ turn[t].pc # "replacing" /\ turn'[t].pc # "replacing"
        /\ \A u \in Turns : u # t => turn'[u] = turn[u]
    BY <1>9, WentOn
  <2>. QED BY <2>1 DEF StillReplacing
<1>10. UNCHANGED turn => StillReplacing
  BY DEF StillReplacing
<1>11. ASSUME LoadHistory PROVE StillReplacing
  <2>1. last + 1 \in Turns /\ turn[last + 1].pc = "idle"
    BY <1>11, Loaded, Numbers DEF Runs
  <2>. QED BY <1>11, <2>1, Loaded DEF StillReplacing
<1>. QED BY <1>5, <1>6, <1>7, <1>8, <1>9, <1>10, <1>11

(* Strip of a longer history. *)
LEMMA StripAppend ==
  ASSUME NEW h \in Seq(Items), NEW x \in Items
  PROVE  Strip(Append(h, x)) = IF x \in Markers THEN Strip(h)
                                                ELSE Append(Strip(h), x)
  BY KeepAppend DEF Strip

(* What a compaction built holds no markers and states nothing. *)
LEMMA BuiltKept ==
  ASSUME NEW t \in Turns, NEW users \in Seq(Users)
  PROVE  /\ Strip(BuildCompactedHistory(t, users))
              = BuildCompactedHistory(t, users)
         /\ Keep(BuildCompactedHistory(t, users), TurnItems \union Statements)
              = BuildCompactedHistory(t, users)
         /\ LastStated(BuildCompactedHistory(t, users)) = NoSettings
<1>. DEFINE b == BuildCompactedHistory(t, users)
<1>1. b \in Seq(Items) /\ ToSet(b) \subseteq TurnItems
  BY BuiltFacts
<1>. HIDE DEF b
<1>2. /\ TurnItems \subseteq Items \ Markers
      /\ TurnItems \intersect Statements = {}
  BY DEF TurnItems, IsUserTurnBoundary, Markers, Statements, States
<1>3. ToSet(b) \subseteq Items \ Markers
      /\ ToSet(b) \subseteq TurnItems \union Statements
      /\ ToSet(b) \intersect Statements = {}
  BY <1>1, <1>2
<1>4. Strip(b) = b
  BY <1>1, <1>3, KeepAll DEF Strip
<1>5. Keep(b, TurnItems \union Statements) = b
  BY <1>1, <1>3, KeepAll
<1>6. LastStated(b) = NoSettings
  BY <1>1, <1>3, StatedNone
<1>. QED BY <1>4, <1>5, <1>6 DEF b

(* At first both histories are empty, *)
LEMMA InitReplays == Init => Replays
<1>1. ASSUME Init PROVE Replays
  <2>1. \A t \in Turns : turn[t].pc = "idle"
    BY <1>1, AtFacts DEF Init
  <2>2. rollout = live
    BY <1>1 DEF Init
  <2>. QED BY <2>1, <2>2 DEF Replays
<1>. QED BY <1>1

(* Every step keeps the histories alike, or its race is noted. *)
LEMMA NextReplays ==
  ASSUME Types, Runs, Replays, [Next]_vars
  PROVE  Replays'
<1>0. /\ live.history \in Seq(Items) /\ rollout.history \in Seq(Items)
      /\ \A t \in Turns : turn[t].read \in Seq(Users)
      /\ <<>> \in Seq(Users)
  BY EmptySeq DEF Types, Memories, Histories, TurnRecords
<1>1. ASSUME StillReplacing, raced' = raced,
             Strip(live'.history) = Strip(live.history),
             Strip(rollout'.history) = Strip(rollout.history)
      PROVE  Replays'
  <2>1. CASE raced
    BY <1>1, <2>1 DEF Replays
  <2>2. CASE ~raced
    BY <1>1, <2>2, StillFacts DEF Replays, StillReplacing
  <2>. QED BY <2>1, <2>2
<1>2. ASSUME StillReplacing, NoteRace,
             Strip(live.history) = Strip(rollout.history)
               => Strip(live'.history) = Strip(rollout'.history)
      PROVE  Replays'
  <2>1. CASE raced \/ Replacing
    BY <1>2, <2>1 DEF Replays, NoteRace
  <2>2. CASE ~raced /\ ~Replacing
    <3>1. Strip(live'.history) = Strip(rollout'.history)
      BY <1>2, <2>2 DEF Replays
    <3>2. \A t \in Turns : turn'[t].pc # "replacing"
      BY <1>2, <2>2 DEF StillReplacing, Replacing
    <3>. QED BY <3>1, <3>2 DEF Replays
  <2>. QED BY <2>1, <2>2
<1>3. ASSUME NEW x \in Items, Record(x), StillReplacing PROVE Replays'
  <2>1. /\ live'.history = Append(live.history, x)
        /\ rollout'.history = Append(rollout.history, x)
    BY <1>3, Recorded
  <2>2. \A h \in Seq(Items) :
          Strip(Append(h, x)) = IF x \in Markers THEN Strip(h)
                                                 ELSE Append(Strip(h), x)
    BY StripAppend
  <2>3. Strip(live.history) = Strip(rollout.history)
          => Strip(live'.history) = Strip(rollout'.history)
    BY <1>0, <2>1, <2>2
  <2>. QED BY <1>2, <1>3, <2>3 DEF Record
<1>4. ASSUME NEW t \in Turns, NEW h \in Seq(Users)
      PROVE  Strip(BuildCompactedHistory(t, h)) = BuildCompactedHistory(t, h)
  BY BuiltKept
<1>11. ASSUME NEW k, NEW s, Start(k, s) PROVE Replays'
  <2>1. UNCHANGED <<live, rollout, raced>>
    BY <1>11 DEF Start, ghosts
  <2>. QED BY <1>1, <1>11, <2>1, Calm
<1>12. ASSUME NEW t \in Turns, RecordContext(t) PROVE Replays'
  <2>1. turn[t].settings \in Settings
    BY <1>12 DEF RecordContext, Runs
  <2>2. StillReplacing
    BY <1>12, Calm
  <2>3. CASE Record(Initial(turn[t].settings))
    BY <1>3, <2>1, <2>2, <2>3, ItemMembers
  <2>4. CASE Record(Update(turn[t].settings))
    BY <1>3, <2>1, <2>2, <2>4, ItemMembers
  <2>5. CASE UNCHANGED <<live, rollout, raced>>
    BY <1>1, <2>2, <2>5
  <2>. QED BY <1>12, <2>3, <2>4, <2>5 DEF RecordContext
<1>13. ASSUME NEW t \in Turns, PersistContext(t) PROVE Replays'
  <2>1. live' = live /\ rollout'.history = rollout.history /\ NoteRace
    BY <1>13 DEF PersistContext, ReplayTurnContext, Types, Memories
  <2>. QED BY <1>2, <1>13, <2>1, Calm
<1>14. ASSUME NEW t \in Turns, AdoptContext(t) PROVE Replays'
  <2>1. live'.history = live.history /\ rollout' = rollout /\ NoteRace
    BY <1>14 DEF AdoptContext, Types, Memories
  <2>. QED BY <1>2, <1>14, <2>1, Calm
<1>15. ASSUME NEW t \in Turns, RecordUser(t) PROVE Replays'
  BY <1>3, <1>15, Calm, ItemMembers DEF RecordUser
<1>16. ASSUME NEW t \in Turns,
              \/ BeginSampling(t) \/ CompleteTurn(t) \/ FailTurn(t)
              \/ CompactRead(t)
       PROVE  Replays'
  <2>1. UNCHANGED <<live, rollout, raced>>
    BY <1>16 DEF BeginSampling, CompleteTurn, FailTurn, CompactRead, ghosts
  <2>. QED BY <1>1, <1>16, <2>1, Calm
<1>17. ASSUME NEW t \in Turns, CompactPersist(t) PROVE Replays'
  <2>1. /\ rollout'.history = BuildCompactedHistory(t, turn[t].read)
        /\ NoteRace
        /\ GoTo(t, "replacing")
    BY <1>17 DEF CompactPersist, ReplayCompacted
  <2>2. CASE raced \/ Replacing
    BY <2>1, <2>2 DEF NoteRace, Replays
  <2>3. CASE ~raced /\ ~Replacing
    <3>1. \A u \in Turns : turn'[u].pc = "replacing" <=> u = t
      BY <2>1, <2>3, Went DEF Replacing
    <3>2. turn'[t].read = turn[t].read
      BY <2>1, Went
    <3>3. Strip(rollout'.history) = BuildCompactedHistory(t, turn'[t].read)
      BY <1>0, <1>4, <2>1, <3>2
    <3>. QED BY <3>1, <3>3 DEF Replays, Replacing, Built
  <2>. QED BY <2>2, <2>3
<1>18. ASSUME NEW t \in Turns, CompactReplace(t) PROVE Replays'
  <2>1. /\ turn[t].pc = "replacing"
        /\ rollout' = rollout
        /\ live'.history = Built(t)
        /\ raced' = raced
    BY <1>18 DEF CompactReplace, Built
  <2>2. \A u \in Turns : u # t => turn'[u] = turn[u]
    BY <1>18, Settled, Became DEF CompactReplace
  <2>3. turn'[t].pc # "replacing"
    <3>1. CASE Settle(t)
      BY <3>1, Settled, AtFacts
    <3>2. CASE turn' = [turn EXCEPT ![t] = At("sampling")]
      <4>1. turn'[t] = At("sampling")
        BY <3>2 DEF Types
      <4>. QED BY <4>1, AtFacts
    <3>3. Settle(t) \/ turn' = [turn EXCEPT ![t] = At("sampling")]
      <4>1. CASE turn[t].kind = "Regular"
        BY <1>18, <4>1 DEF CompactReplace
      <4>2. CASE turn[t].kind # "Regular"
        BY <1>18, <4>2 DEF CompactReplace
      <4>. QED BY <4>1, <4>2
    <3>. QED BY <3>1, <3>2, <3>3
  <2>4. CASE raced
    BY <2>1, <2>4 DEF Replays
  <2>5. CASE ~raced
    <3>1. /\ Strip(rollout.history) = Built(t)
          /\ \A u \in Turns : turn[u].pc = "replacing" => u = t
      BY <2>1, <2>5 DEF Replays
    <3>2. \A u \in Turns : turn'[u].pc # "replacing"
      BY <2>2, <2>3, <3>1
    <3>3. Strip(live'.history) = Built(t)
      BY <1>0, <1>4, <2>1 DEF Built
    <3>4. Strip(live'.history) = Strip(rollout'.history)
      BY <2>1, <3>1, <3>3
    <3>. QED BY <3>2, <3>4 DEF Replays
  <2>. QED BY <2>4, <2>5
<1>19. ASSUME NEW t \in Turns, CompactWithoutModel(t) PROVE Replays'
  <2>1. rollout'.history = live'.history /\ NoteRace
    BY <1>19 DEF CompactWithoutModel, ReplayCompacted
  <2>. QED BY <1>2, <1>19, <2>1, Calm
<1>20. ASSUME NEW t \in Turns, NEW c \in Calls, RecordCall(t, c)
       PROVE  Replays'
  BY <1>3, <1>20, Calm, ItemMembers DEF RecordCall
<1>21. ASSUME NEW c \in Calls, RecordOutput(c) PROVE Replays'
  BY <1>3, <1>21, Calm, ItemMembers DEF RecordOutput
<1>22. ASSUME Interrupt PROVE Replays'
  <2>1. UNCHANGED <<live, rollout, raced, turn>>
    BY <1>22 DEF Interrupt
  <2>. QED BY <1>1, <2>1, Calm
<1>23. ASSUME MarkAborted PROVE Replays'
  <2>1. stopping \in Turns /\ UNCHANGED <<live, turn, raced>>
    BY <1>23, Numbers DEF MarkAborted, ghosts
  <2>2. rollout'.history = Append(rollout.history, Marker(stopping))
    BY <1>23 DEF MarkAborted, RecordItem, Types, Memories
  <2>3. Marker(stopping) \in Items /\ Marker(stopping) \in Markers
    BY <2>1, ItemMembers, ItemFields DEF Markers
  <2>4. Strip(rollout'.history) = Strip(rollout.history)
    BY <1>0, <2>2, <2>3, StripAppend
  <2>. QED BY <1>1, <2>1, <2>4, Calm
<1>24. ASSUME NEW n \in Nat \ {0}, Rollback(n) PROVE Replays'
  <2>1. /\ live'.history = Rest(live.history, n)
        /\ rollout'.history = Rest(rollout.history, n)
    BY <1>24, RolledBack
  <2>2. \A h \in Seq(Items) : Strip(Rest(h, n)) = Rest(Strip(h), n)
    BY StripRest
  <2>3. Strip(live.history) = Strip(rollout.history)
          => Strip(live'.history) = Strip(rollout'.history)
    BY <1>0, <2>1, <2>2
  <2>4. UNCHANGED turn /\ NoteRace
    BY <1>24 DEF Rollback
  <2>. QED BY <1>2, <2>3, <2>4, Calm
<1>25. ASSUME Restart PROVE Replays'
  <2>1. live' = rollout'
    BY <1>25 DEF Restart
  <2>2. \A u \in Turns : turn'[u].pc # "replacing"
    <3>1. \A u \in Turns :
            turn'[u] = IF u <= last THEN At("settled") ELSE turn[u]
      BY <1>25 DEF Restart
    <3>. QED BY <3>1, AtFacts, Numbers DEF Runs
  <2>. QED BY <2>1, <2>2 DEF Replays
<1>26. CASE UNCHANGED vars
  <2>1. UNCHANGED <<live, rollout, raced, turn>>
    BY <1>26 DEF vars, ghosts
  <2>. QED BY <1>1, <2>1, Calm
<1>27. ASSUME LoadHistory PROVE Replays'
  <2>1. UNCHANGED <<live, rollout, raced>>
    BY <1>27 DEF LoadHistory, ghosts
  <2>. QED BY <1>1, <1>27, <2>1, Calm
<1>28. ASSUME NEW t \in Turns, StartCompact(t) PROVE Replays'
  <2>1. UNCHANGED <<live, rollout, raced>>
    BY <1>28 DEF StartCompact, ghosts
  <2>. QED BY <1>1, <1>28, <2>1, Calm
<1>29. ASSUME NEW t \in Turns, RecordContextMore(t) PROVE Replays'
  <2>1. turn[t].settings \in Settings
    BY <1>29 DEF RecordContextMore, Runs
  <2>. QED BY <1>3, <1>29, <2>1, Calm, ItemMembers DEF RecordContextMore
<1>. QED BY <1>11, <1>12, <1>13, <1>14, <1>15, <1>16, <1>17, <1>18, <1>19,
            <1>20, <1>21, <1>22, <1>23, <1>24, <1>25, <1>26, <1>27, <1>28,
            <1>29, DropsSome
         DEF Next

(* While no compaction was late, the turn that replaces is the active one. *)
LEMMA OneReplaces ==
  ASSUME Types, Runs, ~late
  PROVE  /\ \A t \in Turns : turn[t].pc = "replacing" => t = active
         /\ Replacing => active \in Turns /\ turn[active].pc = "replacing"
<1>1. \A t \in Turns : turn[t].pc = "replacing" => t = active
  BY DEF Runs
<1>. QED BY <1>1 DEF Replacing

(* and agree, *)
LEMMA InitFollows == Init => Follows
<1>1. ASSUME Init PROVE Follows
  <2>1. \A t \in Turns : turn[t].pc = "idle"
    BY <1>1, AtFacts DEF Init
  <2>2. rollout.history = <<>> /\ live.history = <<>>
    BY <1>1 DEF Init
  <2>3. Agrees(<<>>, <<>>)
    BY EmptySeq, AgreesSelf
  <2>. QED BY <2>1, <2>2, <2>3 DEF Follows
<1>. QED BY <1>1

(* Every step keeps what Follows says, or its compaction was late. *)
LEMMA NextFollows ==
  ASSUME Types, Runs, Prompts, Follows, [Next]_vars
  PROVE  Follows'
<1>0. /\ live.history \in Seq(Items) /\ rollout.history \in Seq(Items)
      /\ \A t \in Turns : turn[t].read \in Seq(Users)
      /\ <<>> \in Seq(Users)
      /\ late \in BOOLEAN
  BY EmptySeq DEF Types, Memories, Histories, TurnRecords
(* Nothing recorded. *)
<1>1. ASSUME StillReplacing, late => late',
             live'.history = live.history,
             rollout'.history = rollout.history,
             Replacing /\ ~late => rollout'.reference = rollout.reference
      PROVE  Follows'
  <2>1. CASE late'
    BY <2>1 DEF Follows
  <2>2. CASE ~late'
    <3>1. ~late
      BY <1>1, <2>2
    <3>2. ~Replacing' => Agrees(rollout'.history, live'.history)
      BY <1>1, <3>1, StillFacts DEF Follows
    <3>3. ASSUME NEW t \in Turns, turn'[t].pc = "replacing"
          PROVE  /\ Keep(rollout'.history, TurnItems \union Statements)
                      = Built(t)'
                 /\ rollout'.reference = NoSettings
      <4>1. turn[t].pc = "replacing" /\ Built(t)' = Built(t) /\ Replacing
        BY <1>1, <3>3, StillFacts DEF Replacing
      <4>. QED BY <1>1, <3>1, <4>1 DEF Follows
    <3>. QED BY <2>2, <3>2, <3>3 DEF Follows
  <2>. QED BY <2>1, <2>2
(* An item recorded in both: a tool's, if a compaction is being replaced. *)
<1>2. ASSUME NEW x \in Items, Record(x), StillReplacing, late' = late,
             x \notin Markers, x \in Loose => x \notin ToSet(rollout.history),
             Replacing /\ ~late => x \in Loose
      PROVE  Follows'
  <2>1. /\ live'.history = Append(live.history, x)
        /\ rollout'.history = Append(rollout.history, x)
        /\ rollout'.reference = rollout.reference
    BY <1>2, Recorded
  <2>2. CASE late
    BY <1>2, <2>2 DEF Follows
  <2>3. CASE ~late
    <3>1. ASSUME ~Replacing'
          PROVE  Agrees(rollout'.history, live'.history)
      <4>1. Agrees(rollout.history, live.history)
        BY <1>2, <2>3, <3>1, StillFacts DEF Follows
      <4>2. Agrees(Append(rollout.history, x), Append(live.history, x))
        BY <1>0, <1>2, <4>1, AgreesAppend
      <4>. QED BY <2>1, <4>2
    <3>2. ASSUME NEW t \in Turns, turn'[t].pc = "replacing"
          PROVE  /\ Keep(rollout'.history, TurnItems \union Statements)
                      = Built(t)'
                 /\ rollout'.reference = NoSettings
      <4>1. turn[t].pc = "replacing" /\ Built(t)' = Built(t) /\ Replacing
        BY <1>2, <3>2, StillFacts DEF Replacing
      <4>2. x \notin TurnItems \union Statements
        <5>1. x \in Loose
          BY <1>2, <2>3, <4>1
        <5>. QED BY <5>1, KindsApart
             DEF Statements, TurnItems, Loose, States, IsUserTurnBoundary
      <4>3. Keep(Append(rollout.history, x), TurnItems \union Statements)
              = Keep(rollout.history, TurnItems \union Statements)
        BY <1>0, <4>2, KeepAppend
      <4>. QED BY <2>1, <2>3, <4>1, <4>3 DEF Follows
    <3>. QED BY <1>2, <2>3, <3>1, <3>2 DEF Follows
  <2>. QED BY <2>2, <2>3
(* A turn being started is active, and no compaction is. *)
<1>3. ASSUME NEW t \in Turns, turn[t].pc \in Early, Replacing PROVE late
  <2>1. t = active
    BY <1>3 DEF Runs
  <2>2. CASE ~late
    BY <1>3, <2>1, <2>2, OneReplaces DEF Early
  <2>. QED BY <2>2
(* Both histories are the same, and no compaction is being replaced. *)
<1>4. ASSUME ~late' => ~Replacing',
             ~late' => Agrees(rollout'.history, live'.history)
      PROVE  Follows'
  <2>1. CASE late'
    BY <2>1 DEF Follows
  <2>2. CASE ~late'
    BY <1>4, <2>2 DEF Follows, Replacing
  <2>. QED BY <2>1, <2>2
<1>5. \A h \in Seq(Items) : Agrees(h, h)
  BY AgreesSelf
<1>11. ASSUME NEW k, NEW s, Start(k, s) PROVE Follows'
  <2>1. UNCHANGED <<live, rollout, late>>
    BY <1>11 DEF Start, ghosts
  <2>. QED BY <1>1, <1>11, <2>1, Calm
<1>12. ASSUME NEW t \in Turns, RecordContext(t) PROVE Follows'
  <2>1. turn[t].settings \in Settings /\ turn[t].pc = "starting"
        /\ late' = late
    BY <1>12 DEF RecordContext, Runs
  <2>2. StillReplacing
    BY <1>12, Calm
  <2>3. Replacing => late
    BY <1>3, <2>1 DEF Early
  <2>4. ASSUME NEW x \in {Initial(turn[t].settings),
                          Update(turn[t].settings)}, Record(x)
        PROVE  Follows'
    <3>1. x \in Items /\ x \notin Markers /\ x \notin Loose
      BY <2>1, ItemMembers, ItemFields DEF Markers, Loose
    <3>2. CASE late
      BY <2>1, <3>2 DEF Follows
    <3>3. CASE ~late
      BY <1>2, <2>1, <2>2, <2>3, <2>4, <3>1, <3>3
    <3>. QED BY <3>2, <3>3
  <2>5. CASE UNCHANGED <<live, rollout>>
    BY <1>1, <2>1, <2>2, <2>5
  <2>. QED BY <1>12, <2>4, <2>5 DEF RecordContext
<1>13. ASSUME NEW t \in Turns, PersistContext(t) PROVE Follows'
  <2>1. live' = live /\ rollout'.history = rollout.history /\ late' = late
    BY <1>13 DEF PersistContext, ReplayTurnContext, Types, Memories
  <2>2. Replacing => late
    BY <1>3, <1>13 DEF PersistContext, Early
  <2>. QED BY <1>1, <1>13, <2>1, <2>2, Calm
<1>14. ASSUME NEW t \in Turns, AdoptContext(t) PROVE Follows'
  <2>1. live'.history = live.history /\ rollout' = rollout /\ late' = late
    BY <1>14 DEF AdoptContext, Types, Memories
  <2>. QED BY <1>1, <1>14, <2>1, Calm
<1>15. ASSUME NEW t \in Turns, RecordUser(t) PROVE Follows'
  <2>1. /\ User(t) \in Items /\ User(t) \notin Markers
        /\ User(t) \notin Loose
    BY ItemMembers, ItemFields DEF Markers, Loose
  <2>2. Replacing => late
    BY <1>3, <1>15 DEF RecordUser, Early
  <2>3. Record(User(t)) /\ late' = late
    BY <1>15 DEF RecordUser
  <2>4. CASE late
    BY <2>3, <2>4 DEF Follows
  <2>5. CASE ~late
    BY <1>2, <1>15, <2>1, <2>2, <2>3, <2>5, Calm
  <2>. QED BY <2>4, <2>5
<1>16. ASSUME NEW t \in Turns,
              \/ BeginSampling(t) \/ CompleteTurn(t) \/ FailTurn(t)
              \/ CompactRead(t)
       PROVE  Follows'
  <2>1. UNCHANGED <<live, rollout>> /\ (late => late')
    BY <1>16 DEF BeginSampling, CompleteTurn, FailTurn, CompactRead, ghosts
  <2>. QED BY <1>1, <1>16, <2>1, Calm
<1>17. ASSUME NEW t \in Turns, CompactPersist(t) PROVE Follows'
  <2>1. /\ rollout'.history = Built(t) /\ rollout'.reference = NoSettings
        /\ GoTo(t, "replacing") /\ turn[t].pc = "summarizing"
        /\ late' = (late \/ t \in interrupted)
    BY <1>17 DEF CompactPersist, ReplayCompacted, Built
  <2>2. CASE late'
    BY <2>2 DEF Follows
  <2>3. CASE ~late'
    <3>1. ~late /\ t \notin interrupted
      BY <2>1, <2>3
    <3>2. t = active
      BY <2>1, <3>1 DEF Runs
    <3>3. \A u \in Turns : turn'[u].pc = "replacing" <=> u = t
      BY <2>1, <3>1, <3>2, Went, OneReplaces
    <3>4. Built(t)' = Built(t)
      BY <2>1, Went DEF Built
    <3>5. Keep(Built(t), TurnItems \union Statements) = Built(t)
      BY <1>0, BuiltKept DEF Built
    <3>6. Replacing'
      BY <3>3 DEF Replacing
    <3>. QED BY <2>1, <3>3, <3>4, <3>5, <3>6 DEF Follows
  <2>. QED BY <2>2, <2>3
<1>18. ASSUME NEW t \in Turns, CompactReplace(t) PROVE Follows'
  <2>1. /\ turn[t].pc = "replacing"
        /\ rollout' = rollout
        /\ live'.history = Built(t)
        /\ late' = late
    BY <1>18 DEF CompactReplace, Built
  <2>2. Settle(t) \/ turn' = [turn EXCEPT ![t] = At("sampling")]
    <3>1. CASE turn[t].kind = "Regular"
      BY <1>18, <3>1 DEF CompactReplace
    <3>2. CASE turn[t].kind # "Regular"
      BY <1>18, <3>2 DEF CompactReplace
    <3>. QED BY <3>1, <3>2
  <2>3. PICK pc \in {"settled", "sampling"} :
          turn' = [turn EXCEPT ![t] = At(pc)]
    BY <2>2 DEF Settle
  <2>4. \A u \in Turns : turn'[u] = IF u = t THEN At(pc) ELSE turn[u]
    BY <2>3, Became
  <2>5. CASE late
    BY <2>1, <2>5 DEF Follows
  <2>6. CASE ~late
    <3>1. \A u \in Turns : turn[u].pc = "replacing" => u = t
      BY <2>1, <2>6, OneReplaces
    <3>2. At(pc).pc # "replacing"
      BY <2>3, AtFacts
    <3>3. ~Replacing'
      BY <2>4, <3>1, <3>2 DEF Replacing
    <3>4. Keep(rollout.history, TurnItems \union Statements) = Built(t)
      BY <2>1, <2>6 DEF Follows
    <3>5. Built(t) \in Seq(Items) /\ ToSet(Built(t)) \subseteq TurnItems
      BY <1>0, BuiltFacts DEF Built
    <3>6. Agrees(rollout.history, Built(t))
      BY <1>0, <3>4, <3>5, AgreesBuilt
    <3>. QED BY <1>4, <2>1, <3>3, <3>6
  <2>. QED BY <2>5, <2>6
<1>19. ASSUME NEW t \in Turns, CompactWithoutModel(t) PROVE Follows'
  <2>1. /\ rollout'.history = live'.history
        /\ live'.history = BuildCompactedHistory(t, <<>>)
        /\ turn[t].pc = "setup"
        /\ late' = (late \/ t \in interrupted)
    BY <1>19 DEF CompactWithoutModel, ReplayCompacted
  <2>2. BuildCompactedHistory(t, <<>>) \in Seq(Items)
    BY <1>0, BuiltFacts
  <2>3. ASSUME ~late' PROVE ~Replacing'
    <3>1. ~late /\ t \notin interrupted
      BY <2>1, <2>3
    <3>2. t = active
      BY <2>1, <3>1 DEF Runs
    <3>3. ~Replacing
      BY <2>1, <3>1, <3>2, OneReplaces
    <3>. QED BY <1>19, <3>3, StillFacts, Calm
  <2>. QED BY <1>4, <1>5, <2>1, <2>2, <2>3
<1>20. ASSUME NEW t \in Turns, NEW c \in Calls, RecordCall(t, c)
       PROVE  Follows'
  <2>1. /\ Record(Call(c)) /\ late' = late /\ UNCHANGED turn
        /\ call[c].state = "none"
    BY <1>20 DEF RecordCall
  <2>2. /\ Call(c) \in Items /\ Call(c) \notin Markers /\ Call(c) \in Loose
    BY ItemMembers, ItemFields DEF Markers, Loose
  <2>3. Call(c) \notin ToSet(rollout.history)
    BY <2>1 DEF Prompts, Issued
  <2>. QED BY <1>2, <2>1, <2>2, <2>3, Calm
<1>21. ASSUME NEW c \in Calls, RecordOutput(c) PROVE Follows'
  <2>1. /\ Record(Output(c)) /\ late' = late /\ UNCHANGED turn
        /\ call[c].state = "running"
    BY <1>21 DEF RecordOutput
  <2>2. /\ Output(c) \in Items /\ Output(c) \notin Markers
        /\ Output(c) \in Loose
    BY ItemMembers, ItemFields DEF Markers, Loose
  <2>3. Output(c) \notin ToSet(rollout.history)
    BY <2>1 DEF Prompts, Issued
  <2>. QED BY <1>2, <2>1, <2>2, <2>3, Calm
<1>22. ASSUME Interrupt PROVE Follows'
  <2>1. UNCHANGED <<live, rollout, turn>> /\ (late => late')
    BY <1>22 DEF Interrupt
  <2>. QED BY <1>1, <2>1, Calm
<1>23. ASSUME MarkAborted PROVE Follows'
  <2>1. stopping \in Turns /\ UNCHANGED <<live, turn, late>>
    BY <1>23, Numbers DEF MarkAborted, ghosts
  <2>2. /\ rollout'.history = Append(rollout.history, Marker(stopping))
        /\ rollout'.reference = rollout.reference
    BY <1>23 DEF MarkAborted, RecordItem, Types, Memories
  <2>3. Marker(stopping) \in Items /\ Marker(stopping) \in Markers
        /\ Marker(stopping) \notin TurnItems \union Statements
    BY <2>1, ItemMembers, ItemFields
       DEF Markers, TurnItems, IsUserTurnBoundary, Statements, States
  <2>4. CASE late
    BY <2>1, <2>4 DEF Follows
  <2>5. CASE ~late
    <3>1. /\ Replacing' <=> Replacing
          /\ \A t \in Turns : turn'[t].pc = "replacing"
               => turn[t].pc = "replacing" /\ Built(t)' = Built(t)
      BY <2>1 DEF Replacing, Built
    <3>2. Agrees(rollout.history, live.history)
            => Agrees(rollout'.history, live'.history)
      BY <1>0, <2>1, <2>2, <2>3, AgreesMarker
    <3>3. Keep(rollout'.history, TurnItems \union Statements)
            = Keep(rollout.history, TurnItems \union Statements)
      BY <1>0, <2>2, <2>3, KeepAppend
    <3>. QED BY <2>1, <2>2, <2>5, <3>1, <3>2, <3>3 DEF Follows
  <2>. QED BY <2>4, <2>5
<1>24. ASSUME NEW n \in Nat \ {0}, Rollback(n) PROVE Follows'
  <2>1. /\ live'.history = Rest(live.history, n)
        /\ rollout'.history = Rest(rollout.history, n)
    BY <1>24, RolledBack
  <2>2. UNCHANGED <<turn, late>> /\ active = 0
    BY <1>24 DEF Rollback
  <2>3. ASSUME ~late
        PROVE  /\ ~Replacing'
               /\ Agrees(rollout'.history, live'.history)
    <3>1. ~Replacing
      BY <2>2, <2>3, OneReplaces, Numbers
    <3>2. ~Replacing'
      BY <2>2, <3>1 DEF Replacing
    <3>3. Agrees(rollout.history, live.history)
      BY <2>3, <3>1 DEF Follows
    <3>4. Agrees(Rest(rollout.history, n), Rest(live.history, n))
      BY <1>0, <3>3, AgreesRest
    <3>. QED BY <2>1, <3>2, <3>4
  <2>. QED BY <1>4, <2>2, <2>3
<1>25. ASSUME Restart PROVE Follows'
  <2>1. live' = rollout /\ rollout' = rollout
    BY <1>25 DEF Restart
  <2>2. \A u \in Turns : turn'[u].pc # "replacing"
    <3>1. \A u \in Turns :
            turn'[u] = IF u <= last THEN At("settled") ELSE turn[u]
      BY <1>25 DEF Restart
    <3>. QED BY <3>1, AtFacts, Numbers DEF Runs
  <2>. QED BY <1>0, <1>4, <1>5, <2>1, <2>2 DEF Replacing
<1>26. CASE UNCHANGED vars
  <2>1. UNCHANGED <<live, rollout, late, turn>>
    BY <1>26 DEF vars, ghosts
  <2>. QED BY <1>1, <2>1, Calm
<1>27. ASSUME LoadHistory PROVE Follows'
  <2>1. UNCHANGED <<live, rollout, late>>
    BY <1>27 DEF LoadHistory, ghosts
  <2>. QED BY <1>1, <1>27, <2>1, Calm
<1>28. ASSUME NEW t \in Turns, StartCompact(t) PROVE Follows'
  <2>1. UNCHANGED <<live, rollout, late>>
    BY <1>28 DEF StartCompact, ghosts
  <2>. QED BY <1>1, <1>28, <2>1, Calm
<1>29. ASSUME NEW t \in Turns, RecordContextMore(t) PROVE Follows'
  <2>1. /\ turn[t].settings \in Settings /\ late' = late
        /\ Record(Update(turn[t].settings))
    BY <1>29 DEF RecordContextMore, Runs
  <2>2. /\ Update(turn[t].settings) \in Items
        /\ Update(turn[t].settings) \notin Markers
        /\ Update(turn[t].settings) \notin Loose
    BY <2>1, ItemMembers, ItemFields DEF Markers, Loose
  <2>3. Replacing => late
    BY <1>3, <1>29 DEF RecordContextMore, Early
  <2>4. CASE late
    BY <2>1, <2>4 DEF Follows
  <2>5. CASE ~late
    BY <1>2, <1>29, <2>1, <2>2, <2>3, <2>5, Calm
  <2>. QED BY <2>4, <2>5
<1>. QED BY <1>11, <1>12, <1>13, <1>14, <1>15, <1>16, <1>17, <1>18, <1>19,
            <1>20, <1>21, <1>22, <1>23, <1>24, <1>25, <1>26, <1>27, <1>28,
            <1>29, DropsSome
         DEF Next

-----------------------------------------------------------------------------
(* UserMessagesKept: what the user said. *)

(* The user messages of history h are those of the turns in ts, in their   *)
(* order.                                                                  *)
Holds(h, ts) ==
  /\ \A t \in Turns : User(t) \in ToSet(h) <=> t \in ts
  /\ Ordered(h)

(* While no compaction was late: what the user said is in the rollout, in  *)
(* what a compaction is about to put into the live history and, before it  *)
(* begins and once it has, in the live history, which meanwhile has more;  *)
(* and the active turn's compaction has read what of it has text.          *)
Spoken ==
  ~late =>
    /\ Holds(rollout.history, said)
    /\ ~Replacing => Holds(live.history, said)
    /\ \A t \in Turns :
         /\ t \in said => User(t) \in ToSet(live.history)
         /\ t = active /\ turn[t].pc = "summarizing"
              => Holds(turn[t].read, said \intersect Texts)
         /\ turn[t].pc = "replacing" => Holds(Built(t), said)

(* The active turn reads nothing new. *)
NoNewRead ==
  \A t \in Turns :
    t = active' /\ turn'[t].pc = "summarizing"
      => /\ t = active /\ turn[t].pc = "summarizing"
         /\ turn'[t].read = turn[t].read

(* User messages, by their constructor. *)
LEMMA UserIs ==
  /\ \A t \in Turns : User(t) \in Users /\ User(t) \in Items
  /\ \A x \in Users : x \in Items /\ \E t \in Turns : x = User(t)
  /\ \A t, u : User(t) = User(u) => t = u
<1>1. \A t \in Turns : User(t) \in Users /\ User(t) \in Items
  BY ItemMembers, ItemFields DEF Users
<1>2. \A x \in Users : x \in Items /\ \E t \in Turns : x = User(t)
  BY ItemKinds DEF Users
<1>3. \A t, u : User(t) = User(u) => t = u
  BY ItemFields
<1>. QED BY <1>1, <1>2, <1>3

(* A message recorded is held. *)
LEMMA HoldsAppend ==
  ASSUME NEW h \in Seq(Items), NEW x \in Items, NEW ts, Holds(h, ts)
  PROVE  /\ x \notin Users => Holds(Append(h, x), ts)
         /\ \A t \in Turns : x = User(t) /\ (\A u \in ts : u < t)
              => Holds(Append(h, x), ts \union {t})
<1>1. ToSet(Append(h, x)) = ToSet(h) \union {x}
  BY ToSetAppend
<1>2. ASSUME x \notin Users PROVE Holds(Append(h, x), ts)
  <2>1. \A t \in Turns : x # User(t)
    BY <1>2, UserIs
  <2>2. Ordered(Append(h, x))
    BY <2>1, OrderedAppend DEF Holds
  <2>. QED BY <1>1, <2>1, <2>2 DEF Holds
<1>3. ASSUME NEW t \in Turns, x = User(t), \A u \in ts : u < t
      PROVE  Holds(Append(h, x), ts \union {t})
  <2>1. \A u \in Turns : x = User(u) => u = t
    BY <1>3, UserIs
  <2>2. Ordered(Append(h, x))
    BY <1>3, <2>1, OrderedAppend DEF Holds
  <2>. QED BY <1>1, <1>3, <2>1, <2>2 DEF Holds
<1>. QED BY <1>2, <1>3

(* A compaction builds a history of the most recent it has read. *)
LEMMA HoldsBuilt ==
  ASSUME NEW t \in Turns, NEW users \in Seq(Users), NEW ts,
         ts \subseteq Turns, Holds(users, ts \intersect Texts)
  PROVE  Holds(BuildCompactedHistory(t, users), Recent(ts))
<1>1. /\ Ordered(BuildCompactedHistory(t, users))
      /\ \A u \in Turns :
           User(u) \in ToSet(BuildCompactedHistory(t, users))
             <=> /\ User(u) \in ToSet(users)
                 /\ {v \in Turns : v > u /\ User(v) \in ToSet(users)} \in Room
  BY BuiltFacts DEF Holds
<1>2. \A u \in Turns : User(u) \in ToSet(users) <=> u \in ts \intersect Texts
  BY DEF Holds
<1>3. \A u \in Turns : {v \in Turns : v > u /\ User(v) \in ToSet(users)}
                        = {v \in ts \intersect Texts : v > u}
  BY <1>2
<1>4. \A u \in Turns :
        User(u) \in ToSet(BuildCompactedHistory(t, users)) <=> u \in Recent(ts)
  BY <1>1, <1>2, <1>3 DEF Recent
<1>. QED BY <1>1, <1>4 DEF Holds

(* It reads those of the history that have text, which a prompt carries. *)
LEMMA HoldsRead ==
  ASSUME NEW h \in Seq(Items), Sound(h), NEW ts, Holds(h, ts)
  PROVE  Holds(CollectUserMessages(ForPrompt(h)), ts \intersect Texts)
<1>. DEFINE K == {item \in Users : item.id \in Texts}
<1>1. K \subseteq NotOutputs
  BY DEF Users, NotOutputs
<1>2. Keep(ForPrompt(h), K) = Keep(h, K)
  <2>1. /\ ForPrompt(h) \in Seq(Items)
        /\ Keep(ForPrompt(h), NotOutputs) = Keep(h, NotOutputs)
    BY ForPromptType, PromptFacts DEF Sound
  <2>2. NotOutputs \intersect K = K
    BY <1>1
  <2>. HIDE DEF K
  <2>3. /\ Keep(Keep(ForPrompt(h), NotOutputs), K) = Keep(ForPrompt(h), K)
        /\ Keep(Keep(h, NotOutputs), K) = Keep(h, K)
    BY <2>1, <2>2, KeepAgain
  <2>. QED BY <2>1, <2>3
<1>3. ToSet(Keep(h, K)) = ToSet(h) \intersect K
  BY KeepRange
<1>4. Ordered(Keep(h, K))
  BY OrderedKeep DEF Holds
<1>5. \A t \in Turns : User(t) \in K <=> t \in Texts
  BY UserIs, ItemFields
<1>6. \A t \in Turns :
        User(t) \in ToSet(Keep(h, K)) <=> t \in ts \intersect Texts
  BY <1>3, <1>5 DEF Holds
<1>. QED BY <1>2, <1>4, <1>6 DEF Holds, CollectUserMessages

(* A message rolled back is not. *)
LEMMA HoldsRest ==
  ASSUME NEW h \in Seq(Items), NEW n \in Nat \ {0}, NEW ts, Holds(h, ts)
  PROVE  Holds(Rest(h, n),
               ts \ {item.id : item \in ToSet(UsersIn(Dropped(h, n)))})
<1>1. {item.id : item \in ToSet(UsersIn(Dropped(h, n)))}
        = {t \in Turns : User(t) \in ToSet(Dropped(h, n))}
  BY DroppedIs, UserIds
<1>2. Once(h, Users)
  BY OrderedOnce DEF Holds
<1>3. \A x \in Users : x \in ToSet(Rest(h, n))
        <=> x \in ToSet(h) /\ x \notin ToSet(Dropped(h, n))
  BY <1>2, RestDrops
<1>4. Ordered(Rest(h, n))
  BY RestInOrder DEF Holds
<1>. QED BY <1>1, <1>3, <1>4, UserIs DEF Holds

(* Histories that agree hold the same messages. *)
LEMMA HoldsAgrees ==
  ASSUME NEW h \in Seq(Items), NEW g \in Seq(Items), Agrees(h, g),
         NEW ts, Holds(g, ts)
  PROVE  Holds(h, ts)
<1>1. \A t \in Turns : User(t) \in ToSet(h) <=> User(t) \in ToSet(g)
  BY AgreesUsers, UserIs
<1>2. \A t, u \in Turns :
        Precedes(h, User(t), User(u)) => Precedes(g, User(t), User(u))
  BY AgreesUsers, UserIs
<1>. QED BY <1>1, <1>2 DEF Holds, Ordered

(* The empty history holds none. *)
LEMMA HoldsNone == Holds(<<>>, {})
<1>1. ToSet(<<>>) = {} /\ \A x, y : ~Precedes(<<>>, x, y)
  BY ToSetEmpty DEF Precedes
<1>. QED BY <1>1 DEF Holds, Ordered

(* and hold no message, *)
LEMMA InitSpoken == Init => Spoken
<1>1. ASSUME Init PROVE Spoken
  <2>1. \A t \in Turns : turn[t].pc = "idle"
    BY <1>1, AtFacts DEF Init
  <2>2. rollout.history = <<>> /\ live.history = <<>> /\ said = {}
    BY <1>1 DEF Init
  <2>. QED BY <2>1, <2>2, HoldsNone DEF Spoken
<1>. QED BY <1>1

(* Every step keeps what the user said, or its compaction was late. *)
LEMMA NextSpoken ==
  ASSUME Types, Runs, Prompts, Follows, Spoken, [Next]_vars
  PROVE  Spoken'
<1>0. /\ live.history \in Seq(Items) /\ rollout.history \in Seq(Items)
      /\ \A t \in Turns : turn[t].read \in Seq(Users)
      /\ <<>> \in Seq(Users)
      /\ late \in BOOLEAN
  BY EmptySeq DEF Types, Memories, Histories, TurnRecords
(* Nothing said and nothing recorded. *)
<1>1. ASSUME NoNewRead, StillReplacing, late => late', said' = said,
             live'.history = live.history,
             rollout'.history = rollout.history
      PROVE  Spoken'
  <2>1. CASE late'
    BY <2>1 DEF Spoken
  <2>2. CASE ~late'
    <3>1. ~late
      BY <1>1, <2>2
    <3>. QED BY <1>1, <2>2, <3>1, StillFacts DEF Spoken, NoNewRead
  <2>. QED BY <2>1, <2>2
<1>2. ASSUME NEW x \in Items, x \notin Users, Record(x), NoNewRead,
             StillReplacing, late' = late, said' = said
      PROVE  Spoken'
  <2>1. /\ live'.history = Append(live.history, x)
        /\ rollout'.history = Append(rollout.history, x)
    BY <1>2, Recorded
  <2>2. CASE late
    BY <1>2, <2>2 DEF Spoken
  <2>3. CASE ~late
    <3>1. \A h \in Seq(Items) : Holds(h, said) => Holds(Append(h, x), said)
      BY <1>2, HoldsAppend
    <3>2. /\ Holds(rollout'.history, said)
          /\ ~Replacing => Holds(live'.history, said)
      BY <1>0, <2>1, <2>3, <3>1 DEF Spoken
    <3>3. \A t \in Turns : t \in said => User(t) \in ToSet(live'.history)
      BY <1>0, <2>1, <2>3, ToSetAppend DEF Spoken
    <3>. QED BY <1>2, <2>3, <3>2, <3>3, StillFacts DEF Spoken, NoNewRead
  <2>. QED BY <2>2, <2>3
(* No compaction is under way afterwards. *)
<1>3. ASSUME ~late' => Holds(live'.history, said')
                       /\ Holds(rollout'.history, said') /\ ~Replacing',
             \A t \in Turns : t = active' => turn'[t].pc # "summarizing"
      PROVE  Spoken'
  <2>1. CASE late'
    BY <2>1 DEF Spoken
  <2>2. CASE ~late'
    <3>1. \A t \in Turns : t \in said' => User(t) \in ToSet(live'.history)
      BY <1>3, <2>2 DEF Holds
    <3>2. \A t \in Turns : turn'[t].pc # "replacing"
      BY <1>3, <2>2 DEF Replacing
    <3>. QED BY <1>3, <2>2, <3>1, <3>2 DEF Spoken
  <2>. QED BY <2>1, <2>2
<1>4. UNCHANGED <<active, turn>> => NoNewRead
  BY DEF NoNewRead
<1>5. ASSUME NEW t \in Turns, active' = active, turn'[t].pc # "summarizing",
             \A u \in Turns : u # t => turn'[u] = turn[u]
      PROVE  NoNewRead
  BY <1>5 DEF NoNewRead
<1>6. ASSUME NEW t \in Turns, Settle(t) PROVE NoNewRead
  <2>1. /\ \A u \in Turns :
             turn'[u] = IF u = t THEN At("settled") ELSE turn[u]
        /\ active' = IF active = t THEN 0 ELSE active
    BY <1>6, Settled
  <2>. QED BY <2>1, AtFacts, Numbers DEF NoNewRead
<1>7. ASSUME NEW t \in Turns, NEW pc, GoTo(t, pc), active' = active,
             pc # "summarizing"
      PROVE  NoNewRead
  BY <1>5, <1>7, Went
<1>9. ASSUME NEW t \in Turns, NEW pc, turn' = [turn EXCEPT ![t] = At(pc)],
             active' = active, pc # "summarizing"
      PROVE  NoNewRead
  <2>1. \A u \in Turns : turn'[u] = IF u = t THEN At(pc) ELSE turn[u]
    BY <1>9, Became
  <2>. QED BY <1>5, <1>9, <2>1, AtFacts
<1>8. ASSUME NEW t \in Turns, turn[t].pc \notin Early \union {"replacing"},
             turn[t].pc \notin {"idle", "settled", "loading"},
             ~late, t \notin interrupted
      PROVE  t = active /\ ~Replacing /\ said \subseteq Turns
  <2>1. t = active
    BY <1>8 DEF Runs
  <2>. QED BY <1>8, <2>1, OneReplaces, Numbers
<1>11. ASSUME NEW k, NEW s, Start(k, s) PROVE Spoken'
  <2>1. UNCHANGED <<live, rollout, late, said>> /\ active' = last + 1
        /\ last + 1 \in Turns
    BY <1>11, Numbers DEF Start, CanStart, ghosts
  <2>2. turn' = [turn EXCEPT ![last + 1] =
                   IF k = "Regular"
                   THEN [At("starting") EXCEPT !.settings = s]
                   ELSE [At("setup") EXCEPT !.kind = k]]
    BY <1>11, <2>1 DEF Start
  <2>3. /\ [At("starting") EXCEPT !.settings = s].pc = "starting"
        /\ [At("setup") EXCEPT !.kind = k].pc = "setup"
    BY DEF At
  <2>4. turn'[last + 1] = IF k = "Regular"
                          THEN [At("starting") EXCEPT !.settings = s]
                          ELSE [At("setup") EXCEPT !.kind = k]
    BY <2>1, <2>2 DEF Types
  <2>5. turn'[last + 1].pc \in {"starting", "setup"}
    BY <2>3, <2>4
  <2>6. NoNewRead
    BY <2>1, <2>5 DEF NoNewRead
  <2>. QED BY <1>1, <1>11, <2>1, <2>6, Calm
<1>12. ASSUME NEW t \in Turns, RecordContext(t) \/ RecordContextMore(t)
       PROVE  Spoken'
  <2>1. /\ turn[t].settings \in Settings /\ late' = late /\ said' = said
        /\ active' = active
    BY <1>12 DEF RecordContext, RecordContextMore, Runs
  <2>2. NoNewRead /\ StillReplacing
    <3>1. PICK pc \in {"stating", "context"} : GoTo(t, pc)
      BY <1>12 DEF RecordContext, RecordContextMore
    <3>. QED BY <1>7, <1>12, <2>1, <3>1, Calm
  <2>3. \A x \in {Initial(turn[t].settings), Update(turn[t].settings)} :
          x \in Items /\ x \notin Users
    BY <2>1, ItemMembers, ItemFields DEF Users
  <2>4. CASE Record(Initial(turn[t].settings))
    BY <1>2, <2>1, <2>2, <2>3, <2>4
  <2>5. CASE Record(Update(turn[t].settings))
    BY <1>2, <2>1, <2>2, <2>3, <2>5
  <2>6. CASE UNCHANGED <<live, rollout>>
    BY <1>1, <2>1, <2>2, <2>6
  <2>. QED BY <1>12, <2>4, <2>5, <2>6 DEF RecordContext, RecordContextMore
<1>13. ASSUME NEW t \in Turns, PersistContext(t) PROVE Spoken'
  <2>1. /\ live' = live /\ rollout'.history = rollout.history
        /\ UNCHANGED <<late, said, active>> /\ GoTo(t, "adopting")
    BY <1>13 DEF PersistContext, ReplayTurnContext, Types, Memories
  <2>. QED BY <1>1, <1>7, <1>13, <2>1, Calm
<1>14. ASSUME NEW t \in Turns, AdoptContext(t) PROVE Spoken'
  <2>1. /\ live'.history = live.history /\ rollout' = rollout
        /\ UNCHANGED <<late, said, active>>
        /\ turn' = [turn EXCEPT ![t] = At("prompted")]
    BY <1>14 DEF AdoptContext, Types, Memories
  <2>2. NoNewRead
    BY <1>9, <2>1
  <2>. QED BY <1>1, <1>14, <2>1, <2>2, Calm
<1>15. ASSUME NEW t \in Turns, RecordUser(t) PROVE Spoken'
  <2>1. /\ Record(User(t)) /\ said' = said \union {t}
        /\ turn[t].pc = "prompted" /\ turn'[t].pc = "setup"
        /\ \A u \in Turns : u # t => turn'[u] = turn[u]
        /\ UNCHANGED <<late, active>>
    BY <1>15, WentOn DEF RecordUser
  <2>2. /\ live'.history = Append(live.history, User(t))
        /\ rollout'.history = Append(rollout.history, User(t))
    BY <2>1, UserIs, Recorded
  <2>3. /\ t = active /\ t = last
        /\ \A u \in said : u < t
    <3>1. t = active /\ t \notin said
      BY <2>1 DEF Runs, Early
    <3>2. t = last
      BY <3>1, Numbers DEF Runs
    <3>. QED BY <3>1, <3>2, Numbers DEF Types
  <2>4. CASE late
    BY <2>1, <2>4 DEF Spoken
  <2>5. CASE ~late
    <3>1. \A h \in Seq(Items) : Holds(h, said)
            => Holds(Append(h, User(t)), said \union {t})
      BY <2>3, HoldsAppend, UserIs
    <3>2. ~Replacing
      BY <2>1, <2>3, <2>5, OneReplaces
    <3>3. Holds(live'.history, said') /\ Holds(rollout'.history, said')
      BY <1>0, <2>1, <2>2, <2>5, <3>1, <3>2 DEF Spoken
    <3>4. ~Replacing'
      BY <1>15, <3>2, Calm, StillFacts
    <3>. QED BY <1>3, <2>1, <2>3, <3>3, <3>4
  <2>. QED BY <2>4, <2>5
<1>16. ASSUME NEW t \in Turns, BeginSampling(t) PROVE Spoken'
  <2>1. /\ UNCHANGED <<live, rollout, late, said, active>>
        /\ turn' = [turn EXCEPT ![t] = At("sampling")]
    BY <1>16 DEF BeginSampling, ghosts
  <2>2. NoNewRead
    BY <1>9, <2>1
  <2>. QED BY <1>1, <1>16, <2>1, <2>2, Calm
<1>17. ASSUME NEW t \in Turns, CompleteTurn(t) \/ FailTurn(t) PROVE Spoken'
  <2>1. UNCHANGED <<live, rollout, late, said>> /\ Settle(t)
    BY <1>17 DEF CompleteTurn, FailTurn
  <2>. QED BY <1>1, <1>6, <1>17, <2>1, Calm
<1>18. ASSUME NEW t \in Turns, CompactRead(t) PROVE Spoken'
  <2>. DEFINE users == CollectUserMessages(ForPrompt(live.history))
  <2>1. UNCHANGED <<live, rollout, said, active>> /\ (late => late')
    BY <1>18 DEF CompactRead, ghosts
  <2>2. /\ turn[t].pc = "setup" /\ turn'[t].pc = "summarizing"
        /\ \A u \in Turns : u # t => turn'[u] = turn[u]
    BY <1>18, WentOn
  <2>3. CASE late'
    BY <2>1, <2>3 DEF Spoken
  <2>4. CASE ~late'
    <3>1. turn'[t].read = users
      <4>1. CASE ForPrompt(live.history) # <<>>
        BY <1>18, <4>1 DEF CompactRead, Types, TurnRecords
      <4>2. CASE ForPrompt(live.history) = <<>>
        <5>1. GoTo(t, "summarizing") /\ turn[t].read = <<>>
          BY <1>18, <2>4, <4>2 DEF CompactRead
        <5>2. users = <<>>
          BY <4>2, KeepEmpty DEF CollectUserMessages
        <5>. QED BY <5>1, <5>2, Went
      <4>. QED BY <4>1, <4>2
    <3>2. ~late
      BY <2>1, <2>4
    <3>. HIDE DEF users
    <3>3. ASSUME t = active PROVE Holds(users, said \intersect Texts)
      <4>1. ~Replacing
        BY <2>2, <3>2, <3>3, OneReplaces
      <4>. QED BY <1>0, <3>2, <4>1, HoldsRead DEF Spoken, Prompts, users
    <3>4. StillReplacing
      BY <1>18, Calm
    <3>. QED BY <2>1, <2>2, <3>1, <3>2, <3>3, <3>4, StillFacts DEF Spoken
  <2>. QED BY <2>3, <2>4
<1>19. ASSUME NEW t \in Turns, CompactPersist(t) PROVE Spoken'
  <2>1. /\ rollout'.history = Built(t)
        /\ live' = live
        /\ GoTo(t, "replacing") /\ turn[t].pc = "summarizing"
        /\ late' = (late \/ t \in interrupted)
        /\ said' = Recent(said) /\ UNCHANGED active
    BY <1>19 DEF CompactPersist, ReplayCompacted, Built
  <2>2. CASE late'
    BY <2>2 DEF Spoken
  <2>3. CASE ~late'
    <3>1. ~late /\ t \notin interrupted
      BY <2>1, <2>3
    <3>2. t = active /\ ~Replacing /\ said \subseteq Turns
      BY <1>8, <2>1, <3>1 DEF Early
    <3>3. Holds(turn[t].read, said \intersect Texts)
      BY <2>1, <3>1, <3>2 DEF Spoken
    <3>4. Holds(Built(t), said')
      BY <1>0, <2>1, <3>2, <3>3, HoldsBuilt DEF Built
    <3>5. Built(t)' = Built(t)
      BY <2>1, Went DEF Built
    <3>6. \A u \in Turns : u # t => turn'[u].pc # "replacing"
      BY <2>1, <3>2, Went DEF Replacing
    <3>7. turn'[t].pc = "replacing"
      BY <2>1, Went
    <3>8. \A u \in Turns : u \in said' => User(u) \in ToSet(live.history)
      BY <2>1, <3>1, RecentSome DEF Spoken
    <3>9. Replacing'
      BY <3>7 DEF Replacing
    <3>. QED BY <2>1, <3>2, <3>4, <3>5, <3>6, <3>7, <3>8, <3>9 DEF Spoken
  <2>. QED BY <2>2, <2>3
<1>20. ASSUME NEW t \in Turns, CompactReplace(t) PROVE Spoken'
  <2>1. /\ live'.history = Built(t)
        /\ rollout' = rollout
        /\ turn[t].pc = "replacing"
        /\ UNCHANGED <<said, late>>
    BY <1>20 DEF CompactReplace, Built
  <2>2. PICK pc \in {"settled", "sampling"} :
          turn' = [turn EXCEPT ![t] = At(pc)]
    <3>1. CASE turn[t].kind = "Regular"
      BY <1>20, <3>1 DEF CompactReplace
    <3>2. CASE turn[t].kind # "Regular"
      BY <1>20, <3>2 DEF CompactReplace, Settle
    <3>. QED BY <3>1, <3>2
  <2>3. \A u \in Turns : turn'[u] = IF u = t THEN At(pc) ELSE turn[u]
    BY <2>2, Became
  <2>4. At(pc).pc \notin {"summarizing", "replacing"}
    BY <2>2, AtFacts
  <2>5. CASE late
    BY <2>1, <2>5 DEF Spoken
  <2>6. CASE ~late
    <3>1. t = active /\ \A u \in Turns : turn[u].pc = "replacing" => u = t
      BY <2>1, <2>6, OneReplaces
    <3>2. Holds(live'.history, said) /\ Holds(rollout'.history, said)
      BY <2>1, <2>6 DEF Spoken
    <3>3. ~Replacing'
      BY <2>3, <2>4, <3>1 DEF Replacing
    <3>4. \A u \in Turns : u = active' => turn'[u].pc # "summarizing"
      <4>1. active' \in {0, active}
        BY <1>20 DEF CompactReplace, Settle
      <4>. QED BY <2>3, <2>4, <3>1, <4>1, Numbers
    <3>. QED BY <1>3, <2>1, <3>2, <3>3, <3>4
  <2>. QED BY <2>5, <2>6
<1>21. ASSUME NEW t \in Turns, CompactWithoutModel(t) PROVE Spoken'
  <2>1. /\ live'.history = BuildCompactedHistory(t, <<>>)
        /\ rollout'.history = BuildCompactedHistory(t, <<>>)
        /\ turn[t].pc = "setup" /\ Settle(t)
        /\ late' = (late \/ t \in interrupted)
        /\ said' = {}
    BY <1>21 DEF CompactWithoutModel, ReplayCompacted
  <2>2. Holds(BuildCompactedHistory(t, <<>>), {})
    <3>1. Recent({}) = {} /\ {} \intersect Texts = {} /\ {} \subseteq Turns
      BY DEF Recent
    <3>2. Holds(BuildCompactedHistory(t, <<>>), Recent({}))
      BY <1>0, <3>1, HoldsNone, HoldsBuilt
    <3>. QED BY <3>1, <3>2
  <2>3. CASE late'
    BY <2>3 DEF Spoken
  <2>4. CASE ~late'
    <3>1. ~late /\ t \notin interrupted
      BY <2>1, <2>4
    <3>2. t = active /\ ~Replacing
      BY <1>8, <2>1, <3>1 DEF Early
    <3>3. active' = 0
      BY <2>1, <3>2, Settled
    <3>4. ~Replacing'
      BY <1>21, <3>2, Calm, StillFacts
    <3>. QED BY <1>3, <2>1, <2>2, <3>3, <3>4, Numbers
  <2>. QED BY <2>3, <2>4
<1>22. ASSUME NEW t \in Turns, NEW c \in Calls, RecordCall(t, c)
       PROVE  Spoken'
  <2>1. Call(c) \in Items /\ Call(c) \notin Users
    BY ItemMembers, ItemFields DEF Users
  <2>. QED BY <1>2, <1>4, <1>22, <2>1, Calm DEF RecordCall
<1>23. ASSUME NEW c \in Calls, RecordOutput(c) PROVE Spoken'
  <2>1. Output(c) \in Items /\ Output(c) \notin Users
    BY ItemMembers, ItemFields DEF Users
  <2>. QED BY <1>2, <1>4, <1>23, <2>1, Calm DEF RecordOutput
<1>24. ASSUME Interrupt PROVE Spoken'
  <2>1. /\ UNCHANGED <<live, rollout, turn, said>> /\ (late => late')
        /\ active' = 0
    BY <1>24 DEF Interrupt
  <2>2. NoNewRead
    BY <2>1, Numbers DEF NoNewRead
  <2>. QED BY <1>1, <2>1, <2>2, Calm
<1>25. ASSUME MarkAborted PROVE Spoken'
  <2>1. /\ stopping \in Turns
        /\ UNCHANGED <<live, turn, active, late, said>>
    BY <1>25, Numbers DEF MarkAborted, ghosts
  <2>2. rollout'.history = Append(rollout.history, Marker(stopping))
    BY <1>25 DEF MarkAborted, RecordItem, Types, Memories
  <2>3. Marker(stopping) \in Items /\ Marker(stopping) \notin Users
    BY <2>1, ItemMembers, ItemFields DEF Users
  <2>4. Holds(rollout.history, said) => Holds(rollout'.history, said)
    BY <1>0, <2>2, <2>3, HoldsAppend
  <2>5. /\ Replacing' <=> Replacing
        /\ \A t \in Turns : Built(t)' = Built(t)
    BY <2>1 DEF Replacing, Built
  <2>. QED BY <2>1, <2>4, <2>5 DEF Spoken
<1>26. ASSUME NEW n \in Nat \ {0}, Rollback(n) PROVE Spoken'
  <2>1. /\ live'.history = Rest(live.history, n)
        /\ rollout'.history = Rest(rollout.history, n)
        /\ live'.history \in Seq(Items) /\ rollout'.history \in Seq(Items)
    BY <1>26, RolledBack DEF Memories, Histories
  <2>2. /\ active = 0 /\ UNCHANGED <<active, turn, late>>
        /\ said' = said \ {item.id : item \in
                             ToSet(UsersIn(Dropped(live.history, n)))}
    BY <1>26 DEF Rollback
  <2>3. ASSUME ~late
        PROVE  /\ Holds(live'.history, said')
               /\ Holds(rollout'.history, said')
               /\ ~Replacing'
    <3>2. ~Replacing
      BY <2>2, <2>3, OneReplaces, Numbers
    <3>1. Holds(live'.history, said')
      <4>1. Holds(live.history, said)
        BY <2>3, <3>2 DEF Spoken
      <4>2. Holds(Rest(live.history, n),
                  said \ {item.id : item \in
                             ToSet(UsersIn(Dropped(live.history, n)))})
        BY <1>0, <4>1, HoldsRest
      <4>. QED BY <2>1, <2>2, <4>2
    <3>3. Agrees(Rest(rollout.history, n), Rest(live.history, n))
      BY <1>0, <2>3, <3>2, AgreesRest DEF Follows
    <3>4. ~Replacing'
      BY <2>2, <3>2 DEF Replacing
    <3>5. Holds(rollout'.history, said')
      BY <2>1, <3>1, <3>3, HoldsAgrees
    <3>. QED BY <3>1, <3>4, <3>5
  <2>. QED BY <1>3, <2>2, <2>3, Numbers
<1>27. ASSUME Restart PROVE Spoken'
  <2>1. /\ live' = rollout /\ rollout' = rollout /\ active' = 0
        /\ said' = said /\ late' = late
    BY <1>27 DEF Restart
  <2>2. ~late => Holds(rollout.history, said)
    BY DEF Spoken
  <2>3. ~Replacing'
    <3>1. \A u \in Turns :
            turn'[u] = IF u <= last THEN At("settled") ELSE turn[u]
      BY <1>27 DEF Restart
    <3>. QED BY <3>1, AtFacts, Numbers DEF Runs, Replacing
  <2>. QED BY <1>3, <2>1, <2>2, <2>3, Numbers
<1>28. CASE UNCHANGED vars
  <2>1. UNCHANGED <<live, rollout, late, turn, said, active>>
    BY <1>28 DEF vars, ghosts
  <2>. QED BY <1>1, <1>4, <2>1, Calm
<1>29. ASSUME LoadHistory PROVE Spoken'
  <2>1. UNCHANGED <<live, rollout, late, said, active>> /\ active = 0
    BY <1>29 DEF LoadHistory, CanStart, ghosts
  <2>2. NoNewRead
    BY <2>1, Numbers DEF NoNewRead
  <2>. QED BY <1>1, <1>29, <2>1, <2>2, Calm
<1>30. ASSUME NEW t \in Turns, StartCompact(t) PROVE Spoken'
  <2>1. /\ UNCHANGED <<live, rollout, late, said>> /\ active' = t
        /\ GoTo(t, "setup")
    BY <1>30 DEF StartCompact, ghosts
  <2>2. NoNewRead
    BY <2>1, Went DEF NoNewRead
  <2>. QED BY <1>1, <1>30, <2>1, <2>2, Calm
<1>. QED BY <1>11, <1>12, <1>13, <1>14, <1>15, <1>16, <1>17, <1>18, <1>19,
            <1>20, <1>21, <1>22, <1>23, <1>24, <1>25, <1>26, <1>27, <1>28,
            <1>29, <1>30, DropsSome
         DEF Next

-----------------------------------------------------------------------------
(* SettingsStated: context items and the reference. *)

(* The points at which a turn takes its context in. *)
Stating == {"stating", "context", "adopting"}

(* The reference context item of m is what its history last stated. *)
Tells(m) == m.reference # NoSettings => LastStated(m.history) = m.reference

(* While no compaction was late and nothing parted a reference from its    *)
(* history, each reference is what its history last stated; and while a    *)
(* turn takes its context in, both histories last stated its settings.     *)
Stated ==
  ~late /\ ~astray =>
    /\ (\A t \in Turns : turn[t].pc \notin Stating)
         => Tells(live) /\ Tells(rollout)
    /\ \A t \in Turns : turn[t].pc \in Stating =>
         /\ LastStated(live.history) = turn[t].settings
         /\ LastStated(rollout.history) = turn[t].settings
         /\ turn[t].pc = "adopting" => rollout.reference = turn[t].settings

(* No turn takes its context in, or goes on in that. *)
StillStating ==
  \A u \in Turns :
    turn[u].pc \in Stating \/ turn'[u].pc \in Stating => turn'[u] = turn[u]

(* Most steps. *)
LEMMA Quiet ==
  ASSUME Types, Runs
  PROVE  /\ \A k, s : Start(k, s) => StillStating
         /\ LoadHistory => StillStating
         /\ \A t \in Turns :
              \/ StartCompact(t) \/ RecordUser(t) \/ BeginSampling(t)
              \/ CompleteTurn(t) \/ FailTurn(t) \/ CompactRead(t)
              => StillStating
         /\ UNCHANGED turn => StillStating
<1>1. ASSUME NEW t \in Turns, turn[t].pc \notin Stating,
             turn'[t].pc \notin Stating,
             \A u \in Turns : u # t => turn'[u] = turn[u]
      PROVE  StillStating
  BY <1>1 DEF StillStating
<1>2. ASSUME NEW k, NEW s, Start(k, s) PROVE StillStating
  <2>1. last + 1 \in Turns /\ turn[last + 1].pc = "idle"
    BY <1>2, Numbers DEF Start, CanStart, Runs
  <2>2. /\ [At("starting") EXCEPT !.settings = s].pc = "starting"
        /\ [At("setup") EXCEPT !.kind = k].pc = "setup"
    BY DEF At
  <2>3. turn' = [turn EXCEPT ![last + 1] =
                   IF k = "Regular"
                   THEN [At("starting") EXCEPT !.settings = s]
                   ELSE [At("setup") EXCEPT !.kind = k]]
    BY <1>2 DEF Start
  <2>4. turn'[last + 1] = IF k = "Regular"
                          THEN [At("starting") EXCEPT !.settings = s]
                          ELSE [At("setup") EXCEPT !.kind = k]
    BY <2>1, <2>3 DEF Types
  <2>5. turn'[last + 1].pc \in {"starting", "setup"}
    BY <2>2, <2>4
  <2>6. \A u \in Turns : u # last + 1 => turn'[u] = turn[u]
    BY <2>1, <2>3 DEF Types
  <2>. QED BY <1>1, <2>1, <2>5, <2>6 DEF Stating
<1>3. ASSUME NEW t \in Turns, BeginSampling(t) PROVE StillStating
  <2>1. /\ turn[t].pc = "setup"
        /\ turn' = [turn EXCEPT ![t] = At("sampling")]
    BY <1>3 DEF BeginSampling
  <2>2. \A u \in Turns : turn'[u] = IF u = t THEN At("sampling") ELSE turn[u]
    BY <2>1, Became
  <2>. QED BY <1>1, <2>1, <2>2, AtFacts DEF Stating
<1>4. ASSUME NEW t \in Turns, CompleteTurn(t) \/ FailTurn(t)
      PROVE  StillStating
  <2>1. Settle(t) /\ turn[t].pc \notin Stating
    BY <1>4 DEF CompleteTurn, FailTurn, Stating
  <2>2. \A u \in Turns :
          turn'[u] = IF u = t THEN At("settled") ELSE turn[u]
    BY <2>1, Settled
  <2>3. turn'[t].pc \notin Stating
    BY <2>2, AtFacts DEF Stating
  <2>. QED BY <1>1, <2>1, <2>2, <2>3
<1>5. ASSUME NEW t \in Turns, RecordUser(t) \/ CompactRead(t)
      PROVE  StillStating
  <2>1. /\ turn[t].pc \in {"prompted", "setup"}
        /\ turn'[t].pc \in {"setup", "summarizing"}
        /\ \A u \in Turns : u # t => turn'[u] = turn[u]
    BY <1>5, WentOn
  <2>. QED BY <1>1, <2>1 DEF Stating
<1>6. UNCHANGED turn => StillStating
  BY DEF StillStating
<1>7. ASSUME LoadHistory PROVE StillStating
  <2>1. last + 1 \in Turns /\ turn[last + 1].pc = "idle"
    BY <1>7, Loaded, Numbers DEF Runs
  <2>. QED BY <1>1, <1>7, <2>1, Loaded DEF Stating
<1>8. ASSUME NEW t \in Turns, StartCompact(t) PROVE StillStating
  <2>1. turn[t].pc = "loading" /\ GoTo(t, "setup")
    BY <1>8 DEF StartCompact
  <2>. QED BY <1>1, <2>1, Went DEF Stating
<1>. QED BY <1>2, <1>3, <1>4, <1>5, <1>6, <1>7, <1>8

(* and no reference is set. *)
LEMMA InitStated == Init => Stated
<1>1. ASSUME Init PROVE Stated
  <2>1. \A t \in Turns : turn[t].pc = "idle"
    BY <1>1, AtFacts DEF Init
  <2>2. rollout.reference = NoSettings /\ live.reference = NoSettings
    BY <1>1 DEF Init
  <2>. QED BY <2>1, <2>2 DEF Stated, Stating, Tells
<1>. QED BY <1>1

(* Every step keeps the references what the histories state, or is late or *)
(* parts them.                                                             *)
LEMMA NextStated ==
  ASSUME Types, Runs, Follows, Stated, [Next]_vars
  PROVE  Stated'
<1>0. /\ live.history \in Seq(Items) /\ rollout.history \in Seq(Items)
      /\ \A t \in Turns : turn[t].read \in Seq(Users)
      /\ <<>> \in Seq(Users)
  BY EmptySeq DEF Types, Memories, Histories, TurnRecords
(* Nothing is stated. *)
<1>1. ASSUME StillStating, late => late', astray => astray',
             ~late' /\ ~astray' =>
               /\ LastStated(live'.history) = LastStated(live.history)
               /\ LastStated(rollout'.history) = LastStated(rollout.history),
             live'.reference \in {live.reference, NoSettings},
             rollout'.reference = rollout.reference
      PROVE  Stated'
  <2>1. CASE late' \/ astray'
    BY <2>1 DEF Stated
  <2>2. CASE ~(late' \/ astray')
    <3>1. ~(late \/ astray)
      BY <1>1, <2>2
    <3>2. /\ LastStated(live'.history) = LastStated(live.history)
          /\ LastStated(rollout'.history) = LastStated(rollout.history)
      BY <1>1, <2>2
    <3>3. ASSUME \A t \in Turns : turn'[t].pc \notin Stating
          PROVE  Tells(live') /\ Tells(rollout')
      <4>1. \A t \in Turns : turn[t].pc \notin Stating
        BY <1>1, <3>3 DEF StillStating
      <4>2. Tells(live) /\ Tells(rollout)
        BY <3>1, <4>1 DEF Stated
      <4>. QED BY <1>1, <3>2, <4>2 DEF Tells
    <3>4. ASSUME NEW t \in Turns, turn'[t].pc \in Stating
          PROVE  /\ LastStated(live'.history) = turn'[t].settings
                 /\ LastStated(rollout'.history) = turn'[t].settings
                 /\ turn'[t].pc = "adopting"
                      => rollout'.reference = turn'[t].settings
      <4>1. turn'[t] = turn[t]
        BY <1>1, <3>4 DEF StillStating
      <4>. QED BY <1>1, <3>1, <3>2, <3>4, <4>1 DEF Stated
    <3>. QED BY <3>3, <3>4 DEF Stated, Tells
  <2>. QED BY <2>1, <2>2
<1>2. ASSUME NEW x \in Items, x \notin Statements, Record(x), StillStating,
             UNCHANGED <<late, astray>>
      PROVE  Stated'
  <2>1. /\ live'.history = Append(live.history, x)
        /\ rollout'.history = Append(rollout.history, x)
        /\ UNCHANGED <<live.reference, rollout.reference>>
    BY <1>2, Recorded
  <2>2. ~States(x)
    BY <1>2 DEF Statements
  <2>3. /\ LastStated(live'.history) = LastStated(live.history)
        /\ LastStated(rollout'.history) = LastStated(rollout.history)
    BY <1>0, <2>1, <2>2, StatedAppend
  <2>. QED BY <1>1, <1>2, <2>1, <2>3
(* No turn takes its context in afterwards. *)
<1>3. ASSUME ~(late' \/ astray') =>
               /\ Tells(live') /\ Tells(rollout')
               /\ \A t \in Turns : turn'[t].pc \notin Stating
      PROVE  Stated'
  <2>1. CASE late' \/ astray'
    BY <2>1 DEF Stated
  <2>2. CASE ~(late' \/ astray')
    BY <1>3, <2>2 DEF Stated, Tells
  <2>. QED BY <2>1, <2>2
(* What a compaction built states nothing, and has no reference. *)
<1>4. ASSUME NEW t \in Turns, turn[t].pc \notin Early, ~late,
             t \in interrupted => late,
             turn[t].pc \notin {"idle", "settled", "loading"}
      PROVE  t = active /\ \A u \in Turns : turn[u].pc \notin Stating
  <2>1. t = active
    BY <1>4 DEF Runs
  <2>. QED BY <1>4, <2>1 DEF Runs, Early, Stating
<1>11. ASSUME NEW k, NEW s, Start(k, s) PROVE Stated'
  <2>1. UNCHANGED <<live, rollout, late, astray>>
    BY <1>11 DEF Start, ghosts
  <2>. QED BY <1>1, <1>11, <2>1, Quiet
<1>12. ASSUME NEW t \in Turns, RecordContext(t) PROVE Stated'
  <2>1. /\ turn[t].settings \in Settings /\ turn[t].pc = "starting"
        /\ late' = late /\ t = active
    BY <1>12 DEF RecordContext, Runs, Early
  <2>0. PICK pc \in {"stating", "context"} : GoTo(t, pc)
    BY <1>12 DEF RecordContext
  <2>2. \A u \in Turns : turn'[u].pc \in Stating => u = t
    BY <2>0, <2>1, Went DEF Runs, Early, Stating
  <2>3. turn'[t].pc # "adopting" /\ turn'[t].settings = turn[t].settings
        /\ turn'[t].pc \in Stating
    BY <2>0, Went DEF Stating
  <2>4. ASSUME ~(late' \/ astray') =>
                 /\ LastStated(live'.history) = turn[t].settings
                 /\ LastStated(rollout'.history) = turn[t].settings
        PROVE  Stated'
    <3>1. CASE late' \/ astray'
      BY <3>1 DEF Stated
    <3>2. CASE ~(late' \/ astray')
      BY <2>2, <2>3, <2>4, <3>2 DEF Stated, Stating
    <3>. QED BY <3>1, <3>2
  <2>5. ASSUME NEW x \in {Initial(turn[t].settings),
                          Update(turn[t].settings)}, Record(x)
        PROVE  Stated'
    <3>1. x \in Items /\ States(x) /\ x.id = turn[t].settings
      BY <2>1, ItemMembers, ItemFields DEF States
    <3>2. /\ live'.history = Append(live.history, x)
          /\ rollout'.history = Append(rollout.history, x)
      BY <2>5, <3>1, Recorded
    <3>3. /\ LastStated(live'.history) = turn[t].settings
          /\ LastStated(rollout'.history) = turn[t].settings
      BY <1>0, <3>1, <3>2, StatedAppend
    <3>. QED BY <2>4, <3>3
  <2>6. ASSUME live.reference = turn[t].settings,
               UNCHANGED <<live, rollout, raced, astray>>
        PROVE  Stated'
    <3>1. ASSUME ~(late' \/ astray')
          PROVE  /\ LastStated(live.history) = turn[t].settings
                 /\ LastStated(rollout.history) = turn[t].settings
      <4>1. ~late /\ ~astray
        BY <2>1, <2>6, <3>1
      <4>2. \A u \in Turns : turn[u].pc \notin Stating
        BY <2>1 DEF Runs, Early, Stating
      <4>3. LastStated(live.history) = turn[t].settings
        BY <2>1, <2>6, <4>1, <4>2, HistoryAssumption DEF Stated, Tells
      <4>4. ~Replacing
        BY <2>1, <4>1, OneReplaces
      <4>5. Agrees(rollout.history, live.history)
        BY <4>1, <4>4 DEF Follows
      <4>. QED BY <1>0, <4>3, <4>5, StatedAgrees
    <3>. QED BY <2>4, <2>6, <3>1
  <2>. QED BY <1>12, <2>5, <2>6 DEF RecordContext
<1>13. ASSUME NEW t \in Turns, PersistContext(t) PROVE Stated'
  <2>1. /\ live' = live /\ rollout'.history = rollout.history
        /\ rollout'.reference = turn[t].settings
        /\ UNCHANGED <<late, astray>> /\ GoTo(t, "adopting")
        /\ turn[t].pc = "context"
    BY <1>13 DEF PersistContext, ReplayTurnContext, Types, Memories
  <2>2. t = active /\ \A u \in Turns : turn'[u].pc \in Stating => u = t
    BY <2>1, Went DEF Runs, Early, Stating
  <2>3. turn'[t].pc = "adopting" /\ turn'[t].settings = turn[t].settings
    BY <2>1, Went
  <2>4. CASE late \/ astray
    BY <2>1, <2>4 DEF Stated
  <2>5. CASE ~(late \/ astray)
    <3>1. /\ LastStated(live.history) = turn[t].settings
          /\ LastStated(rollout.history) = turn[t].settings
      BY <2>1, <2>5 DEF Stated, Stating
    <3>. QED BY <2>1, <2>2, <2>3, <3>1 DEF Stated, Stating
  <2>. QED BY <2>4, <2>5
<1>14. ASSUME NEW t \in Turns, AdoptContext(t) PROVE Stated'
  <2>1. /\ live'.history = live.history /\ rollout' = rollout
        /\ live'.reference = turn[t].settings
        /\ UNCHANGED <<late, astray>> /\ turn[t].pc = "adopting"
        /\ turn' = [turn EXCEPT ![t] = At("prompted")]
    BY <1>14 DEF AdoptContext, Types, Memories
  <2>2. \A u \in Turns : turn'[u] = IF u = t THEN At("prompted") ELSE turn[u]
    BY <2>1, Became
  <2>3. \A u \in Turns : turn'[u].pc \notin Stating
    BY <2>1, <2>2, AtFacts DEF Runs, Early, Stating
  <2>4. ASSUME ~(late' \/ astray') PROVE Tells(live') /\ Tells(rollout')
    <3>1. ~late /\ ~astray
      BY <2>1, <2>4
    <3>2. /\ LastStated(live.history) = turn[t].settings
          /\ LastStated(rollout.history) = turn[t].settings
          /\ rollout.reference = turn[t].settings
      BY <2>1, <3>1 DEF Stated, Stating
    <3>. QED BY <2>1, <3>2 DEF Tells
  <2>. QED BY <1>3, <2>3, <2>4
<1>15. ASSUME NEW t \in Turns, RecordUser(t) PROVE Stated'
  <2>1. User(t) \in Items /\ User(t) \notin Statements
    BY ItemMembers, ItemFields DEF Statements, States
  <2>. QED BY <1>2, <1>15, <2>1, Quiet DEF RecordUser
<1>16. ASSUME NEW t \in Turns,
              \/ BeginSampling(t) \/ CompleteTurn(t) \/ FailTurn(t)
              \/ CompactRead(t)
       PROVE  Stated'
  <2>1. UNCHANGED <<live, rollout, astray>> /\ (late => late')
    BY <1>16 DEF BeginSampling, CompleteTurn, FailTurn, CompactRead, ghosts
  <2>. QED BY <1>1, <1>16, <2>1, Quiet
<1>17. ASSUME NEW t \in Turns, CompactPersist(t) PROVE Stated'
  <2>1. /\ rollout'.reference = NoSettings /\ live' = live
        /\ GoTo(t, "replacing") /\ turn[t].pc = "summarizing"
        /\ late' = (late \/ t \in interrupted)
        /\ astray' = astray
    BY <1>17 DEF CompactPersist, ReplayCompacted
  <2>2. ASSUME ~(late' \/ astray')
        PROVE  /\ Tells(live') /\ Tells(rollout')
               /\ \A u \in Turns : turn'[u].pc \notin Stating
    <3>1. ~late /\ t \notin interrupted /\ ~astray
      BY <2>1, <2>2
    <3>2. \A u \in Turns : turn[u].pc \notin Stating
      BY <1>4, <2>1, <3>1 DEF Early
    <3>3. Tells(live)
      BY <3>1, <3>2 DEF Stated
    <3>4. \A u \in Turns : turn'[u].pc \notin Stating
      BY <2>1, <3>2, Went DEF Stating
    <3>. QED BY <2>1, <3>3, <3>4 DEF Tells
  <2>. QED BY <1>3, <2>2
<1>18. ASSUME NEW t \in Turns, CompactReplace(t) PROVE Stated'
  <2>1. /\ live'.reference = NoSettings /\ rollout' = rollout
        /\ turn[t].pc = "replacing"
        /\ UNCHANGED <<late, astray>>
    BY <1>18 DEF CompactReplace
  <2>2. Settle(t) \/ turn' = [turn EXCEPT ![t] = At("sampling")]
    <3>1. CASE turn[t].kind = "Regular"
      BY <1>18, <3>1 DEF CompactReplace
    <3>2. CASE turn[t].kind # "Regular"
      BY <1>18, <3>2 DEF CompactReplace
    <3>. QED BY <3>1, <3>2
  <2>3. PICK pc \in {"settled", "sampling"} :
          turn' = [turn EXCEPT ![t] = At(pc)]
    BY <2>2 DEF Settle
  <2>4. \A u \in Turns : turn'[u] = IF u = t THEN At(pc) ELSE turn[u]
    BY <2>3, Became
  <2>5. ASSUME ~(late' \/ astray')
        PROVE  /\ Tells(live') /\ Tells(rollout')
               /\ \A u \in Turns : turn'[u].pc \notin Stating
    <3>1. ~late /\ ~astray
      BY <2>1, <2>5
    <3>2. t = active
      BY <2>1, <3>1, OneReplaces
    <3>3. \A u \in Turns : turn[u].pc \notin Stating
      BY <2>1, <3>2 DEF Runs, Early, Stating
    <3>4. Tells(rollout)
      BY <3>1, <3>3 DEF Stated
    <3>5. At(pc).pc \notin Stating
      BY <2>3, AtFacts DEF Stating
    <3>. QED BY <2>1, <2>4, <3>3, <3>4, <3>5 DEF Tells
  <2>. QED BY <1>3, <2>5
<1>19. ASSUME NEW t \in Turns, CompactWithoutModel(t) PROVE Stated'
  <2>1. /\ live'.reference = NoSettings /\ rollout'.reference = NoSettings
        /\ turn[t].pc = "setup" /\ Settle(t)
        /\ late' = (late \/ t \in interrupted)
    BY <1>19 DEF CompactWithoutModel, ReplayCompacted
  <2>2. \A u \in Turns :
          turn'[u] = IF u = t THEN At("settled") ELSE turn[u]
    BY <2>1, Settled
  <2>3. ASSUME ~(late' \/ astray')
        PROVE  \A u \in Turns : turn'[u].pc \notin Stating
    <3>1. ~late /\ t \notin interrupted
      BY <2>1, <2>3
    <3>2. \A u \in Turns : turn[u].pc \notin Stating
      BY <1>4, <2>1, <3>1 DEF Early
    <3>. QED BY <2>2, <3>2, AtFacts DEF Stating
  <2>. QED BY <1>3, <2>1, <2>3 DEF Tells
<1>20. ASSUME NEW t \in Turns, NEW c \in Calls, RecordCall(t, c)
       PROVE  Stated'
  <2>1. Call(c) \in Items /\ Call(c) \notin Statements
    BY ItemMembers, ItemFields DEF Statements, States
  <2>. QED BY <1>2, <1>20, <2>1, Quiet DEF RecordCall
<1>21. ASSUME NEW c \in Calls, RecordOutput(c) PROVE Stated'
  <2>1. Output(c) \in Items /\ Output(c) \notin Statements
    BY ItemMembers, ItemFields DEF Statements, States
  <2>. QED BY <1>2, <1>21, <2>1, Quiet DEF RecordOutput
<1>22. ASSUME Interrupt PROVE Stated'
  <2>1. /\ UNCHANGED <<live, rollout, turn, astray>> /\ (late => late')
    BY <1>22 DEF Interrupt
  <2>. QED BY <1>1, <2>1, Quiet
<1>23. ASSUME MarkAborted PROVE Stated'
  <2>1. stopping \in Turns /\ UNCHANGED <<live, turn, late, astray>>
    BY <1>23, Numbers DEF MarkAborted, ghosts
  <2>2. /\ rollout'.history = Append(rollout.history, Marker(stopping))
        /\ rollout'.reference = rollout.reference
    BY <1>23 DEF MarkAborted, RecordItem, Types, Memories
  <2>3. Marker(stopping) \in Items /\ ~States(Marker(stopping))
    BY <2>1, ItemMembers, ItemFields DEF States
  <2>4. LastStated(rollout'.history) = LastStated(rollout.history)
    BY <1>0, <2>2, <2>3, StatedAppend
  <2>. QED BY <1>1, <2>1, <2>2, <2>4, Quiet
<1>24. ASSUME NEW n \in Nat \ {0}, Rollback(n) PROVE Stated'
  <2>1. /\ live'.history = Rest(live.history, n)
        /\ rollout'.history = Rest(rollout.history, n)
        /\ live'.reference \in {live.reference, NoSettings}
        /\ rollout'.reference = rollout.reference
        /\ live'.history \in Seq(Items) /\ rollout'.history \in Seq(Items)
    BY <1>24, RolledBack DEF Memories, Histories
  <2>2. /\ active = 0 /\ UNCHANGED <<turn, late>>
        /\ astray' = (astray \/ \E item \in ToSet(Dropped(live.history, n)) :
                                   States(item))
    BY <1>24 DEF Rollback
  <2>3. ASSUME ~late' /\ ~astray'
        PROVE  /\ LastStated(live'.history) = LastStated(live.history)
               /\ LastStated(rollout'.history) = LastStated(rollout.history)
    <3>1. \A x \in ToSet(Dropped(live.history, n)) : ~States(x)
      BY <2>2, <2>3
    <3>2. LastStated(live'.history) = LastStated(live.history)
      BY <1>0, <2>1, <3>1, StatedRest
    <3>3. ~late
      BY <2>2, <2>3
    <3>4. ~Replacing
      BY <2>2, <3>3, OneReplaces, Numbers
    <3>5. Agrees(rollout.history, live.history)
      BY <3>3, <3>4 DEF Follows
    <3>6. Agrees(rollout'.history, live'.history)
      BY <1>0, <2>1, <3>5, AgreesRest
    <3>7. LastStated(rollout.history) = LastStated(live.history)
      BY <1>0, <3>5, StatedAgrees
    <3>8. LastStated(rollout'.history) = LastStated(live'.history)
      BY <2>1, <3>6, StatedAgrees
    <3>. QED BY <3>2, <3>7, <3>8
  <2>4. late => late'
    BY <2>2
  <2>5. astray => astray'
    BY <2>2
  <2>6. StillStating
    BY <2>2, Quiet
  <2>. QED BY <1>1, <2>1, <2>3, <2>4, <2>5, <2>6
<1>25. ASSUME Restart PROVE Stated'
  <2>1. /\ live' = rollout /\ rollout' = rollout /\ late' = late
        /\ astray' = (astray \/ \E t \in Turns :
                                   turn[t].pc \in {"stating", "context"})
    BY <1>25 DEF Restart
  <2>2. \A u \in Turns : turn'[u].pc \notin Stating
    <3>1. \A u \in Turns :
            turn'[u] = IF u <= last THEN At("settled") ELSE turn[u]
      BY <1>25 DEF Restart
    <3>. QED BY <3>1, AtFacts, Numbers DEF Runs, Stating
  <2>3. ASSUME ~(late' \/ astray') PROVE Tells(rollout)
    <3>1. /\ ~late /\ ~astray
          /\ \A t \in Turns : turn[t].pc \notin {"stating", "context"}
      BY <2>1, <2>3
    <3>2. CASE \E t \in Turns : turn[t].pc = "adopting"
      BY <3>1, <3>2 DEF Stated, Stating, Tells
    <3>3. CASE \A t \in Turns : turn[t].pc # "adopting"
      BY <3>1, <3>3 DEF Stated, Stating
    <3>. QED BY <3>2, <3>3
  <2>. QED BY <1>3, <2>1, <2>2, <2>3
<1>26. CASE UNCHANGED vars
  <2>1. UNCHANGED <<live, rollout, late, astray, turn>>
    BY <1>26 DEF vars, ghosts
  <2>. QED BY <1>1, <2>1, Quiet
<1>27. ASSUME LoadHistory PROVE Stated'
  <2>1. UNCHANGED <<live, rollout, late, astray>>
    BY <1>27 DEF LoadHistory, ghosts
  <2>. QED BY <1>1, <1>27, <2>1, Quiet
<1>28. ASSUME NEW t \in Turns, StartCompact(t) PROVE Stated'
  <2>1. UNCHANGED <<live, rollout, late, astray>>
    BY <1>28 DEF StartCompact, ghosts
  <2>. QED BY <1>1, <1>28, <2>1, Quiet
<1>29. ASSUME NEW t \in Turns, RecordContextMore(t) PROVE Stated'
  <2>. DEFINE x == Update(turn[t].settings)
  <2>1. /\ turn[t].settings \in Settings /\ turn[t].pc = "stating"
        /\ GoTo(t, "context") /\ t = active /\ Record(x)
    BY <1>29 DEF RecordContextMore, Runs, Early
  <2>2. \A u \in Turns : turn'[u].pc \in Stating => u = t
    BY <2>1, Went DEF Runs, Early, Stating
  <2>3. turn'[t].pc = "context" /\ turn'[t].settings = turn[t].settings
    BY <2>1, Went
  <2>4. x \in Items /\ States(x) /\ x.id = turn[t].settings
    BY <2>1, ItemMembers, ItemFields DEF States
  <2>. HIDE DEF x
  <2>5. /\ live'.history = Append(live.history, x)
        /\ rollout'.history = Append(rollout.history, x)
    BY <2>1, <2>4, Recorded
  <2>6. /\ LastStated(live'.history) = turn[t].settings
        /\ LastStated(rollout'.history) = turn[t].settings
    BY <1>0, <2>4, <2>5, StatedAppend
  <2>. QED BY <2>2, <2>3, <2>6 DEF Stated, Stating
<1>. QED BY <1>11, <1>12, <1>13, <1>14, <1>15, <1>16, <1>17, <1>18, <1>19,
            <1>20, <1>21, <1>22, <1>23, <1>24, <1>25, <1>26, <1>27, <1>28,
            <1>29, DropsSome
         DEF Next

-----------------------------------------------------------------------------
(* The theorems. *)

(* The inductive invariant: what each variable holds, who runs, and the    *)
(* four relations between the histories and the rest of the state.         *)
IInv ==
  /\ Types /\ Runs
  /\ Prompts /\ Replays /\ Follows /\ Spoken /\ Stated

(* Every reachable state satisfies it. *)
LEMMA Invariance == Spec => []IInv
<1>1. Init => IInv
  BY InitTypes, InitRuns, InitPrompts, InitReplays, InitFollows, InitSpoken,
     InitStated DEF IInv
<1>2. IInv /\ [Next]_vars => IInv'
  <2>1. SUFFICES ASSUME IInv, [Next]_vars PROVE IInv'
    OBVIOUS
  <2>2. Types /\ Runs /\ Prompts /\ Replays /\ Follows /\ Spoken /\ Stated
    BY <2>1 DEF IInv
  <2>3. Types'
    BY <2>1, <2>2, NextTypes
  <2>4. Runs'
    BY <2>1, <2>2, NextRuns
  <2>5. Prompts'
    BY <2>1, <2>2, NextPrompts
  <2>6. Replays'
    BY <2>1, <2>2, NextReplays
  <2>7. Follows'
    BY <2>1, <2>2, NextFollows
  <2>8. Spoken'
    BY <2>1, <2>2, NextSpoken
  <2>9. Stated'
    BY <2>1, <2>2, NextStated
  <2>. QED BY <2>3, <2>4, <2>5, <2>6, <2>7, <2>8, <2>9 DEF IInv
<1>. QED BY <1>1, <1>2, PTL DEF Spec

(* The histories hold response items of the kinds the code records, and    *)
(* the turn the session calls active is one whose run is under way.        *)
THEOREM TypeCorrect == Spec => []TypeOK
<1>1. IInv => TypeOK
  <2>1. SUFFICES ASSUME IInv PROVE TypeOK
    OBVIOUS
  <2>2. Types /\ Runs
    BY <2>1 DEF IInv
  <2>3. {late, raced, astray} \subseteq BOOLEAN
    BY <2>2 DEF Types
  <2>4. /\ live.history \in Histories /\ rollout.history \in Histories
        /\ live.reference \in Settings \union {NoSettings}
        /\ rollout.reference \in Settings \union {NoSettings}
    BY <2>2 DEF Types, Memories
  <2>. QED BY <2>2, <2>3, <2>4 DEF Types, Runs, TypeOK
<1>. QED BY <1>1, Invariance, PTL

(* Whatever tools, failures, interrupts, rollbacks, compactions and        *)
(* restarts did to the history, forPrompt makes a well-formed prompt of it *)
(* and of what the rollout reconstructs.                                   *)
THEOREM PromptsWellFormed == Spec => []PromptWellFormed
<1>1. IInv => PromptWellFormed
  <2>1. SUFFICES ASSUME IInv PROVE PromptWellFormed
    OBVIOUS
  <2>2. Sound(live.history) /\ Sound(rollout.history)
    BY <2>1 DEF IInv, Prompts
  <2>3. live.history \in Seq(Items) /\ rollout.history \in Seq(Items)
    BY <2>1 DEF IInv, Types, Memories, Histories
  <2>4. \A m \in {live, rollout} : WellFormedPrompt(m.history)
    BY <2>2, <2>3, GoodPrompt DEF Sound
  <2>. QED BY <2>4 DEF PromptWellFormed
<1>. QED BY <1>1, Invariance, PTL

(* The rollout reconstructs the live history but for markers, unless an    *)
(* item was recorded between the two halves of a compaction.               *)
THEOREM RolloutReplays == Spec => []ReplayAgrees
<1>1. IInv => ReplayAgrees
  BY DEF IInv, Replays, ReplayAgrees
<1>. QED BY <1>1, Invariance, PTL

(* What such a recording costs: while no compaction was late, the live     *)
(* history lacks of the rollout at most markers, tool calls and tool       *)
(* outputs, and no message and no context.                                 *)
THEOREM OnlyToolItemsLost ==
  Spec => [](~late /\ ~Replacing => Agrees(rollout.history, live.history))
<1>1. IInv => (~late /\ ~Replacing => Agrees(rollout.history, live.history))
  BY DEF IInv, Follows
<1>. QED BY <1>1, Invariance, PTL

(* What the user said leaves both histories by rollback, by the compact Op *)
(* and by a compaction that has no room for it after what was said later,  *)
(* or finds no text in it; and what has left never returns, unless a       *)
(* compaction was late.                                                    *)
THEOREM UserMessagesStay == Spec => []UserMessagesKept
<1>1. IInv => UserMessagesKept
  <2>. DEFINE Ids(m) == {item.id : item \in ToSet(UsersIn(m.history))}
  <2>1. SUFFICES ASSUME IInv, ~late
                 PROVE  /\ Ids(rollout) = said
                        /\ said \subseteq Ids(live)
                        /\ ~Replacing => Ids(live) = said
    BY DEF UserMessagesKept
  <2>2. live.history \in Seq(Items) /\ rollout.history \in Seq(Items)
    BY <2>1 DEF IInv, Types, Memories, Histories
  <2>3. said \subseteq Turns
    BY <2>1, Numbers DEF IInv
  <2>4. \A m \in {live, rollout} :
          Ids(m) = {t \in Turns : User(t) \in ToSet(m.history)}
    BY <2>2, UserIds
  <2>. HIDE DEF Ids
  <2>5. /\ Holds(rollout.history, said)
        /\ ~Replacing => Holds(live.history, said)
        /\ \A t \in Turns : t \in said => User(t) \in ToSet(live.history)
    BY <2>1 DEF IInv, Spoken
  <2>. QED BY <2>3, <2>4, <2>5 DEF Holds
<1>. QED BY <1>1, Invariance, PTL

(* Between turns, and after a restart, a reference context item is what    *)
(* the history last told the model, but for the exceptions SettingsStated  *)
(* names.                                                                  *)
THEOREM SettingsAreStated == Spec => []SettingsStated
<1>1. IInv => SettingsStated
  BY DEF IInv, Stated, Stating, Tells, SettingsStated
<1>. QED BY <1>1, Invariance, PTL
=============================================================================
