----------------------- MODULE LocalThreadStoreProofs -----------------------
(* Proofs about LocalThreadStore, for any threads, calls and number of     *)
(* crashes: TypeOK, InOrderOnce, AloneIsDurable and FailuresExplained.     *)
EXTENDS LocalThreadStore, TLAPS

Points == {"idle", "loading", "loaded", "saving", "writing", "open",
           "answered", "rejected", "died"}
Work == {"look", "create", "resume", "append"}

Types ==
  /\ memory \in Histories
  /\ file \in [kind : {"none", "empty", "torn", "whole"},
               histories : Histories]
  /\ does \in [Calls -> Work]
  /\ pc \in [Calls -> Points]
  /\ data \in [Calls -> Histories]
  /\ past \in [Calls -> SUBSET Calls]
  /\ overlapped \subseteq Calls
  /\ cut \in BOOLEAN
  /\ collided \in BOOLEAN
  /\ erasers \subseteq Calls
  /\ crashes \in 0 .. MaxCrashes

(* What a call does fits what it is; memory and the data about to be       *)
(* written are never empty.                                                *)
Kinds ==
  /\ \A c \in Calls : Op[c] = "append" <=> does[c] = "append"
  /\ \A c \in Calls : pc[c] = "idle" /\ Op[c] = "start" => does[c] = "look"
  /\ \A c \in Calls : pc[c] \in {"saving", "writing", "open", "answered"} =>
                        does[c] # "look"
  /\ \A c \in Calls : pc[c] \in {"writing", "open"} => data[c] # Nothing
  /\ \A c \in Calls : pc[c] = "open" => file.kind # "none"
  /\ \A c \in Calls : c \in overlapped => pc[c] # "idle"
  /\ \A c \in Calls : pc[c] = "saving" => memory # Nothing

Typed == Types /\ Kinds

(* Some call but no other takes a step, or the process dies. *)
Step(c) ==
  \/ Issue(c) \/ ReadFile(c) \/ ReadFails(c)
  \/ Looked(c) \/ Apply(c) \/ Unknown(c)
  \/ Capture(c) \/ Open(c) \/ WritePiece(c) \/ Write(c)

LEMMA Shapes ==
  /\ Nothing \in Histories
  /\ <<>> \in Seq(Calls)
  /\ <<>> # NoThread
<1>1. <<>> \in Seq(Calls)
  OBVIOUS
<1>2. <<>> # NoThread
  BY <1>1, StoreAssumption
<1>3. Nothing \in Histories
  BY DEF Nothing, Histories
<1>4. QED
  BY <1>1, <1>2, <1>3

(* The memory after load, and after the work of the call. *)
LEMMA LoadedTyped ==
  ASSUME Types, NEW c \in Calls
  PROVE  Loaded(c) \in Histories
  BY DEF Types, Loaded

LEMMA EffectTyped ==
  ASSUME NEW c \in Calls, NEW h \in Histories,
         does[c] \in Work \ {"look"},
         does[c] = "append" => h[ThreadOf[c]] # NoThread
  PROVE  /\ Effect(c, h) \in Histories
         /\ Effect(c, h)[ThreadOf[c]] # NoThread
         /\ \A t \in Threads : t # ThreadOf[c] => Effect(c, h)[t] = h[t]
         /\ does[c] = "create" => Effect(c, h)[ThreadOf[c]] = <<>>
         /\ does[c] = "append" =>
              /\ h[ThreadOf[c]] \in Seq(Calls)
              /\ Effect(c, h)[ThreadOf[c]] = Append(h[ThreadOf[c]], c)
         /\ does[c] = "resume" =>
              Effect(c, h)[ThreadOf[c]] =
                IF h[ThreadOf[c]] = NoThread THEN <<>> ELSE h[ThreadOf[c]]
<1>0. ThreadOf[c] \in Threads
  BY StoreAssumption
<1>1. CASE does[c] = "create"
  <2>1. Effect(c, h) = [h EXCEPT ![ThreadOf[c]] = <<>>]
    BY <1>1 DEF Effect, Created
  <2>2. QED
    BY <1>0, <1>1, <2>1, Shapes DEF Histories
<1>2. CASE does[c] = "resume"
  <2>1. Effect(c, h) = [h EXCEPT ![ThreadOf[c]] =
                          IF @ = NoThread THEN <<>> ELSE @]
    BY <1>2 DEF Effect, Resumed
  <2>2. QED
    BY <1>0, <1>2, <2>1, Shapes DEF Histories
<1>3. CASE does[c] = "append"
  <2>1. Effect(c, h) = [h EXCEPT ![ThreadOf[c]] = Append(@, c)]
    BY <1>3 DEF Effect, Appended
  <2>2. h[ThreadOf[c]] \in Seq(Calls)
    BY <1>0, <1>3 DEF Histories
  <2>3. Append(h[ThreadOf[c]], c) \in Seq(Calls)
    BY <2>2
  <2>4. Append(h[ThreadOf[c]], c) # NoThread
    BY <2>3, StoreAssumption
  <2>5. QED
    BY <1>0, <1>3, <2>1, <2>2, <2>3, <2>4 DEF Histories
<1>4. QED
  BY <1>1, <1>2, <1>3 DEF Work

LEMMA TypedInit == Init => Typed
<1>1. SUFFICES ASSUME Init PROVE Types /\ Kinds
  BY DEF Typed
<1>2. file \in [kind : {"none", "empty", "torn", "whole"},
               histories : Histories]
  BY <1>1, Shapes DEF Init, NoFile
<1>3. Types
  <2>1. does \in [Calls -> Work] /\ pc \in [Calls -> Points]
    BY <1>1 DEF Init, Points, Work
  <2>2. data \in [Calls -> Histories]
    BY <1>1, Shapes DEF Init
  <2>3. past \in [Calls -> SUBSET Calls] /\ crashes \in 0 .. MaxCrashes
    BY <1>1, StoreAssumption DEF Init
  <2>4. QED
    BY <1>1, <1>2, <2>1, <2>2, <2>3, Shapes DEF Init, Types
<1>4. Kinds
  BY <1>1, StoreAssumption DEF Init, Kinds
<1>5. QED
  BY <1>3, <1>4

LEMMA TypesStep ==
  ASSUME Typed, NEW c \in Calls, Step(c)
  PROVE  Types'
<1> USE DEF Points, Work
<1>1. CASE Issue(c)
  BY <1>1 DEF Typed, Types, Issue, AppendsBefore, GoTo
<1>2. CASE ReadFile(c)
  BY <1>2 DEF Typed, Types, ReadFile, GoTo
<1>3. CASE ReadFails(c)
  BY <1>3 DEF Typed, Types, ReadFails, GoTo
<1>4. CASE Looked(c)
  BY <1>4, LoadedTyped, Shapes DEF Typed, Types, Looked, GoTo
<1>5. CASE Apply(c)
  <2>1. Effect(c, Loaded(c)) \in Histories
    BY <1>5, LoadedTyped, EffectTyped DEF Typed, Types, Apply, Known
  <2>2. QED
    BY <1>5, <2>1, Shapes DEF Typed, Types, Apply, GoTo
<1>6. CASE Unknown(c)
  BY <1>6, LoadedTyped, Shapes DEF Typed, Types, Unknown, GoTo
<1>7. CASE Capture(c)
  BY <1>7 DEF Typed, Types, Capture, GoTo
<1>8. CASE Open(c)
  BY <1>8, Shapes DEF Typed, Types, Open, GoTo, Empty
<1>9. CASE Write(c)
  BY <1>9, Shapes DEF Typed, Types, Write, GoTo, Whole, Torn
<1>10. CASE WritePiece(c)
  BY <1>10, Shapes DEF Typed, Types, WritePiece, Torn
<1>11. QED
  BY <1>1, <1>2, <1>3, <1>4, <1>5, <1>6, <1>7, <1>8, <1>9, <1>10 DEF Step

LEMMA KindsStep ==
  ASSUME Typed, NEW c \in Calls, Step(c)
  PROVE  Kinds'
<1> USE DEF Points, Work
<1>0. Op[c] \in {"start", "append"} /\ ThreadOf[c] \in Threads
  BY StoreAssumption
<1>1. CASE Issue(c)
  BY <1>0, <1>1 DEF Typed, Types, Kinds, Issue, GoTo, Running
<1>2. CASE ReadFile(c)
  BY <1>0, <1>2 DEF Typed, Types, Kinds, ReadFile, GoTo
<1>3. CASE ReadFails(c)
  BY <1>0, <1>3 DEF Typed, Types, Kinds, ReadFails, GoTo
<1>4. CASE Looked(c)
  BY <1>0, <1>4 DEF Typed, Types, Kinds, Looked, GoTo, Loaded
<1>5. CASE Apply(c)
  <2>1. Effect(c, Loaded(c))[ThreadOf[c]] # NoThread
    BY <1>5, LoadedTyped, EffectTyped DEF Typed, Types, Apply, Known
  <2>2. memory' # Nothing
    BY <1>0, <1>5, <2>1 DEF Apply, Nothing
  <2>3. QED
    BY <1>0, <1>5, <2>2 DEF Typed, Types, Kinds, Apply, GoTo
<1>6. CASE Unknown(c)
  BY <1>0, <1>6 DEF Typed, Types, Kinds, Unknown, GoTo, Loaded
<1>7. CASE Capture(c)
  BY <1>0, <1>7 DEF Typed, Types, Kinds, Capture, GoTo
<1>8. CASE Open(c)
  BY <1>0, <1>8 DEF Typed, Types, Kinds, Open, GoTo, Empty
<1>9. CASE Write(c)
  BY <1>0, <1>9 DEF Typed, Types, Kinds, Write, GoTo, Whole, Torn
<1>10. CASE WritePiece(c)
  BY <1>0, <1>10 DEF Typed, Types, Kinds, WritePiece, Torn
<1>11. QED
  BY <1>1, <1>2, <1>3, <1>4, <1>5, <1>6, <1>7, <1>8, <1>9, <1>10 DEF Step

LEMMA TypedCrash == Typed /\ Crash => Typed'
<1>1. SUFFICES ASSUME Typed, Crash PROVE Types' /\ Kinds'
  BY DEF Typed
<1>2. crashes' \in 0 .. MaxCrashes
  BY <1>1, StoreAssumption DEF Typed, Types, Crash
<1>3. Types'
  BY <1>1, <1>2, Shapes DEF Typed, Types, Crash, Points
<1>4. \A c \in Calls :
        /\ pc'[c] \notin {"saving", "writing", "open"}
        /\ pc'[c] = "answered" => pc[c] = "answered"
        /\ pc'[c] = "idle" <=> pc[c] = "idle"
  BY <1>1 DEF Typed, Types, Crash, Running, Points
<1>5. Kinds'
  BY <1>1, <1>4 DEF Typed, Kinds, Crash
<1>6. QED
  BY <1>3, <1>5

LEMMA TypedStep == Typed /\ [Next]_vars => Typed'
<1>1. ASSUME Typed, UNCHANGED vars PROVE Typed'
  BY <1>1 DEF vars, Typed, Types, Kinds
<1>2. QED
  BY <1>1, TypesStep, KindsStep, TypedCrash DEF Next, Step, Typed

(* Every variable stays in its type, whatever calls overlap and whenever   *)
(* the process dies.                                                       *)
THEOREM TypeCorrect == Spec => []TypeOK
<1>1. Typed => TypeOK
  BY StoreAssumption DEF Typed, Types, Kinds, TypeOK, Work
<1>2. QED
  BY <1>1, TypedInit, TypedStep, PTL DEF Spec
-----------------------------------------------------------------------------
(* Order of the appends.                                                   *)

(* Appends that have done their work in memory. *)
Written == {c \in Calls : Op[c] = "append" /\
              pc[c] \in {"saving", "writing", "open", "answered", "died"}}

(* In history h, of appends in w, nothing is twice and nothing is before   *)
(* what p says it was made after.                                          *)
Ordered(h, w, p) ==
  \A t \in Threads : h[t] # NoThread =>
    /\ \A i \in DOMAIN h[t] : h[t][i] \in w
    /\ \A i, j \in DOMAIN h[t] :
         i < j => h[t][i] # h[t][j] /\ h[t][j] \notin p[h[t][i]]

OrderInv ==
  /\ \A c, d \in Calls : d \in past[c] => pc[d] = "answered"
  /\ Ordered(memory, Written, past)
  /\ Ordered(file.histories, Written, past)
  /\ \A c \in Calls : Ordered(data[c], Written, past)

LEMMA OrderedNothing ==
  ASSUME NEW w, NEW p
  PROVE  Ordered(Nothing, w, p)
  BY DEF Ordered, Nothing

LEMMA OrderedMore ==
  ASSUME NEW h \in Histories, NEW w, NEW v, NEW p, NEW q,
         Ordered(h, w, p), w \subseteq v, \A c \in w : q[c] = p[c]
  PROVE  Ordered(h, v, q)
  BY DEF Ordered

LEMMA OrderedEffect ==
  ASSUME Types, NEW c \in Calls, NEW h \in Histories, NEW w, NEW v, NEW p,
         does[c] \in Work \ {"look"},
         does[c] = "append" => h[ThreadOf[c]] # NoThread /\ c \in v,
         Ordered(h, w, p), w \subseteq v, c \notin w,
         \A d \in w : c \notin p[d]
  PROVE  Ordered(Effect(c, h), v, p)
<1> DEFINE g == Effect(c, h)
           s == h[ThreadOf[c]]
<1>0. ThreadOf[c] \in Threads
  BY StoreAssumption
<1>1. SUFFICES ASSUME NEW t \in Threads, g[t] # NoThread
               PROVE  /\ \A i \in DOMAIN g[t] : g[t][i] \in v
                      /\ \A i, j \in DOMAIN g[t] : i < j =>
                           /\ g[t][i] # g[t][j]
                           /\ g[t][j] \notin p[g[t][i]]
  BY DEF Ordered
<1>2. CASE t # ThreadOf[c]
  BY <1>1, <1>2, EffectTyped DEF Ordered
<1>3. CASE t = ThreadOf[c] /\ g[t] = <<>>
  BY <1>3
<1>4. CASE t = ThreadOf[c] /\ g[t] = h[t]
  BY <1>1, <1>4 DEF Ordered
<1>5. CASE t = ThreadOf[c] /\ does[c] = "append"
  <2>1. s \in Seq(Calls) /\ g[t] = Append(s, c) /\ s # NoThread
    BY <1>5, EffectTyped
  <2>2. /\ \A i \in DOMAIN s : s[i] \in w
        /\ \A i, j \in DOMAIN s :
             i < j => s[i] # s[j] /\ s[j] \notin p[s[i]]
    BY <1>0, <2>1 DEF Ordered
  <2>3. /\ DOMAIN g[t] = 1 .. Len(s) + 1
        /\ DOMAIN s = 1 .. Len(s)
        /\ Len(s) \in Nat
        /\ \A i \in 1 .. Len(s) : g[t][i] = s[i]
        /\ g[t][Len(s) + 1] = c
    BY <2>1
  <2>4. \A i \in DOMAIN g[t] : g[t][i] \in v
    BY <1>5, <2>2, <2>3
  <2>5. ASSUME NEW i \in DOMAIN g[t], NEW j \in DOMAIN g[t], i < j
        PROVE  g[t][i] # g[t][j] /\ g[t][j] \notin p[g[t][i]]
    <3>1. i \in 1 .. Len(s)
      BY <2>3, <2>5
    <3>2. CASE j \in 1 .. Len(s)
      BY <2>2, <2>3, <2>5, <3>1, <3>2
    <3>3. CASE j = Len(s) + 1
      BY <2>2, <2>3, <3>1, <3>3
    <3>4. QED
      BY <2>3, <3>2, <3>3
  <2>6. QED
    BY <2>4, <2>5
<1>6. QED
  BY <1>2, <1>3, <1>4, <1>5, EffectTyped DEF Work

(* What a call's step does to its place, and to no other's. *)
LEMMA PlacesStep ==
  ASSUME Typed, NEW c \in Calls, Step(c)
  PROVE  /\ Written \subseteq Written'
         /\ \A d \in Calls : d # c => pc'[d] = pc[d]
         /\ pc[c] \notin {"answered", "rejected", "died"}
         /\ \A d \in Written : past'[d] = past[d]
<1>1. CASE Issue(c)
  BY <1>1 DEF Typed, Types, Issue, AppendsBefore, GoTo, Written
<1>2. CASE ReadFile(c) \/ ReadFails(c) \/ Looked(c) \/ Apply(c) \/ Unknown(c)
  BY <1>2 DEF Typed, Types, Written, GoTo, ReadFile, ReadFails, Looked,
              Apply, Unknown
<1>3. CASE Capture(c) \/ Open(c) \/ WritePiece(c) \/ Write(c)
  BY <1>3 DEF Typed, Types, Written, GoTo, Capture, Open, WritePiece, Write
<1>4. QED
  BY <1>1, <1>2, <1>3 DEF Step

LEMMA PastStep ==
  ASSUME Typed, OrderInv, NEW c \in Calls, Step(c)
  PROVE  \A d, e \in Calls : e \in past'[d] => pc'[e] = "answered"
<1>1. past' = past \/ past' = [past EXCEPT ![c] = AppendsBefore(c)]
  BY DEF Step, Issue, ReadFile, ReadFails, Looked, Apply, Unknown, Capture,
         Open, WritePiece, Write
<1>2. \A d, e \in Calls : e \in past'[d] => pc[e] = "answered"
  BY <1>1 DEF OrderInv, Typed, Types, AppendsBefore
<1>3. QED
  BY <1>2, PlacesStep

LEMMA OrderStep ==
  ASSUME Typed, OrderInv, NEW c \in Calls, Step(c)
  PROVE  OrderInv'
<1> DEFINE W == Written
           P == past
<1>0. /\ memory \in Histories
      /\ file.histories \in Histories
      /\ data \in [Calls -> Histories]
      /\ Written \subseteq Written'
      /\ \A d \in Written : past'[d] = past[d]
      /\ Loaded(c) \in Histories
      /\ \A h \in Histories :
           Ordered(h, Written, past) => Ordered(h, Written', past')
  BY PlacesStep, LoadedTyped, OrderedMore DEF Typed, Types
<1>1. /\ Ordered(memory, Written', past')
      /\ Ordered(file.histories, Written', past')
      /\ \A d \in Calls : Ordered(data[d], Written', past')
      /\ Ordered(Loaded(c), Written', past')
      /\ Ordered(Nothing, Written', past')
  BY <1>0, OrderedNothing DEF OrderInv, Loaded
<1>2. Ordered(memory', Written', past')
  <2>1. CASE Apply(c)
    <3>1. c \notin Written /\ \A d \in Written : c \notin past[d]
      BY <2>1 DEF Apply, Written, OrderInv
    <3>2. does[c] = "append" => c \in Written'
      BY <2>1, StoreAssumption DEF Apply, GoTo, Written, Typed, Types, Kinds
    <3>3. /\ Ordered(Loaded(c), Written, past)
          /\ does[c] \in Work \ {"look"}
          /\ does[c] = "append" => Loaded(c)[ThreadOf[c]] # NoThread
      BY <2>1 DEF OrderInv, Loaded, Apply, Typed, Types, Known
    <3>4. Ordered(Effect(c, Loaded(c)), Written', past)
      BY <1>0, <3>1, <3>2, <3>3, OrderedEffect DEF Typed
    <3>5. QED
      BY <2>1, <3>4 DEF Apply
  <2>2. CASE ~Apply(c)
    <3>1. memory' = memory \/ memory' = Loaded(c)
      BY <2>2 DEF Step, Issue, ReadFile, ReadFails, Looked, Unknown, Capture,
                  Open, WritePiece, Write
    <3>2. QED
      BY <1>1, <3>1
  <2>3. QED
    BY <2>1, <2>2
<1>3. Ordered(file.histories', Written', past')
  <2>1. \/ file' = file
        \/ file'.histories = Nothing
        \/ file'.histories = data[c]
    BY DEF Step, Issue, ReadFile, ReadFails, Looked, Apply, Unknown, Capture,
           Open, WritePiece, Write, Empty, Torn, Whole
  <2>2. QED
    BY <1>1, <2>1
<1>4. \A d \in Calls : Ordered(data'[d], Written', past')
  <2>1. \/ data' = data
        \/ \E h \in {Nothing, file.histories, memory} :
             data' = [data EXCEPT ![c] = h]
    BY DEF Step, Issue, ReadFile, ReadFails, Looked, Apply, Unknown, Capture,
           Open, WritePiece, Write
  <2>2. QED
    BY <1>0, <1>1, <2>1
<1>5. QED
  BY <1>2, <1>3, <1>4, PastStep DEF OrderInv

LEMMA OrderCrash == Typed /\ OrderInv /\ Crash => OrderInv'
<1>1. SUFFICES ASSUME Typed, OrderInv, Crash PROVE OrderInv'
  OBVIOUS
<1>2. /\ Written \subseteq Written'
      /\ \A d \in Calls : pc[d] = "answered" => pc'[d] = "answered"
      /\ past' = past /\ file' = file
  BY <1>1 DEF Typed, Types, Crash, Written, Running
<1>3. file.histories \in Histories
  BY <1>1 DEF Typed, Types
<1>4. Ordered(file.histories', Written', past')
  BY <1>1, <1>2, <1>3, OrderedMore DEF OrderInv
<1>5. /\ Ordered(memory', Written', past')
      /\ \A d \in Calls : Ordered(data'[d], Written', past')
  BY <1>1, OrderedNothing DEF Crash
<1>6. QED
  BY <1>1, <1>2, <1>4, <1>5 DEF OrderInv

LEMMA OrderInit == Init => OrderInv
  BY OrderedNothing DEF Init, OrderInv, NoFile

LEMMA OrderNext == Typed /\ OrderInv /\ [Next]_vars => OrderInv'
<1>1. ASSUME OrderInv, UNCHANGED vars PROVE OrderInv'
  BY <1>1 DEF vars, OrderInv, Ordered, Written
<1>2. QED
  BY <1>1, OrderStep, OrderCrash DEF Next, Step

(* However calls overlap, no history holds an append twice, or before one  *)
(* that was answered when it was made.                                     *)
THEOREM AppendsInOrder == Spec => []InOrderOnce
<1>1. OrderInv => InOrderOnce
  BY DEF OrderInv, InOrderOnce, Ordered
<1>2. QED
  BY <1>1, TypedInit, TypedStep, OrderInit, OrderNext, PTL DEF Spec
-----------------------------------------------------------------------------
(* What calls that were alone leave behind.                                *)

Erased(t) == \E d \in erasers : ThreadOf[d] = t
StartsAlone(t) ==
  \A d \in overlapped : ~(Op[d] = "start" /\ ThreadOf[d] = t)

Solid(c) == pc[c] = "answered" /\ c \notin overlapped /\ ~Erased(ThreadOf[c])

(* What a call finds in everything that will be in the file. *)
Kept(c) ==
  /\ file.kind # "none"
  /\ file.kind = "whole" => Holds(file.histories, c)
  /\ \A d \in Calls : pc[d] = "saving" => Holds(memory, c)
  /\ \A d \in Calls :
       pc[d] \in {"loaded", "writing", "open"} => Holds(data[d], c)

(* The work of a running call is where its next step expects it. *)
OwnWork(c) ==
  /\ pc[c] = "saving" => Holds(memory, c)
  /\ pc[c] \in {"writing", "open"} => Holds(data[c], c)

(* A start that is alone, of a thread that is there. *)
OwnStart(c) ==
  /\ pc[c] = "loading" /\ does[c] = "create" => file.kind \in {"empty", "torn"}
  /\ pc[c] = "loaded" => /\ does[c] # "create"
                         /\ data[c][ThreadOf[c]] # NoThread

AloneRuns ==
  \A c, d \in Calls :
    Running(c) /\ Running(d) /\ c # d => c \in overlapped
AppendsStarted ==
  \A c \in Calls : Op[c] = "append" /\ pc[c] # "idle" => Started(ThreadOf[c])
ErasersOverlap == \A c \in erasers : ~StartsAlone(ThreadOf[c])

AloneInv ==
  /\ AloneRuns
  /\ AppendsStarted
  /\ ErasersOverlap
  /\ \A c \in Calls : Solid(c) => Kept(c)
  /\ \A c \in Calls : c \notin overlapped => OwnWork(c)
  /\ \A c \in Calls :
       /\ Op[c] = "start"
       /\ StartsAlone(ThreadOf[c])
       /\ Started(ThreadOf[c])
       => OwnStart(c)

(* The frame of a call's step: what it may do to other calls. *)
LEMMA AloneFrame ==
  ASSUME Typed, NEW c \in Calls, Step(c)
  PROVE  /\ overlapped \subseteq overlapped'
         /\ erasers \subseteq erasers'
         /\ \A d \in Calls : d # c => pc'[d] = pc[d]
         /\ \A d \in Calls : d # c => does'[d] = does[d]
         /\ \A d \in Calls : d # c => data'[d] = data[d]
         /\ \A t : Started(t) => Started(t)'
<1>1. /\ overlapped \subseteq overlapped'
      /\ erasers \subseteq erasers'
      /\ \A d \in Calls : d # c => does'[d] = does[d]
      /\ \A d \in Calls : d # c => data'[d] = data[d]
  BY DEF Typed, Types, Step, Issue, ReadFile, ReadFails, Looked, Apply,
         Unknown, Capture, Open, WritePiece, Write
<1>2. QED
  BY <1>1, PlacesStep DEF Started

LEMMA AloneRunsStep ==
  ASSUME Typed, AloneRuns, NEW c \in Calls, Step(c)
  PROVE  AloneRuns'
<1>1. CASE Issue(c)
  <2>1. \A d \in Calls : Running(d)' <=> Running(d) \/ d = c
    BY <1>1 DEF Issue, GoTo, Running, Typed, Types
  <2>2. QED
    BY <1>1, <2>1 DEF Issue, AloneRuns
<1>2. CASE ~Issue(c)
  <2>1. Running(c)
    BY <1>2 DEF Step, ReadFile, ReadFails, Looked, Apply, Unknown, Capture,
                Open, WritePiece, Write, Running
  <2>2. \A d \in Calls : Running(d)' => Running(d)
    BY <2>1, PlacesStep DEF Running
  <2>3. QED
    BY <2>2, AloneFrame DEF AloneRuns
<1>3. QED
  BY <1>1, <1>2

LEMMA AppendsStartedStep ==
  ASSUME Typed, AppendsStarted, NEW c \in Calls, Step(c)
  PROVE  AppendsStarted'
<1>1. pc[c] = "idle" => Issue(c)
  BY DEF Step, ReadFile, ReadFails, Looked, Apply, Unknown, Capture, Open,
         WritePiece, Write
<1>2. Op[c] = "append" => Started(ThreadOf[c])
  BY <1>1 DEF Issue, AppendsStarted
<1>3. QED
  BY <1>2, AloneFrame DEF AppendsStarted

LEMMA ErasersStep ==
  ASSUME Typed, AloneInv, NEW c \in Calls, Step(c)
  PROVE  ErasersOverlap'
<1>1. \A t : ~StartsAlone(t) => ~StartsAlone(t)'
  BY AloneFrame DEF StartsAlone
<1>2. CASE erasers' = erasers
  BY <1>1, <1>2 DEF AloneInv, ErasersOverlap
<1>3. CASE erasers' # erasers
  <2>1. /\ Apply(c)
        /\ erasers' = erasers \union {c}
        /\ does[c] = "create"
        /\ Started(ThreadOf[c])
        /\ pc[c] = "loaded"
    BY <1>3 DEF Step, Issue, ReadFile, ReadFails, Looked, Apply, Unknown,
                Capture, Open, WritePiece, Write
  <2>2. Op[c] = "start"
    BY <2>1, StoreAssumption DEF Typed, Kinds
  <2>3. ~StartsAlone(ThreadOf[c])
    BY <2>1, <2>2 DEF AloneInv, OwnStart
  <2>4. QED
    BY <1>1, <2>1, <2>3 DEF AloneInv, ErasersOverlap
<1>4. QED
  BY <1>2, <1>3

LEMMA HoldsIsSome ==
  ASSUME NEW c \in Calls, NEW h, Holds(h, c)
  PROVE  h[ThreadOf[c]] # NoThread /\ h # Nothing
<1>1. ThreadOf[c] \in Threads
  BY StoreAssumption
<1>2. QED
  BY <1>1 DEF Holds, Nothing

(* The work of a call keeps what other calls wrote, unless it creates      *)
(* their thread; and it is in the history afterwards.                      *)
LEMMA EffectHolds ==
  ASSUME NEW c \in Calls, NEW d \in Calls, NEW h \in Histories,
         does[d] \in Work \ {"look"},
         does[d] = "append" => h[ThreadOf[d]] # NoThread,
         does[d] = "create" => ThreadOf[d] # ThreadOf[c],
         Holds(h, c)
  PROVE  Holds(Effect(d, h), c)
<1>0. ThreadOf[c] \in Threads /\ h[ThreadOf[c]] # NoThread
  BY StoreAssumption DEF Holds
<1>1. CASE ThreadOf[d] # ThreadOf[c]
  BY <1>0, <1>1, EffectTyped DEF Holds
<1>2. CASE ThreadOf[d] = ThreadOf[c] /\ does[d] = "resume"
  BY <1>0, <1>2, EffectTyped DEF Holds
<1>3. CASE ThreadOf[d] = ThreadOf[c] /\ does[d] = "append"
  <2>1. /\ h[ThreadOf[c]] \in Seq(Calls)
        /\ Effect(d, h)[ThreadOf[c]] = Append(h[ThreadOf[c]], d)
        /\ Effect(d, h)[ThreadOf[c]] # NoThread
    BY <1>3, EffectTyped
  <2>2. ToSet(h[ThreadOf[c]]) \subseteq ToSet(Append(h[ThreadOf[c]], d))
    BY <2>1 DEF ToSet
  <2>3. QED
    BY <1>0, <2>1, <2>2 DEF Holds
<1>4. QED
  BY <1>1, <1>2, <1>3 DEF Work

LEMMA EffectHoldsOwn ==
  ASSUME Typed, NEW c \in Calls, NEW h \in Histories,
         does[c] \in Work \ {"look"},
         does[c] = "append" => h[ThreadOf[c]] # NoThread
  PROVE  Holds(Effect(c, h), c)
<1>1. Effect(c, h)[ThreadOf[c]] # NoThread
  BY EffectTyped
<1>2. CASE Op[c] = "append"
  <2>1. does[c] = "append"
    BY <1>2 DEF Typed, Kinds
  <2>2. /\ h[ThreadOf[c]] \in Seq(Calls)
        /\ Effect(c, h)[ThreadOf[c]] = Append(h[ThreadOf[c]], c)
    BY <2>1, EffectTyped
  <2>3. c \in ToSet(Append(h[ThreadOf[c]], c))
    BY <2>2 DEF ToSet
  <2>4. QED
    BY <1>1, <2>2, <2>3 DEF Holds
<1>3. QED
  BY <1>1, <1>2 DEF Holds

(* The steps of other calls keep what a call left. *)
LEMMA KeptStep ==
  ASSUME Typed, AloneInv, NEW c \in Calls, Step(c),
         NEW e \in Calls, e # c, Solid(e)'
  PROVE  Kept(e)'
<1>1. Solid(e)
  BY AloneFrame DEF Solid, Erased
<1>2. Kept(e)
  BY <1>1 DEF AloneInv
<1>3. Started(ThreadOf[e])
  BY <1>1, StoreAssumption DEF Solid, Started, AloneInv, AppendsStarted
<1>4. pc[c] = "loaded" => Loaded(c) = data[c] /\ Holds(Loaded(c), e)
  BY <1>2, HoldsIsSome DEF Kept, Loaded
<1>5. CASE Issue(c) \/ ReadFile(c) \/ ReadFails(c)
  BY <1>2, <1>5 DEF Kept, Issue, ReadFile, ReadFails, GoTo, Typed, Types
<1>6. CASE Looked(c) \/ Unknown(c)
  BY <1>2, <1>4, <1>6 DEF Kept, Looked, Unknown, GoTo, Typed, Types
<1>7. CASE Apply(c)
  <2>1. does[c] = "create" => ThreadOf[c] # ThreadOf[e]
    BY <1>3, <1>7 DEF Apply, Solid, Erased
  <2>2. Holds(memory', e)
    BY <1>4, <1>7, <2>1, LoadedTyped, EffectHolds
    DEF Apply, Typed, Types, Known
  <2>3. QED
    BY <1>2, <1>7, <2>2 DEF Kept, Apply, GoTo, Typed, Types
<1>8. CASE Capture(c)
  BY <1>2, <1>8 DEF Kept, Capture, GoTo, Typed, Types
<1>9. CASE Open(c)
  BY <1>2, <1>9 DEF Kept, Open, GoTo, Typed, Types, Empty
<1>10. CASE Write(c)
  <2>1. Holds(data[c], e)
    BY <1>2, <1>10 DEF Kept, Write
  <2>2. /\ file'.kind # "none"
        /\ file'.kind = "whole" => file'.histories = data[c]
    BY <1>10 DEF Write, Whole, Torn
  <2>3. QED
    BY <1>2, <1>10, <2>1, <2>2 DEF Kept, Write, GoTo, Typed, Types
<1>11. CASE WritePiece(c)
  BY <1>2, <1>11 DEF Kept, WritePiece, Torn
<1>12. QED
  BY <1>5, <1>6, <1>7, <1>8, <1>9, <1>10, <1>11 DEF Step

(* A call that was alone leaves its own work. *)
LEMMA KeptOwn ==
  ASSUME Typed, AloneInv, NEW c \in Calls, Step(c), Solid(c)'
  PROVE  Kept(c)'
<1>1. Write(c)
  BY DEF Solid, Step, Issue, ReadFile, ReadFails, Looked, Apply, Unknown,
         Capture, Open, WritePiece, GoTo, Typed, Types
<1>2. c \notin overlapped
  BY AloneFrame DEF Solid
<1>3. \A d \in Calls : ~Running(d)'
  BY <1>1, <1>2 DEF AloneInv, AloneRuns, Running, Write, GoTo, Typed, Types
<1>4. Holds(data[c], c)
  BY <1>1, <1>2 DEF AloneInv, OwnWork, Write
<1>5. /\ file'.kind # "none"
      /\ file'.kind = "whole" => file'.histories = data[c]
  BY <1>1 DEF Write, Whole, Torn
<1>6. QED
  BY <1>3, <1>4, <1>5 DEF Kept, Running

LEMMA OwnWorkStep ==
  ASSUME Typed, AloneInv, NEW c \in Calls, Step(c),
         NEW e \in Calls, e \notin overlapped'
  PROVE  OwnWork(e)'
<1>1. e \notin overlapped /\ OwnWork(e)
  BY AloneFrame DEF AloneInv
<1>2. CASE e # c
  <2>1. CASE Running(e)
    <3>1. ~Running(c)
      BY <1>1, <1>2, <2>1 DEF AloneInv, AloneRuns
    <3>2. Issue(c)
      BY <3>1 DEF Step, ReadFile, ReadFails, Looked, Apply, Unknown, Capture,
                  Open, WritePiece, Write, Running
    <3>3. QED
      BY <2>1, <3>2 DEF Issue
  <2>2. CASE ~Running(e)
    BY <1>2, <2>2, PlacesStep DEF Running, OwnWork
  <2>3. QED
    BY <2>1, <2>2
<1>3. CASE e = c
  <2>1. CASE Apply(c)
    <3>1. Holds(memory', c)
      BY <2>1, LoadedTyped, EffectHoldsOwn DEF Apply, Typed, Types, Known
    <3>2. QED
      BY <1>3, <2>1, <3>1 DEF OwnWork, Apply, GoTo, Typed, Types
  <2>2. CASE Capture(c)
    BY <1>1, <1>3, <2>2 DEF OwnWork, Capture, GoTo, Typed, Types
  <2>3. CASE Open(c)
    BY <1>1, <1>3, <2>3 DEF OwnWork, Open, GoTo, Typed, Types
  <2>4. CASE WritePiece(c)
    BY <1>1, <1>3, <2>4 DEF OwnWork, WritePiece
  <2>5. CASE ~Apply(c) /\ ~Capture(c) /\ ~Open(c) /\ ~WritePiece(c)
    BY <1>3, <2>5 DEF OwnWork, Step, Issue, ReadFile, ReadFails, Looked,
                      Unknown, Write, GoTo, Typed, Types
  <2>6. QED
    BY <2>1, <2>2, <2>3, <2>4, <2>5
<1>4. QED
  BY <1>2, <1>3

(* Where every start of a thread was alone, what they made is there. *)
LEMMA StartedKept ==
  ASSUME AloneInv, NEW t, Started(t), StartsAlone(t)
  PROVE  /\ file.kind # "none"
         /\ file.kind = "whole" => file.histories[t] # NoThread
         /\ \A d \in Calls : pc[d] = "loaded" => data[d][t] # NoThread
<1>1. PICK d \in Calls : /\ Op[d] = "start" /\ ThreadOf[d] = t
                         /\ pc[d] = "answered"
  BY DEF Started
<1>2. Solid(d)
  BY <1>1 DEF Solid, Erased, StartsAlone, AloneInv, ErasersOverlap
<1>3. Kept(d)
  BY <1>2 DEF AloneInv
<1>4. QED
  BY <1>1, <1>3, HoldsIsSome DEF Kept

LEMMA OwnStartStep ==
  ASSUME Typed, AloneInv, NEW c \in Calls, Step(c),
         NEW e \in Calls, Op[e] = "start", StartsAlone(ThreadOf[e])',
         Started(ThreadOf[e])'
  PROVE  OwnStart(e)'
<1> DEFINE t == ThreadOf[e]
<1>1. StartsAlone(t) /\ e \notin overlapped'
  BY AloneFrame DEF StartsAlone
<1>2. e \notin overlapped
  BY <1>1, AloneFrame
<1>3. CASE e # c
  <2>1. CASE Running(e)
    <3>1. ~Running(c)
      BY <1>2, <1>3, <2>1 DEF AloneInv, AloneRuns
    <3>2. Issue(c)
      BY <3>1 DEF Step, ReadFile, ReadFails, Looked, Apply, Unknown, Capture,
                  Open, WritePiece, Write, Running
    <3>3. QED
      BY <1>1, <2>1, <3>2 DEF Issue
  <2>2. CASE ~Running(e)
    BY <1>3, <2>2, PlacesStep DEF Running, OwnStart
  <2>3. QED
    BY <2>1, <2>2
<1>4. CASE e = c
  <2>1. CASE Issue(c)
    BY <1>4, <2>1 DEF OwnStart, Issue, GoTo, Typed, Types, Kinds
  <2>2. CASE \/ Write(c) \/ WritePiece(c) \/ Capture(c) \/ Open(c)
             \/ Apply(c) \/ Unknown(c)
    BY <1>4, <2>2 DEF OwnStart, Write, WritePiece, Capture, Open, Apply,
                      Unknown, GoTo, Typed, Types
  <2>3. CASE ReadFile(c) \/ ReadFails(c) \/ Looked(c)
    <3>1. Started(t)
      <4>1. PICK d \in Calls : /\ Op[d] = "start" /\ ThreadOf[d] = t
                               /\ pc'[d] = "answered"
        BY DEF Started
      <4>2. d # c
        BY <2>3, <4>1 DEF ReadFile, ReadFails, Looked, GoTo, Typed, Types
      <4>3. QED
        BY <4>1, <4>2, PlacesStep DEF Started
    <3>2. OwnStart(c)
      BY <1>1, <1>4, <3>1 DEF AloneInv
    <3>3. /\ file.kind = "whole" => file.histories[t] # NoThread
          /\ file.kind # "none"
          /\ pc[c] = "loaded" => data[c][t] # NoThread
      BY <1>1, <3>1, StartedKept
    <3>4. CASE ReadFile(c)
      BY <1>4, <3>2, <3>3, <3>4
      DEF OwnStart, ReadFile, GoTo, Typed, Types
    <3>5. CASE ReadFails(c)
      BY <1>4, <3>5 DEF OwnStart, ReadFails, GoTo, Typed, Types
    <3>6. CASE Looked(c)
      <4>1. Known(c)
        BY <1>4, <3>3, <3>6, StoreAssumption DEF Known, Looked, Loaded, Nothing
      <4>2. QED
        BY <1>4, <3>6, <4>1 DEF OwnStart, Looked, GoTo, Typed, Types
    <3>7. QED
      BY <2>3, <3>4, <3>5, <3>6
  <2>4. QED
    BY <2>1, <2>2, <2>3 DEF Step
<1>5. QED
  BY <1>3, <1>4

LEMMA AloneStep ==
  ASSUME Typed, AloneInv, NEW c \in Calls, Step(c)
  PROVE  AloneInv'
<1>1. AloneRuns' /\ AppendsStarted' /\ ErasersOverlap'
  BY AloneRunsStep, AppendsStartedStep, ErasersStep DEF AloneInv
<1>2. \A e \in Calls : Solid(e)' => Kept(e)'
  BY KeptStep, KeptOwn
<1>3. \A e \in Calls : e \notin overlapped' => OwnWork(e)'
  BY OwnWorkStep
<1>4. \A e \in Calls :
        Op[e] = "start" /\ StartsAlone(ThreadOf[e])' /\ Started(ThreadOf[e])'
          => OwnStart(e)'
  BY OwnStartStep
<1>5. QED
  BY <1>1, <1>2, <1>3, <1>4 DEF AloneInv

LEMMA AloneCrash == Typed /\ AloneInv /\ Crash => AloneInv'
<1>1. SUFFICES ASSUME Typed, AloneInv, Crash PROVE AloneInv'
  OBVIOUS
<1>2. /\ \A d \in Calls : ~Running(d)'
      /\ \A d \in Calls : pc'[d] = "answered" <=> pc[d] = "answered"
      /\ \A d \in Calls : pc'[d] = "idle" <=> pc[d] = "idle"
      /\ file' = file /\ overlapped' = overlapped /\ erasers' = erasers
  BY <1>1 DEF Typed, Types, Crash, Running
<1>3. \A t : Started(t)' <=> Started(t)
  BY <1>2 DEF Started
<1>4. AloneRuns' /\ AppendsStarted' /\ ErasersOverlap'
  BY <1>1, <1>2, <1>3
  DEF AloneInv, AloneRuns, AppendsStarted, ErasersOverlap, StartsAlone
<1>5. \A e \in Calls : Solid(e)' => Kept(e)'
  BY <1>1, <1>2 DEF AloneInv, Solid, Erased, Kept, Running
<1>6. \A e \in Calls : OwnWork(e)' /\ OwnStart(e)'
  BY <1>2 DEF OwnWork, OwnStart, Running
<1>7. QED
  BY <1>4, <1>5, <1>6 DEF AloneInv

LEMMA AloneInit == Init => AloneInv
  BY DEF Init, AloneInv, AloneRuns, AppendsStarted, ErasersOverlap, Solid,
         OwnWork, OwnStart, Running

LEMMA AloneNext == Typed /\ AloneInv /\ [Next]_vars => AloneInv'
<1>1. ASSUME AloneInv, UNCHANGED vars PROVE AloneInv'
  BY <1>1 DEF vars, AloneInv, AloneRuns, AppendsStarted, ErasersOverlap,
              StartsAlone, Started, Solid, Erased, Kept, OwnWork, OwnStart,
              Running
<1>2. QED
  BY <1>1, AloneStep, AloneCrash DEF Next, Step

(* A call that was answered without meeting another stays in the file,     *)
(* unless a start that met another erased its thread.                      *)
THEOREM AloneStays == Spec => []AloneIsDurable
<1>1. AloneInv => AloneIsDurable
  <2>1. SUFFICES ASSUME AloneInv PROVE AloneIsDurable
    OBVIOUS
  <2>2. \A c \in erasers : \E d \in overlapped :
          Op[d] = "start" /\ ThreadOf[d] = ThreadOf[c]
    BY <2>1 DEF AloneInv, ErasersOverlap, StartsAlone
  <2>3. ASSUME NEW c \in Calls, pc[c] = "answered", c \notin overlapped,
               \A d \in erasers : ThreadOf[d] # ThreadOf[c],
               file.kind \in {"none", "whole"}
        PROVE  Holds(file.histories, c)
    BY <2>1, <2>3 DEF AloneInv, Solid, Erased, Kept
  <2>4. QED
    BY <2>2, <2>3 DEF AloneIsDurable
<1>2. QED
  BY <1>1, TypedInit, TypedStep, AloneInit, AloneNext, PTL DEF Spec
-----------------------------------------------------------------------------
(* What makes the file unreadable, and calls reject.                       *)

BadFile == file.kind \in {"empty", "torn"}

FailuresInv ==
  /\ \A c, d \in Calls : pc[c] = "open" /\ pc[d] = "open" /\ c # d => collided
  /\ \A c \in Calls : pc[c] = "open" /\ file.kind # "empty" => collided
  /\ BadFile => cut \/ collided \/ \E c \in Calls : pc[c] = "open"
  /\ \A c \in Calls : pc[c] = "rejected" =>
       cut \/ collided \/ c \in overlapped \/ ~StartsAlone(ThreadOf[c])

LEMMA RejectedStep ==
  ASSUME Typed, AloneInv, FailuresInv, NEW c \in Calls, Step(c),
         pc'[c] = "rejected"
  PROVE  cut \/ collided \/ c \in overlapped \/ ~StartsAlone(ThreadOf[c])
<1>1. CASE ReadFails(c)
  <2>1. BadFile /\ pc[c] = "loading"
    BY <1>1 DEF ReadFails, BadFile
  <2>2. CASE \E d \in Calls : pc[d] = "open"
    BY <2>1, <2>2 DEF AloneInv, AloneRuns, Running
  <2>3. QED
    BY <2>1, <2>2 DEF FailuresInv
<1>2. CASE Unknown(c)
  <2>1. pc[c] = "loaded" /\ ~Known(c) /\ Op[c] = "append"
    BY <1>2 DEF Unknown, Typed, Kinds
  <2>2. Started(ThreadOf[c])
    BY <2>1 DEF AloneInv, AppendsStarted
  <2>3. data[c] = Nothing \/ data[c][ThreadOf[c]] = NoThread
    BY <2>1 DEF Known, Loaded
  <2>4. data[c][ThreadOf[c]] = NoThread
    BY <2>3, StoreAssumption DEF Nothing
  <2>5. QED
    BY <2>1, <2>2, <2>4, StartedKept
<1>3. QED
  BY <1>1, <1>2 DEF Step, Issue, ReadFile, Looked, Apply, Capture, Open,
                    WritePiece, Write, GoTo, Typed, Types

LEMMA FailuresStep ==
  ASSUME Typed, AloneInv, FailuresInv, NEW c \in Calls, Step(c)
  PROVE  FailuresInv'
<1>1. /\ \A d \in Calls : d # c => pc'[d] = pc[d]
      /\ collided => collided'
      /\ cut' = cut
      /\ overlapped \subseteq overlapped'
  <2>1. cut' = cut
    BY DEF Step, Issue, ReadFile, ReadFails, Looked, Apply, Unknown, Capture,
           Open, WritePiece, Write
  <2>2. ASSUME Open(c), collided PROVE collided'
    BY <2>2, Zenon DEF Open
  <2>3. ASSUME ~Open(c) PROVE collided' = collided
    BY <2>3 DEF Step, Issue, ReadFile, ReadFails, Looked, Apply, Unknown,
                Capture, WritePiece, Write
  <2>4. QED
    BY <2>1, <2>2, <2>3, AloneFrame
<1>2. \A d \in Calls : pc'[d] = "rejected" =>
        \/ cut' \/ collided' \/ d \in overlapped'
        \/ ~StartsAlone(ThreadOf[d])'
  BY <1>1, RejectedStep DEF FailuresInv, StartsAlone
<1>3. CASE Open(c)
  <2>1. \A d, e \in Calls : pc'[d] = "open" /\ pc'[e] = "open" /\ d # e =>
          collided'
    BY <1>1, <1>3 DEF Open, GoTo
  <2>2. file'.kind = "empty" /\ pc'[c] = "open"
    BY <1>3 DEF Open, GoTo, Empty, Typed, Types
  <2>3. QED
    BY <1>2, <2>1, <2>2 DEF FailuresInv
<1>4. CASE Write(c)
  <2>1. pc[c] = "open" /\ pc'[c] = "answered"
    BY <1>4 DEF Write, GoTo, Typed, Types
  <2>2. \A d \in Calls : pc'[d] = "open" => pc[d] = "open" /\ collided
    BY <1>1, <2>1 DEF FailuresInv
  <2>3. CASE BadFile'
    <3>1. MayLeaveEnd(c)
      BY <1>4, <2>3 DEF Write, BadFile, Whole
    <3>2. collided
      BY <2>1, <3>1 DEF MayLeaveEnd, FailuresInv
    <3>3. QED
      BY <1>1, <1>2, <2>2, <3>2 DEF FailuresInv
  <2>4. CASE ~BadFile'
    BY <1>1, <1>2, <2>2, <2>4 DEF FailuresInv
  <2>5. QED
    BY <2>3, <2>4
<1>5. CASE WritePiece(c)
  <2>1. pc[c] = "open" /\ collided /\ file' = Torn
        /\ pc' = pc /\ collided' = collided
    BY <1>5 DEF WritePiece, FailuresInv
  <2>2. QED
    BY <1>1, <1>2, <2>1 DEF FailuresInv
<1>6. CASE ~Open(c) /\ ~WritePiece(c) /\ ~Write(c)
  <2>1. /\ file' = file /\ collided' = collided
        /\ pc[c] # "open" /\ pc'[c] # "open"
    BY <1>6 DEF Step, Issue, ReadFile, ReadFails, Looked, Apply, Unknown,
                Capture, GoTo, Typed, Types
  <2>2. \A d \in Calls : pc'[d] = "open" <=> pc[d] = "open"
    BY <1>1, <2>1
  <2>3. QED
    BY <1>1, <1>2, <2>1, <2>2 DEF FailuresInv, BadFile
<1>7. QED
  BY <1>3, <1>4, <1>5, <1>6

LEMMA FailuresCrash == Typed /\ FailuresInv /\ Crash => FailuresInv'
<1>1. SUFFICES ASSUME Typed, FailuresInv, Crash PROVE FailuresInv'
  OBVIOUS
<1>2. /\ \A d \in Calls : pc'[d] # "open"
      /\ \A d \in Calls : pc'[d] = "rejected" => pc[d] = "rejected"
      /\ cut' = (cut \/ \E d \in Calls : pc[d] = "open")
      /\ file' = file /\ overlapped' = overlapped /\ collided' = collided
  BY <1>1 DEF Typed, Types, Crash, Running
<1>3. QED
  BY <1>1, <1>2 DEF FailuresInv, BadFile, StartsAlone

LEMMA FailuresNext ==
  Typed /\ AloneInv /\ FailuresInv /\ [Next]_vars => FailuresInv'
<1>1. ASSUME FailuresInv, UNCHANGED vars PROVE FailuresInv'
  BY <1>1 DEF vars, FailuresInv, BadFile, StartsAlone
<1>2. QED
  BY <1>1, FailuresStep, FailuresCrash DEF Next, Step

LEMMA FailuresInit == Init => FailuresInv
  BY DEF Init, FailuresInv, BadFile, NoFile

(* The file becomes unreadable by a crash in a write or by two writes at   *)
(* once, and a call that met no other rejects for no other reason, unless  *)
(* a start of its thread met another call.                                 *)
THEOREM FailuresHaveCauses == Spec => []FailuresExplained
<1>1. FailuresInv => FailuresExplained
  BY DEF FailuresInv, FailuresExplained, BadFile, StartsAlone
<1>2. QED
  BY <1>1, TypedInit, TypedStep, AloneInit, AloneNext, FailuresInit,
     FailuresNext, PTL DEF Spec
=============================================================================
