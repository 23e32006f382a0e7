-------------------------- MODULE LocalThreadStore --------------------------
(***************************************************************************)
(* The thread store in one JSON file.  Every call reads the whole file     *)
(* into the memory of the store, does its work there, and writes the       *)
(* memory back; calls of all threads overlap as their callers please, and  *)
(* the process can die at any moment.                                      *)
(*                                                                         *)
(* The calls are those of thread/start (ensureLiveThread: look the thread  *)
(* up, then resume it, or create it if that failed), which no queue        *)
(* serializes and which a chat makes whenever it connects; and of a        *)
(* session's appends.  The other calls that write (metadata, archive,      *)
(* flush) have the shape of an append, those that read the shape of a      *)
(* look.                                                                   *)
(***************************************************************************)
EXTENDS Integers, SequencesExt

CONSTANTS
  Threads,    \* threads
  Calls,      \* calls; an append writes the call's own name
  Op,         \* Op[c]: "start" or "append"
  ThreadOf,   \* ThreadOf[c]: the thread a call is about
  NoThread,   \* in place of a history: the thread is unknown
  MaxCrashes  \* bound: crashes of the process

ASSUME StoreAssumption ==
  /\ Op \in [Calls -> {"start", "append"}]
  /\ ThreadOf \in [Calls -> Threads]
  /\ NoThread \notin Seq(Calls)
  /\ MaxCrashes \in Nat

VARIABLES
  memory,     \* the histories in memory
  file,       \* what the file holds, and the histories if it is whole
  does,       \* the call of the store a call is making
  pc,         \* program point of each call
  data,       \* histories a call has read, or is about to write
  past,       \* the appends answered before each append was made
  overlapped, \* calls that were not alone
  cut,        \* a crash came while the file was being written
  collided,   \* two calls had the file open for writing
  erasers,    \* starts that created a thread another start had made
  crashes     \* crashes so far

vars == <<memory, file, does, pc, data, past, overlapped, cut, collided,
          erasers, crashes>>

Nothing == [t \in Threads |-> NoThread]
NoFile == [kind |-> "none", histories |-> Nothing]
Empty == [kind |-> "empty", histories |-> Nothing]
Torn == [kind |-> "torn", histories |-> Nothing]
Whole(h) == [kind |-> "whole", histories |-> h]

Running(c) == pc[c] \in {"loading", "loaded", "saving", "writing", "open"}
GoTo(c, p) == pc' = [pc EXCEPT ![c] = p]

Init ==
  /\ memory = Nothing
  /\ file = NoFile
  /\ does = [c \in Calls |-> IF Op[c] = "start" THEN "look" ELSE "append"]
  /\ pc = [c \in Calls |-> "idle"]
  /\ data = [c \in Calls |-> Nothing]
  /\ past = [c \in Calls |-> {}]
  /\ overlapped = {}
  /\ cut = FALSE
  /\ collided = FALSE
  /\ erasers = {}
  /\ crashes = 0

(* A call is made: any chat may start a thread, and a session appends to   *)
(* one that was started.                                                   *)
Started(t) ==
  \E d \in Calls : Op[d] = "start" /\ ThreadOf[d] = t /\ pc[d] = "answered"

(* What an append has to stand behind. *)
AppendsBefore(c) ==
  {d \in Calls : /\ Op[c] = "append"
                 /\ Op[d] = "append" /\ pc[d] = "answered"}

Issue(c) ==
  /\ pc[c] = "idle"
  /\ Op[c] # "start" => Started(ThreadOf[c])
  /\ GoTo(c, "loading")
  /\ past' = [past EXCEPT ![c] = AppendsBefore(c)]
  /\ overlapped' = LET others == {d \in Calls : Running(d)}
                   IN  IF others = {} THEN overlapped
                       ELSE overlapped \union others \union {c}
  /\ UNCHANGED <<memory, file, does, data, cut, collided, erasers, crashes>>

(* load: readFile has the content.  No file is no error. *)
ReadFile(c) ==
  /\ pc[c] = "loading"
  /\ file.kind \in {"none", "whole"}
  /\ GoTo(c, "loaded")
  /\ data' = [data EXCEPT ![c] = file.histories]
  /\ UNCHANGED <<memory, file, does, past, overlapped, cut, collided, erasers,
                 crashes>>

(* What is no whole document does not parse, and the call of the store     *)
(* rejects.  A start whose look rejects goes on to create the thread.      *)
ReadFails(c) ==
  /\ pc[c] = "loading"
  /\ file.kind \in {"empty", "torn"}
  /\ IF does[c] = "look"
     THEN does' = [does EXCEPT ![c] = "create"] /\ UNCHANGED pc
     ELSE GoTo(c, "rejected") /\ UNCHANGED does
  /\ UNCHANGED <<memory, file, data, past, overlapped, cut, collided, erasers,
                 crashes>>

(* Slip: what memory holds of a thread is kept, and what the file holds is *)
(* added to it.                                                            *)
LoadedMore(c) ==
  [t \in Threads |->
     IF memory[t] = NoThread THEN data[c][t]
     ELSE IF data[c][t] = NoThread THEN memory[t]
     ELSE memory[t] \o data[c][t]]

(* restoreSnapshot, unless there was no file. *)
Loaded(c) == IF data[c] = Nothing THEN memory ELSE data[c]

(* The calls of the in-memory store. *)
Created(c, h) == [h EXCEPT ![ThreadOf[c]] = <<>>]
Resumed(c, h) ==
  [h EXCEPT ![ThreadOf[c]] = IF @ = NoThread THEN <<>> ELSE @]
Appended(c, h) == [h EXCEPT ![ThreadOf[c]] = Append(@, c)]
Effect(c, h) ==
  CASE does[c] = "create" -> Created(c, h)
    [] does[c] = "resume" -> Resumed(c, h)
    [] does[c] = "append" -> Appended(c, h)

Known(c) == Loaded(c)[ThreadOf[c]] # NoThread

(* Slip: a start does not look whether the thread is there. *)
LookedBlindly(c) ==
  /\ pc[c] = "loaded"
  /\ does[c] = "look"
  /\ does' = [does EXCEPT ![c] = "create"]
  /\ memory' = Loaded(c)
  /\ GoTo(c, "loading")
  /\ data' = [data EXCEPT ![c] = Nothing]
  /\ UNCHANGED <<file, past, overlapped, cut, collided, erasers, crashes>>

(* ensureLiveThread: a thread that is there is resumed, else created. *)
Looked(c) ==
  /\ pc[c] = "loaded"
  /\ does[c] = "look"
  /\ does' = [does EXCEPT ![c] = IF Known(c) THEN "resume" ELSE "create"]
  /\ memory' = Loaded(c)
  /\ GoTo(c, "loading")
  /\ data' = [data EXCEPT ![c] = Nothing]
  /\ UNCHANGED <<file, past, overlapped, cut, collided, erasers, crashes>>

(* The memory becomes what was read, and the call does its work there: at  *)
(* once, as far as other calls can tell.                                   *)
Apply(c) ==
  /\ pc[c] = "loaded"
  /\ does[c] # "look"
  /\ does[c] = "append" => Known(c)
  /\ memory' = Effect(c, Loaded(c))
  /\ GoTo(c, "saving")
  /\ data' = [data EXCEPT ![c] = Nothing]
  /\ erasers' = IF does[c] = "create" /\ Started(ThreadOf[c])
                THEN erasers \union {c} ELSE erasers
  /\ UNCHANGED <<file, does, past, overlapped, cut, collided, crashes>>

(* An append to a thread that is not there rejects. *)
Unknown(c) ==
  /\ pc[c] = "loaded"
  /\ does[c] = "append"
  /\ ~Known(c)
  /\ memory' = Loaded(c)
  /\ GoTo(c, "rejected")
  /\ data' = [data EXCEPT ![c] = Nothing]
  /\ UNCHANGED <<file, does, past, overlapped, cut, collided, erasers, crashes>>
-----------------------------------------------------------------------------
(* save.                                                                   *)

(* Slip: nothing is captured of what memory holds beyond the file. *)
CaptureFile(c) ==
  /\ pc[c] = "saving"
  /\ GoTo(c, "writing")
  /\ data' = [data EXCEPT ![c] = file.histories]
  /\ UNCHANGED <<memory, file, does, past, overlapped, cut, collided, erasers,
                 crashes>>

(* The directory is there: the snapshot is taken and writeFile called. *)
Capture(c) ==
  /\ pc[c] = "saving"
  /\ GoTo(c, "writing")
  /\ data' = [data EXCEPT ![c] = memory]
  /\ UNCHANGED <<memory, file, does, past, overlapped, cut, collided, erasers,
                 crashes>>

(* writeFile opens the file, which empties it; what one call has written   *)
(* of its document so far is no more to a reader than an empty file.       *)
Open(c) ==
  /\ pc[c] = "writing"
  /\ GoTo(c, "open")
  /\ file' = Empty
  /\ collided' = (collided \/ \E d \in Calls : pc[d] = "open")
  /\ UNCHANGED <<memory, does, data, past, overlapped, cut, erasers, crashes>>

(* Slip: the call is answered without waiting for the write. *)
WriteUnawaited(c) ==
  /\ pc[c] = "open"
  /\ GoTo(c, "answered")
  /\ data' = [data EXCEPT ![c] = Nothing]
  /\ UNCHANGED <<memory, file, does, past, overlapped, cut, collided, erasers,
                 crashes>>

(* The histories g make a shorter document than h. *)
Shorter(g, h) ==
  \A t \in Threads :
    g[t] # NoThread => h[t] # NoThread /\ IsPrefix(g[t], h[t])

(* Another call has written meanwhile, and maybe a longer document. *)
MayLeaveEnd(c) ==
  /\ file.kind \in {"torn", "whole"}
  /\ file.kind = "whole" => ~Shorter(file.histories, data[c])

(* The document is written from the start of the file.  When a longer one  *)
(* has been written by another call meanwhile, its end remains.            *)
Write(c) ==
  /\ pc[c] = "open"
  /\ GoTo(c, "answered")
  /\ \/ file' = Whole(data[c])
     \/ MayLeaveEnd(c) /\ file' = Torn
  /\ data' = [data EXCEPT ![c] = Nothing]
  /\ UNCHANGED <<memory, does, past, overlapped, cut, collided, erasers, crashes>>

(* A long document is written in pieces: the whole one of another call is  *)
(* overwritten in part.                                                    *)
WritePiece(c) ==
  /\ pc[c] = "open"
  /\ file.kind = "whole"
  /\ file' = Torn
  /\ UNCHANGED <<memory, does, pc, data, past, overlapped, cut, collided,
                 erasers, crashes>>

(* The process dies with its calls; what has reached the file stays. *)
Crash ==
  /\ crashes < MaxCrashes
  /\ crashes' = crashes + 1
  /\ memory' = Nothing
  /\ pc' = [c \in Calls |-> IF Running(c) THEN "died" ELSE pc[c]]
  /\ data' = [c \in Calls |-> Nothing]
  /\ cut' = (cut \/ \E c \in Calls : pc[c] = "open")
  /\ UNCHANGED <<file, does, past, overlapped, collided, erasers>>

Next ==
  \/ \E c \in Calls :
       \/ Issue(c) \/ ReadFile(c) \/ ReadFails(c)
       \/ Looked(c) \/ Apply(c) \/ Unknown(c)
       \/ Capture(c) \/ Open(c) \/ WritePiece(c) \/ Write(c)
  \/ Crash

Spec == Init /\ [][Next]_vars
-----------------------------------------------------------------------------
(* Properties.                                                             *)

Histories == [Threads -> Seq(Calls) \union {NoThread}]

(* Type correctness; what a call is about to write is never empty, and a   *)
(* file that is there does not go away.                                    *)
TypeOK ==
  /\ memory \in Histories
  /\ file.kind \in {"none", "empty", "torn", "whole"}
  /\ file.histories \in Histories
  /\ \A c \in Calls :
       /\ data[c] \in Histories
       /\ pc[c] \in {"writing", "open"} => data[c] # Nothing
       /\ pc[c] \in {"saving", "writing", "open"} =>
            does[c] \in {"create", "resume", "append"}
       /\ pc[c] = "open" => file.kind # "none"
  /\ overlapped \subseteq {c \in Calls : pc[c] # "idle"}
  /\ {cut, collided} \subseteq BOOLEAN
  /\ crashes \in 0 .. MaxCrashes

(* What a call wrote is in the file's histories. *)
Holds(h, c) ==
  IF h[ThreadOf[c]] = NoThread THEN FALSE
  ELSE Op[c] = "append" => c \in ToSet(h[ThreadOf[c]])

(* An answered call that overlapped no other stays in the file, whatever   *)
(* calls overlap afterwards and whenever the process dies, unless a start  *)
(* erased the thread; and no start does where every start of the thread    *)
(* has been alone.                                                         *)
AloneIsDurable ==
  /\ \A c \in erasers : \E d \in overlapped :
       Op[d] = "start" /\ ThreadOf[d] = ThreadOf[c]
  /\ file.kind \in {"none", "whole"} =>
       \A c \in Calls :
         /\ pc[c] = "answered" /\ c \notin overlapped
         /\ \A d \in erasers : ThreadOf[d] # ThreadOf[c]
         => Holds(file.histories, c)

(* However calls overlap and snapshots overwrite each other, a history in  *)
(* memory or in the file holds an append at most once, and appends one of  *)
(* which was answered before the other was made in that order.             *)
InOrderOnce ==
  \A h \in {memory, file.histories}, t \in Threads :
    h[t] # NoThread =>
      \A i, j \in DOMAIN h[t] :
        i < j => h[t][i] # h[t][j] /\ h[t][j] \notin past[h[t][i]]

(* A file nobody is writing that cannot be read, which makes every later   *)
(* call reject, comes from a crash during a write or from two writes at    *)
(* once; and a call that rejected overlapped another, or found such a      *)
(* file, or is about a thread a start of which overlapped another call.    *)
FailuresExplained ==
  /\ file.kind \in {"empty", "torn"} /\ (\A c \in Calls : pc[c] # "open")
       => cut \/ collided
  /\ \A c \in Calls : pc[c] = "rejected" =>
       \/ cut \/ collided \/ c \in overlapped
       \/ \E d \in overlapped :
            Op[d] = "start" /\ ThreadOf[d] = ThreadOf[c]
=============================================================================
