------------------------ MODULE ExecutionGateProofs ------------------------
(* Proofs about ExecutionGate for every finite set of calls. *)
EXTENDS ExecutionGate, FiniteSetTheorems, SequenceTheorems,
        WellFoundedInduction, TLAPS
-----------------------------------------------------------------------------
(* Every set of numbers has a least one. *)
LEMMA LeastNumber ==
  ASSUME NEW T \in SUBSET Nat, T # {}
  PROVE  \E x \in T : \A y \in T : x <= y
<1>1. \E x \in T : \A y \in T : ~(<<y, x>> \in OpToRel(<, Nat))
  BY WFMin, NatLessThanWellFounded
<1>2. PICK x \in T : \A y \in T : ~(<<y, x>> \in OpToRel(<, Nat))
  BY <1>1
<1>3. \A y \in T : ~(y < x)
  BY <1>2 DEF OpToRel
<1>4. QED
  BY <1>3

(* LeadingReads: the readers in front of the first writer, if there is one.*)
LEMMA LeadingReadsProperty ==
  ASSUME NEW q \in Seq(Calls)
  PROVE  /\ LeadingReads(q) \in 0 .. Len(q)
         /\ \A i \in 1 .. LeadingReads(q) : q[i] \notin Exclusive
         /\ LeadingReads(q) < Len(q) => q[LeadingReads(q) + 1] \in Exclusive
<1> DEFINE P(n) == /\ \A i \in 1 .. n : q[i] \notin Exclusive
                   /\ n < Len(q) => q[n + 1] \in Exclusive
<1>0. Len(q) \in Nat
  OBVIOUS
<1>1. \E n \in 0 .. Len(q) : P(n)
  <2> DEFINE W == {i \in 1 .. Len(q) : q[i] \in Exclusive}
  <2>1. CASE W = {}
    <3>1. P(Len(q))
      BY <1>0, <2>1
    <3>2. QED
      BY <1>0, <3>1
  <2>2. CASE W # {}
    <3>1. W \in SUBSET Nat
      BY <1>0
    <3> HIDE DEF W
    <3>2. PICK m \in W : \A y \in W : m <= y
      BY <2>2, <3>1, LeastNumber
    <3> USE DEF W
    <3>3. m \in 1 .. Len(q) /\ q[m] \in Exclusive /\ m - 1 \in 0 .. Len(q)
      BY <1>0, <3>2
    <3>4. \A i \in 1 .. m - 1 : q[i] \notin Exclusive
      BY <1>0, <3>2, <3>3
    <3>5. P(m - 1)
      BY <3>3, <3>4
    <3>6. QED
      BY <3>3, <3>5
  <2>3. QED
    BY <2>1, <2>2
<1>2. LeadingReads(q) = CHOOSE n \in 0 .. Len(q) : P(n)
  BY DEF LeadingReads
<1>3. LeadingReads(q) \in 0 .. Len(q) /\ P(LeadingReads(q))
  <2> HIDE DEF P
  <2>1. QED
    BY <1>1, <1>2
<1>4. QED
  BY <1>3

(* As many calls are granted as leave the queue. *)
LEMMA GrantedCount ==
  ASSUME NEW q \in Seq(Calls), NEW n \in 0 .. Len(q),
         \A i, j \in 1 .. Len(q) : q[i] = q[j] => i = j
  PROVE  LET G == {q[i] : i \in 1 .. n}
         IN  IsFiniteSet(G) /\ Cardinality(G) = n
<1> DEFINE G == {q[i] : i \in 1 .. n}
           f == [i \in 1 .. n |-> q[i]]
<1>1. f \in Bijection(1 .. n, G)
  BY DEF Bijection, Injection, Surjection, IsInjective
<1>2. ExistsBijection(1 .. n, G)
  BY <1>1 DEF ExistsBijection
<1>3. IsFiniteSet(1 .. n) /\ Cardinality(1 .. n) = n
  BY FS_Interval
<1>4. QED
  BY <1>2, <1>3, FS_Bijection
-----------------------------------------------------------------------------
(* The gate's bookkeeping over arbitrary program points p, queue q and     *)
(* counters: what drain may assume, and what it establishes.               *)
ReadersIn(p) == {c \in Calls \ Exclusive : p[c] \in {"granted", "running"}}
WritersIn(p) == {c \in Exclusive : p[c] \in {"granted", "running"}}

Books(q, readers, writer, p) ==
  /\ q \in Seq(Calls)
  /\ readers \in Nat
  /\ writer \in BOOLEAN
  /\ p \in [Calls -> CallPoints]
  /\ \A i, j \in 1 .. Len(q) : q[i] = q[j] => i = j
  /\ \A c \in Calls : p[c] = "queued" <=> \E i \in 1 .. Len(q) : q[i] = c
  /\ readers = Cardinality(ReadersIn(p))
  /\ writer <=> WritersIn(p) # {}
  /\ \A c, d \in WritersIn(p) : c = d
  /\ writer => readers = 0

LEMMA FiniteReaders ==
  ASSUME NEW p
  PROVE  IsFiniteSet(ReadersIn(p))
  BY CallsAssumption, FS_Subset DEF ReadersIn

(* drain keeps the books. *)
LEMMA DrainKeepsBooks ==
  ASSUME NEW q, NEW readers, NEW writer, NEW p,
         Books(q, readers, writer, p), Drain(q, readers, writer, p)
  PROVE  Books(queue, activeReaders, writerActive, pc)'
<1> DEFINE write == ~writer /\ readers = 0 /\ q # <<>> /\ q[1] \in Exclusive
           n == IF write THEN 1 ELSE IF writer THEN 0 ELSE LeadingReads(q)
           G == {q[i] : i \in 1 .. n}
<1>1. /\ q \in Seq(Calls) /\ Len(q) \in Nat
      /\ p \in [Calls -> CallPoints]
      /\ readers \in Nat
      /\ writer \in BOOLEAN
  BY DEF Books
<1>2. write => Len(q) >= 1
  BY <1>1
<1>3. n \in 0 .. Len(q)
  BY <1>1, <1>2, LeadingReadsProperty
<1>4. /\ queue' = SubSeq(q, n + 1, Len(q))
      /\ writerActive' = (writer \/ write)
      /\ activeReaders' = IF write THEN readers ELSE readers + n
      /\ pc' = [c \in Calls |-> IF c \in G THEN "granted" ELSE p[c]]
  BY DEF Drain
<1>5. G \subseteq Calls /\ \A c \in G : p[c] = "queued"
  BY <1>1, <1>3 DEF Books
<1> HIDE DEF n
<1>6. /\ queue' \in Seq(Calls)
      /\ Len(queue') = Len(q) - n
      /\ \A i \in 1 .. Len(queue') : queue'[i] = q[n + i]
  BY <1>1, <1>3, <1>4, SubSeqProperties
<1>7. \A i, j \in 1 .. Len(queue') : queue'[i] = queue'[j] => i = j
  BY <1>1, <1>3, <1>6 DEF Books
<1>8. \A c \in Calls :
        pc'[c] = "queued" <=> \E i \in 1 .. Len(queue') : queue'[i] = c
  <2>1. SUFFICES ASSUME NEW c \in Calls
                 PROVE  pc'[c] = "queued" <=>
                          \E i \in 1 .. Len(queue') : queue'[i] = c
    OBVIOUS
  <2>2. ASSUME pc'[c] = "queued"
        PROVE  \E i \in 1 .. Len(queue') : queue'[i] = c
    <3>1. c \notin G /\ p[c] = "queued"
      BY <1>4, <2>2
    <3>2. PICK k \in 1 .. Len(q) : q[k] = c
      BY <3>1 DEF Books
    <3>3. k \notin 1 .. n
      BY <3>1, <3>2
    <3>4. k - n \in 1 .. Len(queue') /\ queue'[k - n] = c
      BY <1>1, <1>3, <1>6, <3>2, <3>3
    <3>5. QED
      BY <3>4
  <2>3. ASSUME NEW i \in 1 .. Len(queue'), queue'[i] = c
        PROVE  pc'[c] = "queued"
    <3>1. n + i \in 1 .. Len(q) /\ q[n + i] = c
      BY <1>1, <1>3, <1>6, <2>3
    <3>2. p[c] = "queued"
      BY <3>1 DEF Books
    <3>3. \A k \in 1 .. n : q[k] # c
      BY <1>1, <1>3, <3>1 DEF Books
    <3>4. QED
      BY <1>4, <3>2, <3>3
  <2>4. QED
    BY <2>2, <2>3
<1>9. pc' \in [Calls -> CallPoints]
  BY <1>1, <1>4 DEF CallPoints
<1>10. CASE write
  <2>1. n = 1 /\ G = {q[1]}
    BY <1>10 DEF n
  <2>2. q[1] \in Exclusive /\ q[1] \in Calls
    BY <1>10, <1>5, <2>1
  <2>3. WritersIn(p) = {} /\ Cardinality(ReadersIn(p)) = 0
    BY <1>10 DEF Books
  <2>4. WritersIn(pc') = {q[1]}
    BY <1>4, <2>1, <2>2, <2>3, CallsAssumption DEF WritersIn
  <2>5. ReadersIn(pc') = ReadersIn(p)
    BY <1>4, <2>1, <2>2 DEF ReadersIn
  <2>6. activeReaders' = 0 /\ writerActive' = TRUE
    BY <1>4, <1>10
  <2>7. QED
    BY <1>6, <1>7, <1>8, <1>9, <2>3, <2>4, <2>5, <2>6 DEF Books
<1>11. CASE ~write
  <2>1. \A c \in G : c \notin Exclusive
    BY <1>1, <1>11, LeadingReadsProperty DEF n
  <2>2. WritersIn(pc') = WritersIn(p)
    BY <1>4, <1>5, <2>1, CallsAssumption DEF WritersIn
  <2>3. ReadersIn(pc') = ReadersIn(p) \union G
    BY <1>4, <1>5, <2>1 DEF ReadersIn
  <2>4. ReadersIn(p) \cap G = {}
    BY <1>5 DEF ReadersIn
  <2>5. IsFiniteSet(G) /\ Cardinality(G) = n
    BY <1>1, <1>3, GrantedCount DEF Books
  <2>6. Cardinality(ReadersIn(pc')) = readers + n
    <3>1. Cardinality(ReadersIn(p) \union G) =
            Cardinality(ReadersIn(p)) + Cardinality(G)
              - Cardinality(ReadersIn(p) \cap G)
      BY <2>5, FiniteReaders, FS_Union
    <3>2. Cardinality(ReadersIn(p) \cap G) = 0
      BY <2>4, FS_EmptySet
    <3>3. QED
      BY <1>1, <1>3, <2>3, <2>5, <3>1, <3>2 DEF Books
  <2>7. writer => n = 0
    BY <1>11 DEF n
  <2>8. activeReaders' = readers + n /\ writerActive' = writer
    BY <1>1, <1>4, <1>11
  <2>9. QED
    BY <1>1, <1>3, <1>6, <1>7, <1>8, <1>9, <2>2, <2>6, <2>7, <2>8 DEF Books
<1>12. QED
  BY <1>10, <1>11

(* drain moves calls from the queue into the gate, and no other. *)
LEMMA DrainMoves ==
  ASSUME NEW q, NEW readers, NEW writer, NEW p,
         Books(q, readers, writer, p), Drain(q, readers, writer, p)
  PROVE  \A d \in Calls :
           pc'[d] = p[d] \/ (pc'[d] = "granted" /\ p[d] = "queued")
<1> DEFINE write == ~writer /\ readers = 0 /\ q # <<>> /\ q[1] \in Exclusive
           n == IF write THEN 1 ELSE IF writer THEN 0 ELSE LeadingReads(q)
<1>1. q \in Seq(Calls) /\ Len(q) \in Nat
  BY DEF Books
<1>2. n \in 0 .. Len(q)
  <2>1. write => Len(q) >= 1
    BY <1>1
  <2>2. QED
    BY <1>1, <2>1, LeadingReadsProperty
<1>3. pc' = [d \in Calls |-> IF \E i \in 1 .. n : q[i] = d THEN "granted"
                             ELSE p[d]]
  BY DEF Drain
<1> HIDE DEF n
<1>4. \A d \in Calls : (\E i \in 1 .. n : q[i] = d) => p[d] = "queued"
  BY <1>1, <1>2 DEF Books
<1>5. QED
  BY <1>3, <1>4
-----------------------------------------------------------------------------
(* The inductive invariant: the books are kept, and the body of a tool     *)
(* runs within its call unless the run was aborted.                        *)
BodyWithinCall ==
  \A c \in Calls :
    /\ pc[c] \in {"new", "queued", "granted"} => body[c] = "none"
    /\ pc[c] = "returned" /\ ~aborted => body[c] # "running"

IInv ==
  /\ Books(queue, activeReaders, writerActive, pc)
  /\ body \in [Calls -> BodyStates]
  /\ aborted \in BOOLEAN
  /\ arrival \in Seq(Calls)
  /\ BodyWithinCall

(* The invariant holds at the start: the gate is empty and free. *)
LEMMA InitKeeps == Init => IInv
<1> SUFFICES ASSUME Init
             PROVE  IInv
  OBVIOUS
<1>1. ReadersIn(pc) = {} /\ WritersIn(pc) = {}
  BY CallsAssumption DEF Init, ReadersIn, WritersIn
<1>2. Cardinality(ReadersIn(pc)) = 0
  BY <1>1, FS_EmptySet
<1>3. /\ pc = [c \in Calls |-> "new"]
      /\ body = [c \in Calls |-> "none"]
      /\ queue = <<>> /\ activeReaders = 0 /\ writerActive = FALSE
      /\ aborted = FALSE /\ arrival = <<>>
  BY DEF Init
<1>4. /\ pc \in [Calls -> CallPoints]
      /\ body \in [Calls -> BodyStates]
      /\ \A c \in Calls : pc[c] = "new" /\ body[c] = "none"
  BY <1>3 DEF CallPoints, BodyStates
<1>5. queue \in Seq(Calls) /\ Len(queue) = 0 /\ arrival \in Seq(Calls)
  BY <1>3
<1>6. Books(queue, activeReaders, writerActive, pc)
  <2>1. /\ \A i, j \in 1 .. Len(queue) : queue[i] = queue[j] => i = j
        /\ \A c \in Calls :
             pc[c] = "queued" <=> \E i \in 1 .. Len(queue) : queue[i] = c
    BY <1>4, <1>5
  <2>2. /\ activeReaders \in Nat /\ writerActive \in BOOLEAN
        /\ activeReaders = Cardinality(ReadersIn(pc))
        /\ writerActive <=> WritersIn(pc) # {}
        /\ \A c, d \in WritersIn(pc) : c = d
        /\ writerActive => activeReaders = 0
    BY <1>1, <1>2, <1>3
  <2>3. QED
    BY <1>4, <1>5, <2>1, <2>2 DEF Books
<1>7. BodyWithinCall
  BY <1>4 DEF BodyWithinCall
<1>8. QED
  BY <1>3, <1>4, <1>5, <1>6, <1>7 DEF IInv

(* A call that does not wait and moves between two points outside the gate,*)
(* or between two inside it, leaves the books as they are.                 *)
LEMMA MovingKeepsBooks ==
  ASSUME NEW q, NEW readers, NEW writer, NEW p, NEW c \in Calls,
         NEW point \in CallPoints,
         Books(q, readers, writer, p),
         p[c] # "queued", point # "queued",
         p[c] \in {"granted", "running"} <=> point \in {"granted", "running"}
  PROVE  Books(q, readers, writer, [p EXCEPT ![c] = point])
<1> DEFINE np == [p EXCEPT ![c] = point]
<1>1. p \in [Calls -> CallPoints]
  BY DEF Books
<1>2. ReadersIn(np) = ReadersIn(p) /\ WritersIn(np) = WritersIn(p)
  BY <1>1, CallsAssumption DEF ReadersIn, WritersIn
<1>3. \A d \in Calls : np[d] = "queued" <=> p[d] = "queued"
  BY <1>1
<1>4. np \in [Calls -> CallPoints]
  BY <1>1
<1> HIDE DEF np
<1>5. Books(q, readers, writer, np)
  BY <1>2, <1>3, <1>4 DEF Books
<1>6. QED
  BY <1>5 DEF np

(* A call that joins the queue is in it once. *)
LEMMA QueueingKeepsBooks ==
  ASSUME NEW q, NEW readers, NEW writer, NEW p, NEW c \in Calls,
         Books(q, readers, writer, p), p[c] = "new"
  PROVE  Books(Append(q, c), readers, writer, [p EXCEPT ![c] = "queued"])
<1> DEFINE np == [p EXCEPT ![c] = "queued"]
           nq == Append(q, c)
<1>1. p \in [Calls -> CallPoints] /\ q \in Seq(Calls) /\ Len(q) \in Nat
  BY DEF Books
<1>2. /\ nq \in Seq(Calls)
      /\ Len(nq) = Len(q) + 1
      /\ \A i \in 1 .. Len(q) : nq[i] = q[i]
      /\ nq[Len(q) + 1] = c
  BY <1>1
<1>3. \A i \in 1 .. Len(q) : q[i] # c
  BY DEF Books
<1>4. ReadersIn(np) = ReadersIn(p) /\ WritersIn(np) = WritersIn(p)
  BY <1>1, CallsAssumption DEF ReadersIn, WritersIn
<1>5. np \in [Calls -> CallPoints]
  BY <1>1 DEF CallPoints
<1>6. \A d \in Calls : np[d] = "queued" <=> d = c \/ p[d] = "queued"
  BY <1>1
<1> HIDE DEF np, nq
<1>7. \A i, j \in 1 .. Len(nq) : nq[i] = nq[j] => i = j
  <2>1. \A i, j \in 1 .. Len(q) : q[i] = q[j] => i = j
    BY DEF Books
  <2>2. QED
    BY <1>1, <1>2, <1>3, <2>1
<1>8. \A d \in Calls :
        np[d] = "queued" <=> \E i \in 1 .. Len(nq) : nq[i] = d
  <2>1. \A d \in Calls :
          p[d] = "queued" <=> \E i \in 1 .. Len(q) : q[i] = d
    BY DEF Books
  <2>2. ASSUME NEW d \in Calls
        PROVE  (\E i \in 1 .. Len(nq) : nq[i] = d) <=>
                 d = c \/ \E i \in 1 .. Len(q) : q[i] = d
    BY <1>1, <1>2
  <2>3. QED
    BY <1>6, <2>1, <2>2
<1>9. Books(nq, readers, writer, np)
  BY <1>2, <1>4, <1>5, <1>7, <1>8 DEF Books
<1>10. QED
  BY <1>9 DEF np, nq

(* A call that waits nowhere takes the free gate. *)
LEMMA EnteringKeepsBooks ==
  ASSUME NEW c \in Calls, pc[c] = "new", CanGrantImmediately(c),
         Books(queue, activeReaders, writerActive, pc),
         pc' = [pc EXCEPT ![c] = "granted"],
         activeReaders' = IF c \in Exclusive THEN activeReaders
                          ELSE activeReaders + 1,
         writerActive' = (writerActive \/ c \in Exclusive),
         UNCHANGED queue
  PROVE  Books(queue, activeReaders, writerActive, pc)'
<1>1. /\ pc \in [Calls -> CallPoints]
      /\ activeReaders \in Nat /\ writerActive \in BOOLEAN
      /\ ~writerActive /\ WritersIn(pc) = {}
      /\ activeReaders = Cardinality(ReadersIn(pc))
  BY DEF Books, CanGrantImmediately
<1>2. pc' \in [Calls -> CallPoints]
  BY <1>1 DEF CallPoints
<1>3. \A d \in Calls : pc'[d] = "queued" <=> pc[d] = "queued"
  BY <1>1
<1>4. CASE c \in Exclusive
  <2>1. activeReaders = 0 /\ activeReaders' = 0 /\ writerActive' = TRUE
    BY <1>4 DEF CanGrantImmediately
  <2>2. WritersIn(pc') = {c}
    BY <1>1, <1>4, CallsAssumption DEF WritersIn
  <2>3. ReadersIn(pc') = ReadersIn(pc)
    BY <1>1, <1>4 DEF ReadersIn
  <2>4. QED
    BY <1>1, <1>2, <1>3, <2>1, <2>2, <2>3 DEF Books
<1>5. CASE c \notin Exclusive
  <2>1. activeReaders' = activeReaders + 1 /\ writerActive' = writerActive
    BY <1>1, <1>5
  <2>2. WritersIn(pc') = WritersIn(pc)
    BY <1>1, <1>5, CallsAssumption DEF WritersIn
  <2>3. ReadersIn(pc') = ReadersIn(pc) \union {c} /\ c \notin ReadersIn(pc)
    BY <1>1, <1>5 DEF ReadersIn
  <2>4. Cardinality(ReadersIn(pc')) = activeReaders + 1
    BY <1>1, <2>3, FiniteReaders, FS_AddElement
  <2>5. /\ \A d \in Calls :
             pc'[d] = "queued" <=> \E i \in 1 .. Len(queue') : queue'[i] = d
        /\ \A i, j \in 1 .. Len(queue') : queue'[i] = queue'[j] => i = j
        /\ queue' \in Seq(Calls)
    BY <1>3 DEF Books
  <2>6. /\ activeReaders' \in Nat
        /\ activeReaders' = Cardinality(ReadersIn(pc'))
        /\ WritersIn(pc') = {}
    <3>1. activeReaders + 1 \in Nat
      BY <1>1
    <3>2. QED
      BY <1>1, <2>1, <2>2, <2>4, <3>1
  <2>7. writerActive' \in BOOLEAN /\ ~writerActive'
    BY <1>1, <2>1
  <2>8. QED
    BY <1>2, <2>5, <2>6, <2>7 DEF Books
<1>6. QED
  BY <1>4, <1>5

(* A call that returns leaves books that drain may start from. *)
LEMMA LeavingKeepsBooks ==
  ASSUME NEW c \in Calls, pc[c] = "running",
         Books(queue, activeReaders, writerActive, pc)
  PROVE  Books(queue,
               IF c \in Exclusive \/ activeReaders = 0
               THEN activeReaders ELSE activeReaders - 1,
               writerActive /\ c \notin Exclusive,
               [pc EXCEPT ![c] = "returned"])
<1> DEFINE np == [pc EXCEPT ![c] = "returned"]
           nr == IF c \in Exclusive \/ activeReaders = 0
                 THEN activeReaders ELSE activeReaders - 1
           nw == writerActive /\ c \notin Exclusive
<1>1. /\ pc \in [Calls -> CallPoints]
      /\ activeReaders \in Nat /\ writerActive \in BOOLEAN
      /\ activeReaders = Cardinality(ReadersIn(pc))
      /\ writerActive <=> WritersIn(pc) # {}
      /\ \A d, e \in WritersIn(pc) : d = e
      /\ writerActive => activeReaders = 0
  BY DEF Books
<1>2. np \in [Calls -> CallPoints]
  BY <1>1 DEF CallPoints
<1>3. \A d \in Calls : np[d] = "queued" <=> pc[d] = "queued"
  BY <1>1
<1>4. /\ ReadersIn(np) = ReadersIn(pc) \ {c}
      /\ WritersIn(np) = WritersIn(pc) \ {c}
  BY <1>1, CallsAssumption DEF ReadersIn, WritersIn
<1> HIDE DEF np
<1>5. CASE c \in Exclusive
  <2>1. c \in WritersIn(pc) /\ c \notin ReadersIn(pc)
    BY <1>5 DEF WritersIn, ReadersIn
  <2>2. WritersIn(np) = {} /\ ReadersIn(np) = ReadersIn(pc)
    BY <1>1, <1>4, <2>1
  <2>3. nr = activeReaders /\ nw = FALSE
    BY <1>5
  <2>4. Books(queue, nr, nw, np)
    BY <1>1, <1>2, <1>3, <2>2, <2>3 DEF Books
  <2>5. QED
    BY <2>4 DEF np
<1>6. CASE c \notin Exclusive
  <2>1. c \in ReadersIn(pc) /\ c \notin WritersIn(pc)
    BY <1>6 DEF WritersIn, ReadersIn
  <2>2. WritersIn(np) = WritersIn(pc)
    BY <1>4, <2>1
  <2>3. Cardinality(ReadersIn(np)) = activeReaders - 1 /\ activeReaders # 0
    <3>1. Cardinality(ReadersIn(pc) \ {c}) = Cardinality(ReadersIn(pc)) - 1
      BY <2>1, FiniteReaders, FS_RemoveElement
    <3>2. Cardinality(ReadersIn(pc)) # 0
      BY <2>1, FiniteReaders, FS_EmptySet
    <3>3. QED
      BY <1>1, <1>4, <3>1, <3>2
  <2>4. ~writerActive
    BY <1>1, <2>3
  <2>5. nr = activeReaders - 1 /\ nr \in Nat /\ nw = writerActive
    BY <1>1, <1>6, <2>3
  <2>6. Books(queue, nr, nw, np)
    <3> HIDE DEF nr, nw
    <3>1. QED
      BY <1>1, <1>2, <1>3, <2>2, <2>3, <2>4, <2>5 DEF Books
  <2>7. QED
    BY <2>6 DEF np
<1>7. QED
  BY <1>5, <1>6
-----------------------------------------------------------------------------
(* Every step keeps the invariant. *)
LEMMA StepKeeps == IInv /\ [Next]_vars => IInv'
<1> SUFFICES ASSUME IInv, [Next]_vars
             PROVE  IInv'
  OBVIOUS
<1>1. /\ Books(queue, activeReaders, writerActive, pc)
      /\ pc \in [Calls -> CallPoints]
      /\ body \in [Calls -> BodyStates]
      /\ aborted \in BOOLEAN
      /\ arrival \in Seq(Calls)
      /\ BodyWithinCall
  BY DEF IInv, Books
<1>2. ASSUME NEW c \in Calls, Arrive(c)
      PROVE  IInv'
  <2>1. pc[c] = "new" /\ UNCHANGED <<body, aborted>>
    BY <1>2 DEF Arrive
  <2>2. body[c] = "none"
    BY <1>1, <2>1 DEF BodyWithinCall
  <2>3. CASE aborted
    <3>1. /\ pc' = [pc EXCEPT ![c] = "returned"]
          /\ UNCHANGED <<activeReaders, writerActive, queue, arrival>>
      BY <1>2, <2>3 DEF Arrive, gateVars
    <3>2. Books(queue, activeReaders, writerActive, pc)'
      BY <1>1, <2>1, <3>1, MovingKeepsBooks DEF CallPoints
    <3>3. BodyWithinCall'
      BY <1>1, <2>1, <2>3, <3>1 DEF BodyWithinCall
    <3>4. QED
      BY <1>1, <2>1, <3>1, <3>2, <3>3 DEF IInv
  <2>4. CASE ~aborted
    <3>1. arrival' \in Seq(Calls)
      BY <1>1, <1>2, <2>4 DEF Arrive
    <3>2. CASE CanGrantImmediately(c)
      <4>1. /\ pc' = [pc EXCEPT ![c] = "granted"]
            /\ activeReaders' = IF c \in Exclusive THEN activeReaders
                                ELSE activeReaders + 1
            /\ writerActive' = (writerActive \/ c \in Exclusive)
            /\ UNCHANGED queue
        BY <1>2, <2>4, <3>2 DEF Arrive
      <4>2. Books(queue, activeReaders, writerActive, pc)'
        BY <1>1, <2>1, <3>2, <4>1, EnteringKeepsBooks
      <4>3. BodyWithinCall'
        BY <1>1, <2>1, <2>2, <4>1 DEF BodyWithinCall
      <4>4. QED
        BY <1>1, <2>1, <3>1, <4>2, <4>3 DEF IInv
    <3>3. CASE ~CanGrantImmediately(c)
      <4> DEFINE np == [pc EXCEPT ![c] = "queued"]
                 nq == Append(queue, c)
      <4>1. Drain(nq, activeReaders, writerActive, np)
        BY <1>2, <2>4, <3>3 DEF Arrive
      <4>2. Books(nq, activeReaders, writerActive, np)
        BY <1>1, <2>1, QueueingKeepsBooks
      <4> HIDE DEF np, nq
      <4>3. Books(queue, activeReaders, writerActive, pc)'
        BY <4>1, <4>2, DrainKeepsBooks
      <4>4. \A d \in Calls :
          pc'[d] = np[d] \/ (pc'[d] = "granted" /\ np[d] = "queued")
        BY <4>1, <4>2, DrainMoves
      <4>5. \A d \in Calls : np[d] = IF d = c THEN "queued" ELSE pc[d]
        BY <1>1 DEF np
      <4>6. BodyWithinCall'
        BY <1>1, <2>1, <2>2, <4>4, <4>5 DEF BodyWithinCall
      <4>7. QED
        BY <1>1, <2>1, <3>1, <4>3, <4>6 DEF IInv
    <3>4. QED
      BY <3>2, <3>3
  <2>5. QED
    BY <2>3, <2>4
<1>3. ASSUME NEW c \in Calls, Dispatch(c)
      PROVE  IInv'
  <2>1. /\ pc[c] = "granted"
        /\ pc' = [pc EXCEPT ![c] = "running"]
        /\ body' = [body EXCEPT ![c] = "running"]
        /\ UNCHANGED <<activeReaders, writerActive, queue, aborted, arrival>>
    BY <1>3 DEF Dispatch, gateVars
  <2>2. Books(queue, activeReaders, writerActive, pc)'
    BY <1>1, <2>1, MovingKeepsBooks DEF CallPoints
  <2>3. BodyWithinCall'
    BY <1>1, <2>1 DEF BodyWithinCall
  <2>4. body' \in [Calls -> BodyStates]
    BY <1>1, <2>1 DEF BodyStates
  <2>5. QED
    BY <1>1, <2>1, <2>2, <2>3, <2>4 DEF IInv
<1>4. ASSUME NEW c \in Calls, BodyEnds(c)
      PROVE  IInv'
  <2>1. /\ body[c] = "running"
        /\ body' = [body EXCEPT ![c] = "over"]
        /\ UNCHANGED <<activeReaders, writerActive, queue, pc, aborted,
                       arrival>>
    BY <1>4 DEF BodyEnds, gateVars
  <2>2. BodyWithinCall'
    BY <1>1, <2>1 DEF BodyWithinCall
  <2>3. body' \in [Calls -> BodyStates]
    BY <1>1, <2>1 DEF BodyStates
  <2>4. QED
    BY <1>1, <2>1, <2>2, <2>3 DEF IInv, Books
<1>5. ASSUME NEW c \in Calls, Release(c)
      PROVE  IInv'
  <2> DEFINE np == [pc EXCEPT ![c] = "returned"]
             nr == IF c \in Exclusive \/ activeReaders = 0
                   THEN activeReaders ELSE activeReaders - 1
             nw == writerActive /\ c \notin Exclusive
  <2>1. /\ pc[c] = "running" /\ Answered(c)
        /\ Drain(queue, nr, nw, np)
        /\ UNCHANGED <<body, aborted, arrival>>
    BY <1>5 DEF Release
  <2>2. Books(queue, nr, nw, np)
    BY <1>1, <2>1, LeavingKeepsBooks
  <2> HIDE DEF np, nr, nw
  <2>3. Books(queue, activeReaders, writerActive, pc)'
    BY <2>1, <2>2, DrainKeepsBooks
  <2>4. \A d \in Calls :
        pc'[d] = np[d] \/ (pc'[d] = "granted" /\ np[d] = "queued")
    BY <2>1, <2>2, DrainMoves
  <2>5. \A d \in Calls : np[d] = IF d = c THEN "returned" ELSE pc[d]
    BY <1>1 DEF np
  <2>6. BodyWithinCall'
    BY <1>1, <2>1, <2>4, <2>5 DEF BodyWithinCall, Answered
  <2>7. QED
    BY <1>1, <2>1, <2>3, <2>6 DEF IInv
<1>6. CASE Abort
  BY <1>1, <1>6 DEF Abort, gateVars, IInv, Books, BodyWithinCall
<1>7. CASE UNCHANGED vars
  BY <1>1, <1>7 DEF vars, gateVars, IInv, Books, BodyWithinCall
<1>8. QED
  BY <1>2, <1>3, <1>4, <1>5, <1>6, <1>7 DEF Next

(* The invariant is one: the gate's counters are the numbers of calls      *)
(* inside, and its queue is the set of calls that wait, in every state.    *)
THEOREM Invariance == Spec => []IInv
<1>1. QED
  BY InitKeeps, StepKeeps, PTL DEF Spec

(* TypeOK for every finite set of calls; the counter never goes below 0.   *)
THEOREM TypeCorrect == Spec => []TypeOK
<1>1. IInv => TypeOK
  BY DEF IInv, Books, TypeOK
<1>2. QED
  BY <1>1, Invariance, PTL

(* An exclusive call has the gate to itself, for any number of calls: the  *)
(* counters are exact, so `no reader and no writer' means nobody.          *)
LEMMA BooksExclude == IInv => ExclusiveInside
<1> SUFFICES ASSUME IInv, NEW c \in Calls, NEW d \in Calls, c # d,
                    Inside(c), Inside(d), c \in Exclusive
             PROVE  FALSE
  BY DEF ExclusiveInside, Conflict
<1>1. c \in WritersIn(pc) /\ writerActive /\ activeReaders = 0
  BY DEF IInv, Books, WritersIn, Inside
<1>2. ReadersIn(pc) = {}
  <2>1. Cardinality(ReadersIn(pc)) = 0
    BY <1>1 DEF IInv, Books
  <2>2. QED
    BY <2>1, FiniteReaders, FS_EmptySet
<1>3. d \notin Exclusive
  BY <1>1 DEF IInv, Books, WritersIn, Inside
<1>4. d \in ReadersIn(pc)
  BY <1>3 DEF ReadersIn, Inside
<1>5. QED
  BY <1>2, <1>4

(* An exclusive call is alone inside the gate. *)
THEOREM GateExcludes == Spec => []ExclusiveInside
<1>1. QED
  BY BooksExclude, Invariance, PTL

(* Until an abort a tool's body runs inside its call, so an exclusive tool *)
(* runs alone.                                                             *)
THEOREM BodiesExclude == Spec => []ExclusiveBodies
<1>1. IInv /\ ExclusiveInside => ExclusiveBodies
  <2> SUFFICES ASSUME IInv, ExclusiveInside, ~aborted,
                      NEW c \in Calls, NEW d \in Calls, c # d,
                      body[c] = "running", body[d] = "running"
               PROVE  ~Conflict(c, d)
    BY DEF ExclusiveBodies
  <2>1. Inside(c) /\ Inside(d)
    BY DEF IInv, Books, BodyWithinCall, CallPoints, Inside
  <2>2. QED
    BY <2>1 DEF ExclusiveInside
<1>2. QED
  BY <1>1, BooksExclude, Invariance, PTL
-----------------------------------------------------------------------------
(* Order of arrival.                                                       *)

(* Drain grants the first n calls of the queue: a writer, nobody because of *)
(* a writer inside, or the readers before the first writer.                *)
Grants(q, readers, writer, p, n) ==
  /\ queue' \in Seq(Calls)
  /\ Len(queue') = Len(q) - n
  /\ \A i \in 1 .. Len(queue') : queue'[i] = q[n + i]
  /\ pc' = [c \in Calls |->
       IF \E i \in 1 .. n : q[i] = c THEN "granted" ELSE p[c]]
  /\ \/ /\ n = 1 /\ ~writer /\ readers = 0 /\ writerActive'
     \/ /\ n = 0 /\ writer /\ writerActive'
     \/ /\ ~writer
        /\ \A i \in 1 .. n : q[i] \notin Exclusive
        /\ n < Len(q) =>
             q[n + 1] \in Exclusive /\ (n = 0 => readers # 0)
        /\ activeReaders' = readers + n

(* What drain does to the queue and to the calls it grants. *)
LEMMA DrainGrants ==
  ASSUME NEW q, NEW readers, NEW writer, NEW p,
         Books(q, readers, writer, p), Drain(q, readers, writer, p)
  PROVE  \E n \in 0 .. Len(q) : Grants(q, readers, writer, p, n)
<1> DEFINE write == ~writer /\ readers = 0 /\ q # <<>> /\ q[1] \in Exclusive
           n == IF write THEN 1 ELSE IF writer THEN 0 ELSE LeadingReads(q)
<1>1. /\ q \in Seq(Calls) /\ Len(q) \in Nat
      /\ readers \in Nat /\ writer \in BOOLEAN
  BY DEF Books
<1>2. n \in 0 .. Len(q)
  BY <1>1, LeadingReadsProperty
<1>3. /\ queue' = SubSeq(q, n + 1, Len(q))
      /\ pc' = [c \in Calls |->
                  IF \E i \in 1 .. n : q[i] = c THEN "granted" ELSE p[c]]
      /\ writerActive' = (writer \/ write)
      /\ activeReaders' = IF write THEN readers ELSE readers + n
  BY DEF Drain
<1>4. /\ queue' \in Seq(Calls)
      /\ Len(queue') = Len(q) - n
      /\ \A i \in 1 .. Len(queue') : queue'[i] = q[n + i]
  <2> HIDE DEF n
  <2>1. QED
    BY <1>1, <1>2, <1>3, SubSeqProperties
<1>5. \/ /\ n = 1 /\ ~writer /\ readers = 0 /\ writerActive'
      \/ /\ n = 0 /\ writer /\ writerActive'
      \/ /\ ~writer
         /\ \A i \in 1 .. n : q[i] \notin Exclusive
         /\ n < Len(q) =>
              q[n + 1] \in Exclusive /\ (n = 0 => readers # 0)
         /\ activeReaders' = readers + n
  <2>1. CASE write
    BY <1>1, <1>3, <2>1
  <2>2. CASE writer
    BY <1>1, <1>3, <2>2
  <2>3. CASE ~write /\ ~writer
    <3>1. n = LeadingReads(q) /\ activeReaders' = readers + n
      BY <1>3, <2>3
    <3>2. /\ \A i \in 1 .. n : q[i] \notin Exclusive
          /\ n < Len(q) => q[n + 1] \in Exclusive
      BY <1>1, <3>1, LeadingReadsProperty
    <3>3. ASSUME n < Len(q), n = 0 PROVE readers # 0
      <4>1. q # <<>> /\ q[1] \in Exclusive
        BY <1>1, <3>2, <3>3
      <4>2. QED
        BY <2>3, <4>1
    <3>4. QED
      BY <2>3, <3>1, <3>2, <3>3
  <2>4. QED
    BY <2>1, <2>2, <2>3
<1>6. Grants(q, readers, writer, p, n)
  <2> HIDE DEF n
  <2>1. QED
    BY <1>3, <1>4, <1>5 DEF Grants
<1>7. QED
  BY <1>2, <1>6

(* The head of a queue that is not empty finds a writer inside, or is a    *)
(* writer and finds a reader.                                              *)
Headed(q, readers, writer) ==
  q # <<>> => writer \/ (q[1] \in Exclusive /\ readers # 0)

(* The places of the calls in the order of arrival, over program points p: *)
(* each arrives once, the queue keeps the order, and who is past the queue *)
(* has let every earlier call it conflicts with return.                    *)
Ordered(a, q, p) ==
  /\ a \in Seq(Calls)
  /\ \A i, j \in 1 .. Len(a) : a[i] = a[j] => i = j
  /\ \A i \in 1 .. Len(a) : p[a[i]] # "new"
  /\ \A k \in 1 .. Len(q) : \E i \in 1 .. Len(a) : a[i] = q[k]
  /\ \A k, l \in 1 .. Len(q), i, j \in 1 .. Len(a) :
       k < l /\ a[i] = q[k] /\ a[j] = q[l] => i < j
  /\ \A i, j \in 1 .. Len(a) :
       i < j /\ Conflict(a[i], a[j]) /\ p[a[j]] # "queued"
         => p[a[i]] = "returned"

OInv ==
  /\ IInv
  /\ Headed(queue, activeReaders, writerActive)
  /\ Ordered(arrival, queue, pc)

LEMMA DrainKeepsOrder ==
  ASSUME NEW q, NEW readers, NEW writer, NEW p, NEW a,
         Books(q, readers, writer, p), Drain(q, readers, writer, p),
         Ordered(a, q, p)
  PROVE  /\ Headed(queue, activeReaders, writerActive)'
         /\ Ordered(a, queue', pc')
<1>a. PICK n \in 0 .. Len(q) : Grants(q, readers, writer, p, n)
  BY DrainGrants
<1>0. /\ queue' \in Seq(Calls)
      /\ Len(queue') = Len(q) - n
      /\ \A i \in 1 .. Len(queue') : queue'[i] = q[n + i]
      /\ pc' = [c \in Calls |->
           IF \E i \in 1 .. n : q[i] = c THEN "granted" ELSE p[c]]
      /\ \/ /\ n = 1 /\ ~writer /\ readers = 0 /\ writerActive'
         \/ /\ n = 0 /\ writer /\ writerActive'
         \/ /\ ~writer
            /\ \A i \in 1 .. n : q[i] \notin Exclusive
            /\ n < Len(q) =>
                 q[n + 1] \in Exclusive /\ (n = 0 => readers # 0)
            /\ activeReaders' = readers + n
  BY <1>a DEF Grants
<1>1. /\ q \in Seq(Calls) /\ Len(q) \in Nat /\ Len(a) \in Nat
      /\ a \in Seq(Calls)
      /\ p \in [Calls -> CallPoints]
      /\ readers \in Nat
      /\ \A i \in 1 .. Len(a) : a[i] \in Calls
  BY DEF Books, Ordered
<1>2. Headed(queue, activeReaders, writerActive)'
  <2>1. SUFFICES ASSUME queue' # <<>>, ~writerActive'
                 PROVE  queue'[1] \in Exclusive /\ activeReaders' # 0
    BY DEF Headed
  <2>2. 1 \in 1 .. Len(queue') /\ n < Len(q) /\ queue'[1] = q[n + 1]
    BY <1>0, <1>1, <2>1
  <2>3. QED
    BY <1>0, <1>1, <2>1, <2>2
<1>3. \A k \in 1 .. Len(queue') : n + k \in 1 .. Len(q) /\ queue'[k] = q[n + k]
  BY <1>0, <1>1
<1>4. \A k \in 1 .. Len(queue') : \E i \in 1 .. Len(a) : a[i] = queue'[k]
  <2>1. \A k \in 1 .. Len(q) : \E i \in 1 .. Len(a) : a[i] = q[k]
    BY DEF Ordered
  <2>2. QED
    BY <1>3, <2>1
<1>5. \A k, l \in 1 .. Len(queue'), i, j \in 1 .. Len(a) :
        k < l /\ a[i] = queue'[k] /\ a[j] = queue'[l] => i < j
  <2>1. ASSUME NEW k \in 1 .. Len(queue'), NEW l \in 1 .. Len(queue'),
               NEW i \in 1 .. Len(a), NEW j \in 1 .. Len(a),
               k < l, a[i] = queue'[k], a[j] = queue'[l]
        PROVE  i < j
    <3>1. n + k < n + l
      BY <1>0, <1>1, <2>1
    <3>2. n + k \in 1 .. Len(q) /\ n + l \in 1 .. Len(q)
      BY <1>3
    <3>3. a[i] = q[n + k] /\ a[j] = q[n + l]
      BY <1>3, <2>1
    <3>4. \A x, y \in 1 .. Len(q) :
            x < y /\ a[i] = q[x] /\ a[j] = q[y] => i < j
      BY <2>1 DEF Ordered
    <3>5. QED
      BY <3>1, <3>2, <3>3, <3>4
  <2>2. QED
    BY <2>1
<1>6. \A i \in 1 .. Len(a) :
        pc'[a[i]] = IF \E k \in 1 .. n : q[k] = a[i] THEN "granted"
                    ELSE p[a[i]]
  BY <1>0, <1>1
<1>7. \A c \in Calls : p[c] = "queued" <=> \E k \in 1 .. Len(q) : q[k] = c
  BY DEF Books
<1>8. ASSUME NEW i \in 1 .. Len(a), NEW j \in 1 .. Len(a), i < j,
             Conflict(a[i], a[j]), pc'[a[j]] # "queued"
      PROVE  pc'[a[i]] = "returned"
  <2>1. SUFFICES p[a[i]] = "returned"
    <3>1. ASSUME p[a[i]] = "returned" PROVE ~\E k \in 1 .. n : q[k] = a[i]
      <4>1. \A k \in 1 .. n : k \in 1 .. Len(q)
        BY <1>1
      <4>2. \A k \in 1 .. Len(q) : q[k] # a[i]
        BY <1>1, <1>7, <3>1
      <4>3. QED
        BY <4>1, <4>2
    <3>2. QED
      BY <1>6, <3>1
  <2>2. CASE p[a[j]] # "queued"
    BY <1>8, <2>2 DEF Ordered
  <2>3. CASE p[a[j]] = "queued"
    <3>1. PICK l \in 1 .. n : q[l] = a[j]
      BY <1>6, <1>8, <2>3
    <3>2. ASSUME p[a[i]] = "queued" PROVE FALSE
      <4>1. PICK k \in 1 .. Len(q) : q[k] = a[i]
        BY <1>1, <1>7, <3>2
      <4>2. l \in 1 .. Len(q)
        BY <1>0, <1>1
      <4>3. ~(l < k)
        BY <1>1, <1>8, <3>1, <4>1, <4>2 DEF Ordered
      <4>4. k # l
        BY <1>1, <1>8, <3>1, <4>1 DEF Ordered
      <4>5. k < l
        BY <1>1, <4>2, <4>3, <4>4
      <4>6. k \in 1 .. n /\ n # 1
        BY <1>0, <1>1, <4>5
      <4>7. q[k] \notin Exclusive /\ q[l] \notin Exclusive
        BY <1>0, <4>6, <3>1
      <4>8. QED
        BY <1>8, <3>1, <4>1, <4>7 DEF Conflict
    <3>3. ASSUME p[a[i]] \in {"granted", "running"} PROVE FALSE
      <4>1. /\ a[i] \in Exclusive => writer
            /\ a[i] \notin Exclusive => readers # 0
        <5>1. a[i] \in Exclusive => a[i] \in WritersIn(p)
          BY <1>1, <3>3 DEF WritersIn
        <5>2. a[i] \notin Exclusive => a[i] \in ReadersIn(p)
          BY <1>1, <3>3 DEF ReadersIn
        <5>3. a[i] \notin Exclusive => Cardinality(ReadersIn(p)) # 0
          BY <5>2, FiniteReaders, FS_EmptySet
        <5>4. QED
          BY <5>1, <5>3 DEF Books
      <4>2. n # 0 /\ ~writer
        BY <1>0, <1>1, <3>1
      <4>3. readers # 0 /\ a[i] \notin Exclusive
        BY <4>1, <4>2
      <4>4. q[l] \notin Exclusive
        BY <1>0, <3>1, <4>2, <4>3
      <4>5. QED
        BY <1>8, <3>1, <4>3, <4>4 DEF Conflict
    <3>4. QED
      BY <1>1, <3>2, <3>3 DEF CallPoints, Ordered
  <2>4. QED
    BY <2>2, <2>3
<1>9. \A i \in 1 .. Len(a) : pc'[a[i]] # "new"
  BY <1>6 DEF Ordered
<1>10. QED
  BY <1>1, <1>2, <1>4, <1>5, <1>8, <1>9 DEF Ordered

(* Points that move inside the gate, or from there to the return, and no   *)
(* others, keep the order.                                                 *)
LEMMA MovingKeepsOrder ==
  ASSUME NEW a, NEW q, NEW p, NEW np, Ordered(a, q, p),
         \A c \in Calls : \/ np[c] = p[c]
                          \/ /\ p[c] \in {"granted", "running"}
                             /\ np[c] \in {"running", "returned"}
  PROVE  Ordered(a, q, np)
<1>1. a \in Seq(Calls) /\ \A i \in 1 .. Len(a) : a[i] \in Calls
  BY DEF Ordered
<1>2. \A i \in 1 .. Len(a) :
        /\ np[a[i]] # "new"
        /\ np[a[i]] # "queued" => p[a[i]] # "queued"
        /\ p[a[i]] = "returned" => np[a[i]] = "returned"
  BY <1>1 DEF Ordered
<1>3. QED
  BY <1>1, <1>2 DEF Ordered

(* A call that arrives is last: in the queue, or past it when all it       *)
(* conflicts with has returned.                                            *)
LEMMA ArrivingKeepsOrder ==
  ASSUME NEW a, NEW q, NEW p, Ordered(a, q, p), NEW c \in Calls,
         q \in Seq(Calls), p \in [Calls -> CallPoints], p[c] = "new",
         \A d \in Calls : p[d] = "queued" <=> \E k \in 1 .. Len(q) : q[k] = d
  PROVE  /\ Ordered(Append(a, c), Append(q, c), [p EXCEPT ![c] = "queued"])
         /\ (\A d \in Calls : Conflict(d, c) => p[d] \in {"new", "returned"})
              => Ordered(Append(a, c), q, [p EXCEPT ![c] = "granted"])
<1> DEFINE na == Append(a, c)
           nq == Append(q, c)
           m == Len(a) + 1
<1>1. /\ a \in Seq(Calls) /\ Len(a) \in Nat /\ Len(q) \in Nat
      /\ \A i \in 1 .. Len(a) : a[i] \in Calls
      /\ \A k \in 1 .. Len(q) : q[k] \in Calls
  BY DEF Ordered
<1>2. /\ na \in Seq(Calls) /\ Len(na) = m /\ na[m] = c
      /\ \A i \in 1 .. Len(a) : na[i] = a[i]
      /\ m \in 1 .. m
  BY <1>1
<1>3. /\ Len(nq) = Len(q) + 1 /\ nq[Len(q) + 1] = c
      /\ \A k \in 1 .. Len(q) : nq[k] = q[k]
  BY <1>1
<1>4. \A i \in 1 .. Len(a) : a[i] # c
  BY <1>1 DEF Ordered
<1>5. \A k \in 1 .. Len(q) : q[k] # c
  <2>1. \A k \in 1 .. Len(q) : p[q[k]] = "queued"
    BY <1>1
  <2>2. QED
    BY <2>1
<1>6. /\ \A i \in 1 .. m : i \in 1 .. Len(a) \/ i = m
      /\ \A i \in 1 .. Len(a) : i \in 1 .. m /\ i < m
  BY <1>1
<1> HIDE DEF na, nq, m
<1>7. \A i, j \in 1 .. m : na[i] = na[j] => i = j
  BY <1>2, <1>4, <1>6 DEF Ordered
<1>8. ASSUME NEW w \in {"queued", "granted"}
      PROVE  LET np == [p EXCEPT ![c] = w]
             IN  /\ \A i \in 1 .. m : np[na[i]] # "new"
                 /\ \A i \in 1 .. Len(a) : np[na[i]] = p[a[i]]
                 /\ np[c] = w
  <2> DEFINE np == [p EXCEPT ![c] = w]
  <2>1. np[c] = w /\ \A d \in Calls \ {c} : np[d] = p[d]
    OBVIOUS
  <2> HIDE DEF np
  <2>2. \A i \in 1 .. Len(a) : np[na[i]] = p[a[i]] /\ p[a[i]] # "new"
    BY <1>1, <1>2, <1>4, <2>1 DEF Ordered
  <2>3. \A i \in 1 .. m : np[na[i]] # "new"
    BY <1>2, <1>6, <1>8, <2>1, <2>2
  <2>4. QED
    BY <2>1, <2>2, <2>3 DEF np
<1>9. \A i, j \in 1 .. m : i < j => i \in 1 .. Len(a)
  BY <1>1, <1>6 DEF m
<1>10. Ordered(na, nq, [p EXCEPT ![c] = "queued"])
  <2> DEFINE np == [p EXCEPT ![c] = "queued"]
  <2>1. \A k \in 1 .. Len(nq) : k \in 1 .. Len(q) \/ k = Len(q) + 1
    BY <1>1, <1>3
  <2>2. \A k \in 1 .. Len(nq) : \E i \in 1 .. m : na[i] = nq[k]
    <3>1. ASSUME NEW k \in 1 .. Len(q)
          PROVE  \E i \in 1 .. m : na[i] = nq[k]
      <4>1. PICK i \in 1 .. Len(a) : a[i] = q[k]
        BY DEF Ordered
      <4>2. QED
        BY <1>2, <1>3, <1>6, <4>1
    <3>2. QED
      BY <1>2, <1>3, <2>1, <3>1
  <2>3. ASSUME NEW k \in 1 .. Len(nq), NEW l \in 1 .. Len(nq),
               NEW i \in 1 .. m, NEW j \in 1 .. m,
               k < l, na[i] = nq[k], na[j] = nq[l]
        PROVE  i < j
    <3>1. k \in 1 .. Len(q)
      BY <1>1, <1>3, <2>3
    <3>2. i \in 1 .. Len(a)
      BY <1>2, <1>3, <1>5, <1>6, <2>3, <3>1
    <3>3. CASE l = Len(q) + 1
      <4>1. j = m
        BY <1>2, <1>3, <1>4, <1>6, <2>3, <3>3
      <4>2. QED
        BY <1>6, <3>2, <4>1
    <3>4. CASE l \in 1 .. Len(q)
      <4>1. j \in 1 .. Len(a)
        BY <1>2, <1>3, <1>5, <1>6, <2>3, <3>4
      <4>2. a[i] = q[k] /\ a[j] = q[l]
        BY <1>2, <1>3, <2>3, <3>1, <3>2, <3>4, <4>1
      <4>3. QED
        BY <2>3, <3>1, <3>2, <3>4, <4>1, <4>2 DEF Ordered
    <3>5. QED
      BY <2>1, <3>3, <3>4
  <2>4. ASSUME NEW i \in 1 .. m, NEW j \in 1 .. m, i < j,
               Conflict(na[i], na[j]), np[na[j]] # "queued"
        PROVE  np[na[i]] = "returned"
    <3>1. i \in 1 .. Len(a)
      BY <1>9, <2>4
    <3>2. j \in 1 .. Len(a)
      BY <1>2, <1>6, <1>8, <2>4
    <3>3. np[na[i]] = p[a[i]] /\ np[na[j]] = p[a[j]]
          /\ na[i] = a[i] /\ na[j] = a[j]
      BY <1>2, <1>8, <3>1, <3>2
    <3>4. QED
      BY <2>4, <3>1, <3>2, <3>3 DEF Ordered
  <2>5. \A i \in 1 .. m : np[na[i]] # "new"
    BY <1>8
  <2> HIDE DEF np
  <2>6. Ordered(na, nq, np)
    BY <1>2, <1>7, <2>2, <2>3, <2>4, <2>5 DEF Ordered
  <2>7. QED
    BY <2>6 DEF np
<1>11. ASSUME \A d \in Calls : Conflict(d, c) => p[d] \in {"new", "returned"}
       PROVE  Ordered(na, q, [p EXCEPT ![c] = "granted"])
  <2> DEFINE np == [p EXCEPT ![c] = "granted"]
  <2>1. \A k \in 1 .. Len(q) : \E i \in 1 .. m : na[i] = q[k]
    <3>1. ASSUME NEW k \in 1 .. Len(q)
          PROVE  \E i \in 1 .. m : na[i] = q[k]
      <4>1. PICK i \in 1 .. Len(a) : a[i] = q[k]
        BY DEF Ordered
      <4>2. QED
        BY <1>2, <1>6, <4>1
    <3>2. QED
      BY <3>1
  <2>2. ASSUME NEW k \in 1 .. Len(q), NEW l \in 1 .. Len(q),
               NEW i \in 1 .. m, NEW j \in 1 .. m,
               k < l, na[i] = q[k], na[j] = q[l]
        PROVE  i < j
    <3>1. i \in 1 .. Len(a) /\ j \in 1 .. Len(a)
      BY <1>2, <1>5, <1>6, <2>2
    <3>2. a[i] = q[k] /\ a[j] = q[l]
      BY <1>2, <2>2, <3>1
    <3>3. QED
      BY <2>2, <3>1, <3>2 DEF Ordered
  <2>3. ASSUME NEW i \in 1 .. m, NEW j \in 1 .. m, i < j,
               Conflict(na[i], na[j]), np[na[j]] # "queued"
        PROVE  np[na[i]] = "returned"
    <3>1. i \in 1 .. Len(a)
      BY <1>9, <2>3
    <3>2. np[na[i]] = p[a[i]] /\ na[i] = a[i] /\ p[a[i]] # "new"
      BY <1>2, <1>8, <3>1 DEF Ordered
    <3>3. CASE j = m
      BY <1>1, <1>2, <1>11, <2>3, <3>1, <3>2, <3>3
    <3>4. CASE j \in 1 .. Len(a)
      <4>1. np[na[j]] = p[a[j]] /\ na[j] = a[j]
        BY <1>2, <1>8, <3>4
      <4>2. QED
        BY <2>3, <3>1, <3>2, <3>4, <4>1 DEF Ordered
    <3>5. QED
      BY <1>6, <3>3, <3>4
  <2>4. \A i \in 1 .. m : np[na[i]] # "new"
    BY <1>8
  <2> HIDE DEF np
  <2>5. Ordered(na, q, np)
    BY <1>2, <1>7, <2>1, <2>2, <2>3, <2>4 DEF Ordered
  <2>6. QED
    BY <2>5 DEF np
<1>12. QED
  BY <1>10, <1>11 DEF na, nq

LEMMA OrderInit == Init => OInv
  BY InitKeeps DEF Init, OInv, Headed, Ordered

LEMMA OrderStep == OInv /\ [Next]_vars => OInv'
<1> SUFFICES ASSUME OInv, [Next]_vars
             PROVE  OInv'
  OBVIOUS
<1>1. /\ IInv /\ IInv'
      /\ Books(queue, activeReaders, writerActive, pc)
      /\ pc \in [Calls -> CallPoints]
      /\ queue \in Seq(Calls)
      /\ Headed(queue, activeReaders, writerActive)
      /\ Ordered(arrival, queue, pc)
  BY StepKeeps DEF OInv, IInv, Books
<1>2. \A d \in Calls :
        pc[d] = "queued" <=> \E k \in 1 .. Len(queue) : queue[k] = d
  BY <1>1 DEF Books
<1>3. ASSUME NEW c \in Calls, Arrive(c), ~aborted, CanGrantImmediately(c)
      PROVE  OInv'
  <2>1. /\ pc[c] = "new"
        /\ arrival' = Append(arrival, c)
        /\ pc' = [pc EXCEPT ![c] = "granted"]
        /\ writerActive' = (writerActive \/ c \in Exclusive)
        /\ UNCHANGED queue
    BY <1>3 DEF Arrive
  <2>2. queue = <<>> /\ ~writerActive
    BY <1>1, <1>3 DEF CanGrantImmediately, Headed
  <2>3. \A d \in Calls : Conflict(d, c) => pc[d] \in {"new", "returned"}
    <3>1. ASSUME NEW d \in Calls, Conflict(d, c),
                 pc[d] \in {"granted", "running"}
          PROVE  FALSE
      <4>1. d \in Exclusive => d \in WritersIn(pc)
        BY <3>1 DEF WritersIn
      <4>2. d \notin Exclusive
        BY <1>1, <2>2, <4>1 DEF Books
      <4>3. d \in ReadersIn(pc)
        BY <3>1, <4>2 DEF ReadersIn
      <4>4. activeReaders # 0
        BY <1>1, <4>3, FiniteReaders, FS_EmptySet DEF Books
      <4>5. QED
        BY <1>3, <3>1, <4>2, <4>4 DEF CanGrantImmediately, Conflict
    <3>2. \A d \in Calls : pc[d] # "queued"
      BY <1>2, <2>2
    <3>3. QED
      BY <1>1, <3>1, <3>2 DEF CallPoints
  <2>4. Ordered(arrival', queue, pc')
    BY <1>1, <1>2, <2>1, <2>3, ArrivingKeepsOrder
  <2>5. QED
    BY <1>1, <2>1, <2>2, <2>4 DEF OInv, Headed
<1>4. ASSUME NEW c \in Calls, Arrive(c), ~aborted, ~CanGrantImmediately(c)
      PROVE  OInv'
  <2> DEFINE np == [pc EXCEPT ![c] = "queued"]
             nq == Append(queue, c)
  <2>1. /\ pc[c] = "new"
        /\ arrival' = Append(arrival, c)
        /\ Drain(nq, activeReaders, writerActive, np)
    BY <1>4 DEF Arrive
  <2>2. Books(nq, activeReaders, writerActive, np)
    BY <1>1, <2>1, QueueingKeepsBooks
  <2>3. Ordered(arrival', nq, np)
    BY <1>1, <1>2, <2>1, ArrivingKeepsOrder
  <2> HIDE DEF np, nq
  <2>4. QED
    BY <1>1, <2>1, <2>2, <2>3, DrainKeepsOrder DEF OInv
<1>5. ASSUME NEW c \in Calls, Arrive(c), aborted
      PROVE  OInv'
  <2>1. /\ pc[c] = "new" /\ pc' = [pc EXCEPT ![c] = "returned"]
        /\ UNCHANGED <<activeReaders, writerActive, queue, arrival>>
    BY <1>5 DEF Arrive, gateVars
  <2>2. \A i \in 1 .. Len(arrival) :
          arrival[i] \in Calls /\ arrival[i] # c
          /\ pc'[arrival[i]] = pc[arrival[i]]
    BY <1>1, <2>1 DEF Ordered
  <2>3. Ordered(arrival, queue, pc')
    BY <1>1, <2>2 DEF Ordered
  <2>4. QED
    BY <1>1, <2>1, <2>3 DEF OInv
<1>6. ASSUME NEW c \in Calls, Dispatch(c)
      PROVE  OInv'
  <2>1. /\ pc[c] = "granted" /\ pc' = [pc EXCEPT ![c] = "running"]
        /\ UNCHANGED <<activeReaders, writerActive, queue, arrival>>
    BY <1>6 DEF Dispatch, gateVars
  <2>2. Ordered(arrival, queue, pc')
    <3>1. \A d \in Calls : \/ pc'[d] = pc[d]
                           \/ pc[d] = "granted" /\ pc'[d] = "running"
      BY <1>1, <2>1
    <3>2. QED
      BY <1>1, <3>1, MovingKeepsOrder
  <2>3. QED
    BY <1>1, <2>1, <2>2 DEF OInv
<1>7. ASSUME NEW c \in Calls, Release(c)
      PROVE  OInv'
  <2> DEFINE np == [pc EXCEPT ![c] = "returned"]
             nr == IF c \in Exclusive \/ activeReaders = 0
                   THEN activeReaders ELSE activeReaders - 1
             nw == writerActive /\ c \notin Exclusive
  <2>1. /\ pc[c] = "running" /\ Drain(queue, nr, nw, np)
        /\ UNCHANGED arrival
    BY <1>7 DEF Release
  <2>2. Books(queue, nr, nw, np)
    BY <1>1, <2>1, LeavingKeepsBooks
  <2>3. Ordered(arrival, queue, np)
    <3>1. \A d \in Calls : \/ np[d] = pc[d]
                           \/ pc[d] = "running" /\ np[d] = "returned"
      BY <1>1, <2>1
    <3> HIDE DEF np
    <3>2. QED
      BY <1>1, <3>1, MovingKeepsOrder
  <2> HIDE DEF np, nr, nw
  <2>4. QED
    BY <1>1, <2>1, <2>2, <2>3, DrainKeepsOrder DEF OInv
<1>8. CASE (\E c \in Calls : BodyEnds(c)) \/ Abort \/ UNCHANGED vars
  <2>1. UNCHANGED <<activeReaders, writerActive, queue, pc, arrival>>
    BY <1>8 DEF BodyEnds, Abort, vars, gateVars
  <2>2. QED
    BY <1>1, <2>1 DEF OInv
<1>9. QED
  BY <1>3, <1>4, <1>5, <1>6, <1>7, <1>8 DEF Next

(* Calls that conflict enter the gate in the order in which they came,     *)
(* each after the earlier one has returned, for any number of calls.       *)
THEOREM OrderKept == Spec => []ConflictsInOrder
<1>1. OInv => ConflictsInOrder
  BY DEF OInv, Ordered, ConflictsInOrder
<1>2. QED
  BY <1>1, OrderInit, OrderStep, PTL DEF Spec

(* Whoever heads the queue waits for a call inside that conflicts with it, *)
(* so that the release of that call wakes it: no wakeup is lost.           *)
THEOREM HeadWaits == Spec => []HeadWaitsForConflict
<1>1. OInv => HeadWaitsForConflict
  <2> SUFFICES ASSUME OInv, queue # <<>>
               PROVE  \E c \in Calls : Inside(c) /\ Conflict(c, queue[1])
    BY DEF HeadWaitsForConflict
  <2>1. CASE writerActive
    <3>1. PICK c : c \in WritersIn(pc)
      BY <2>1 DEF OInv, IInv, Books
    <3>2. QED
      BY <3>1, CallsAssumption DEF WritersIn, Inside, Conflict
  <2>2. CASE ~writerActive
    <3>1. queue[1] \in Exclusive /\ activeReaders # 0
      BY <2>2 DEF OInv, Headed
    <3>2. ReadersIn(pc) # {}
      BY <3>1, FS_EmptySet DEF OInv, IInv, Books
    <3>3. QED
      BY <3>1, <3>2 DEF ReadersIn, Inside, Conflict
  <2>3. QED
    BY <2>1, <2>2
<1>2. QED
  BY <1>1, OrderInit, OrderStep, PTL DEF Spec
=============================================================================
