------------------------- MODULE LiveHistoryLemmas --------------------------
(***************************************************************************)
(* Lemmas about the operators of LiveHistory, for histories of any length: *)
(* Keep, CutIndex and the two rollbacks, ForPrompt and LastStated, each    *)
(* described by what it does to a history with one item more, and from     *)
(* that by induction.  The library's induction theorems take an operator;  *)
(* AppendInduction takes a set instead, and follows from the least element *)
(* of a set of naturals.                                                   *)
(***************************************************************************)
EXTENDS LiveHistory, WellFoundedInduction, NaturalsInduction,
        SequenceTheorems, FiniteSetTheorems, TLAPS

-----------------------------------------------------------------------------
(* Induction over naturals and sequences, and FlattenSeq. *)

(* A non-empty set of naturals has a least element. *)
LEMMA Least ==
  ASSUME NEW T, T \subseteq Nat, T # {}
  PROVE  \E x \in T : \A y \in T : x <= y
<1>1. IsWellFoundedOn(OpToRel(<, Nat), Nat)
  BY NatLessThanWellFounded
<1>2. PICK x \in T : \A y \in T : ~(<<y, x>> \in OpToRel(<, Nat))
  BY <1>1, WFMin
<1>3. \A y \in T : ~(y < x)
  BY <1>2 DEF OpToRel
<1>4. QED
  BY <1>3

(* A set that holds 0 and every successor of its naturals holds them all. *)
LEMMA CountingUp ==
  ASSUME NEW T, 0 \in T, \A n \in Nat : n \in T => n + 1 \in T
  PROVE  Nat \subseteq T
<1>. SUFFICES ASSUME Nat \ T # {} PROVE FALSE
  OBVIOUS
<1>1. PICK n \in Nat \ T : \A m \in Nat \ T : n <= m
  BY Least
<1>2. n # 0 /\ n - 1 \in Nat
  BY <1>1
<1>3. n - 1 \in T
  BY <1>1, <1>2
<1>4. QED
  BY <1>1, <1>2, <1>3

(* A set with the empty sequence that is closed under Append holds every   *)
(* sequence.                                                               *)
LEMMA AppendInduction ==
  ASSUME NEW S, NEW T, <<>> \in T,
         \A h \in Seq(S) : \A x \in S : h \in T => Append(h, x) \in T
  PROVE  Seq(S) \subseteq T
<1>. DEFINE N == {n \in Nat : \A h \in Seq(S) : Len(h) = n => h \in T}
<1>1. 0 \in N
  BY EmptySeq
<1>2. ASSUME NEW n \in Nat, n \in N PROVE n + 1 \in N
  <2>1. SUFFICES ASSUME NEW h \in Seq(S), Len(h) = n + 1 PROVE h \in T
    BY <1>2
  <2>2. h # <<>>
    BY <2>1, <1>2, EmptySeq
  <2>3. PICK g \in Seq(S), x \in S : h = Append(g, x)
    BY <2>2, SequenceEmptyOrAppend
  <2>4. Len(g) = n
    BY <2>1, <2>3, AppendProperties, LenProperties
  <2>5. QED
    BY <2>3, <2>4, <1>2
<1>3. Nat \subseteq N
  <2>. HIDE DEF N
  <2>. QED BY <1>1, <1>2, CountingUp
<1>4. QED
  BY <1>3, LenProperties
-----------------------------------------------------------------------------

(* f lists what the first n sequences of seqs come to, one after another. *)
Flat(f, seqs, n) ==
  f = [i \in 1 .. n |-> IF i = 1 THEN seqs[i] ELSE f[i - 1] \o seqs[i]]

(* There is such a list, *)
LEMMA FlatExists ==
  ASSUME NEW seqs, NEW n \in Nat
  PROVE  \E f : Flat(f, seqs, n)
<1>. DEFINE T == {m \in Nat : \E f : Flat(f, seqs, m)}
<1>1. 0 \in T
  <2>. DEFINE f == [i \in 1 .. 0 |-> IF i = 1 THEN seqs[i] ELSE 0]
  <2>1. Flat(f, seqs, 0)
    BY DEF Flat
  <2>. QED BY <2>1
<1>2. ASSUME NEW m \in Nat, m \in T PROVE m + 1 \in T
  <2>1. PICK f : Flat(f, seqs, m)
    BY <1>2
  <2>. DEFINE g == [i \in 1 .. m + 1 |->
                      IF i = 1 THEN seqs[i] ELSE f[i - 1] \o seqs[i]]
  <2>0. \A i \in 1 .. m :
          f[i] = IF i = 1 THEN seqs[i] ELSE f[i - 1] \o seqs[i]
    BY <2>1 DEF Flat
  <2>2. \A i \in 1 .. m : g[i] = f[i]
    <3>. TAKE i \in 1 .. m
    <3>1. i \in 1 .. m + 1
      OBVIOUS
    <3>. QED BY <2>0, <3>1
  <2>3. \A i \in 1 .. m + 1 : i # 1 => i - 1 \in 1 .. m
    OBVIOUS
  <2>4. g = [i \in 1 .. m + 1 |->
               IF i = 1 THEN seqs[i] ELSE g[i - 1] \o seqs[i]]
    BY <2>2, <2>3
  <2>5. Flat(g, seqs, m + 1)
    BY <2>4 DEF Flat
  <2>. HIDE DEF g
  <2>6. QED
    BY <2>5
<1>3. Nat \subseteq T
  <2>. HIDE DEF T
  <2>. QED BY <1>1, <1>2, CountingUp
<1>4. QED
  BY <1>3

(* and it is unique, whatever comes after the n-th sequence. *)
LEMMA FlatUnique ==
  ASSUME NEW seqs, NEW more, NEW f, NEW g, NEW n \in Nat, NEW m \in Nat,
         n <= m, \A i \in 1 .. n : seqs[i] = more[i],
         Flat(f, seqs, n), Flat(g, more, m)
  PROVE  \A i \in 1 .. n : f[i] = g[i]
<1>. DEFINE T == {i \in 1 .. n : f[i] # g[i]}
<1>1. SUFFICES ASSUME T # {} PROVE FALSE
  OBVIOUS
<1>0. T \subseteq Nat
  OBVIOUS
<1>2. PICK i \in T : \A j \in T : i <= j
  <2>. HIDE DEF T
  <2>. QED BY <1>0, <1>1, Least
<1>3. \A k \in 1 .. n : f[k] = IF k = 1 THEN seqs[k] ELSE f[k - 1] \o seqs[k]
  BY DEF Flat
<1>4. \A k \in 1 .. m : g[k] = IF k = 1 THEN more[k] ELSE g[k - 1] \o more[k]
  BY DEF Flat
<1>5. i # 1
  BY <1>2, <1>3, <1>4
<1>6. i - 1 \in 1 .. n /\ f[i - 1] = g[i - 1]
  BY <1>2, <1>5
<1>7. QED
  BY <1>2, <1>3, <1>4, <1>5, <1>6

(* Flattening nothing gives nothing. *)
LEMMA FlattenEmpty == FlattenSeq(<<>>) = <<>>
  BY DEF FlattenSeq

(* FlattenSeq is the last entry of that list. *)
LEMMA FlattenIs ==
  ASSUME NEW seqs, Len(seqs) \in Nat \ {0}
  PROVE  \E f : Flat(f, seqs, Len(seqs)) /\ FlattenSeq(seqs) = f[Len(seqs)]
<1>. DEFINE f == CHOOSE g : Flat(g, seqs, Len(seqs))
<1>1. Flat(f, seqs, Len(seqs))
  BY FlatExists
<1>2. FlattenSeq(seqs) = f[Len(seqs)]
  BY DEF FlattenSeq, Flat
<1>. QED BY <1>1, <1>2

(* One sequence more is concatenated at the end. *)
LEMMA FlattenAppend ==
  ASSUME NEW S, NEW seqs \in Seq(Seq(S)), NEW piece \in Seq(S)
  PROVE  FlattenSeq(Append(seqs, piece)) = FlattenSeq(seqs) \o piece
<1>. DEFINE n == Len(seqs)
            more == Append(seqs, piece)
<1>1. /\ n \in Nat /\ Len(more) = n + 1 /\ more[n + 1] = piece
      /\ \A i \in 1 .. n : more[i] = seqs[i]
  BY AppendProperties, LenProperties
<1>2. PICK g : Flat(g, more, n + 1) /\ FlattenSeq(more) = g[n + 1]
  <2>1. Len(more) \in Nat \ {0}
    BY <1>1
  <2>. HIDE DEF more
  <2>. QED BY <1>1, <2>1, FlattenIs
<1>3. g[n + 1] = IF n + 1 = 1 THEN more[n + 1] ELSE g[n] \o more[n + 1]
  <2>1. \A k \in 1 .. n + 1 :
          g[k] = IF k = 1 THEN more[k] ELSE g[k - 1] \o more[k]
    BY <1>2 DEF Flat
  <2>2. n + 1 \in 1 .. n + 1 /\ (n + 1) - 1 = n
    BY <1>1
  <2>. QED BY <2>1, <2>2
<1>4. CASE n = 0
  <2>1. seqs = <<>>
    BY <1>4, EmptySeq
  <2>2. FlattenSeq(more) = piece
    BY <1>1, <1>2, <1>3, <1>4
  <2>3. <<>> \o piece = piece
    BY ConcatEmptySeq
  <2>. QED BY <2>1, <2>2, <2>3, FlattenEmpty
<1>5. CASE n # 0
  <2>1. PICK f : Flat(f, seqs, n) /\ FlattenSeq(seqs) = f[n]
    BY <1>1, <1>5, FlattenIs
  <2>2. \A i \in 1 .. n : f[i] = g[i]
    <3>1. n <= n + 1 /\ n + 1 \in Nat /\ \A i \in 1 .. n : seqs[i] = more[i]
      BY <1>1
    <3>2. n \in Nat /\ Flat(f, seqs, n) /\ Flat(g, more, n + 1)
      BY <1>1, <1>2, <2>1
    <3>. DEFINE m == n + 1
    <3>. HIDE DEF n, m, more
    <3>3. n <= m /\ m \in Nat /\ Flat(g, more, m)
      BY <3>1, <3>2 DEF m
    <3>. QED BY <3>1, <3>2, <3>3, FlatUnique
  <2>3. f[n] = g[n]
    BY <2>2, <1>1, <1>5
  <2>. QED BY <2>1, <2>3, <1>1, <1>2, <1>3, <1>5
<1>. QED BY <1>4, <1>5

(* Flattening stays within the element type. *)
LEMMA FlattenType ==
  ASSUME NEW S, NEW seqs \in Seq(Seq(S))
  PROVE  FlattenSeq(seqs) \in Seq(S)
<1>. DEFINE T == {h \in Seq(Seq(S)) : FlattenSeq(h) \in Seq(S)}
<1>1. <<>> \in T
  BY FlattenEmpty, EmptySeq
<1>2. ASSUME NEW h \in Seq(Seq(S)), NEW x \in Seq(S), h \in T
      PROVE  Append(h, x) \in T
  <2>1. FlattenSeq(Append(h, x)) = FlattenSeq(h) \o x
    BY FlattenAppend
  <2>2. FlattenSeq(h) \o x \in Seq(S)
    BY <1>2, ConcatProperties
  <2>. QED BY <2>1, <2>2, AppendProperties
<1>3. Seq(Seq(S)) \subseteq T
  <2>. HIDE DEF T
  <2>. QED BY <1>1, <1>2, AppendInduction
<1>. QED BY <1>3

-----------------------------------------------------------------------------
(* Append, and Keep. *)

(* What Append does, for the provers. *)
LEMMA AppendFacts ==
  ASSUME NEW S, NEW h \in Seq(S), NEW x \in S
  PROVE  /\ Append(h, x) \in Seq(S)
         /\ Len(h) \in Nat
         /\ DOMAIN h = 1 .. Len(h)
         /\ Len(Append(h, x)) = Len(h) + 1
         /\ DOMAIN Append(h, x) = 1 .. Len(h) + 1
         /\ \A i \in 1 .. Len(h) : Append(h, x)[i] = h[i]
         /\ Append(h, x)[Len(h) + 1] = x
  BY AppendProperties, LenProperties

(* A function on 1 .. n is a sequence of length n. *)
LEMMA FunctionIsSeq ==
  ASSUME NEW S, NEW n \in Nat, NEW f \in [1 .. n -> S]
  PROVE  f \in Seq(S) /\ Len(f) = n
<1>1. f \in Seq(S)
  BY SeqDef
<1>. QED BY <1>1, LenProperties

(* A sequence that is h and then x is Append(h, x). *)
LEMMA IsAppend ==
  ASSUME NEW S, NEW h \in Seq(S), NEW x \in S,
         NEW g \in [1 .. Len(h) + 1 -> S],
         \A i \in 1 .. Len(h) : g[i] = h[i], g[Len(h) + 1] = x
  PROVE  g = Append(h, x)
<1>1. Len(h) \in Nat /\ Len(h) + 1 \in Nat
  BY LenProperties
<1>2. g \in Seq(S) /\ Len(g) = Len(h) + 1
  BY <1>1, FunctionIsSeq
<1>3. \A i \in 1 .. Len(h) + 1 : i \in 1 .. Len(h) \/ i = Len(h) + 1
  BY <1>1
<1>4. \A i \in 1 .. Len(g) : g[i] = Append(h, x)[i]
  BY <1>2, <1>3, AppendFacts
<1>. QED BY <1>2, <1>4, AppendFacts, SeqEqual

(* Append adds its element to what the sequence holds. *)
LEMMA ToSetAppend ==
  ASSUME NEW S, NEW h \in Seq(S), NEW x \in S
  PROVE  ToSet(Append(h, x)) = ToSet(h) \union {x}
<1>1. \A i \in 1 .. Len(h) + 1 : i \in 1 .. Len(h) \/ i = Len(h) + 1
  BY AppendFacts
<1>2. 1 .. Len(h) \subseteq 1 .. Len(h) + 1 /\ Len(h) + 1 \in 1 .. Len(h) + 1
  BY AppendFacts
<1>3. ToSet(Append(h, x)) \subseteq ToSet(h) \union {x}
  BY <1>1, AppendFacts DEF ToSet
<1>4. \A i \in DOMAIN h : h[i] \in ToSet(Append(h, x))
  BY <1>2, AppendFacts DEF ToSet
<1>5. x \in ToSet(Append(h, x))
  BY <1>2, AppendFacts DEF ToSet
<1>. QED BY <1>3, <1>4, <1>5 DEF ToSet

(* The empty sequence holds nothing. *)
LEMMA ToSetEmpty == ToSet(<<>>) = {}
  BY DEF ToSet

(* A sequence over S holds elements of S. *)
LEMMA ToSetType ==
  ASSUME NEW S, NEW h \in Seq(S)
  PROVE  ToSet(h) \subseteq S
  BY LenProperties, ElementOfSeq DEF ToSet
-----------------------------------------------------------------------------

(* Nothing is kept of the empty history. *)
LEMMA KeepEmpty ==
  ASSUME NEW K
  PROVE  Keep(<<>>, K) = <<>>
<1>1. [i \in DOMAIN <<>> |-> IF <<>>[i] \in K THEN <<<<>>[i]>> ELSE <<>>]
        = <<>>
  OBVIOUS
<1>. QED BY <1>1, FlattenEmpty DEF Keep

(* To concatenate one element is to append it. *)
LEMMA ConcatOne ==
  ASSUME NEW S, NEW h \in Seq(S), NEW x \in S
  PROVE  h \o <<x>> = Append(h, x)
  BY AppendIsConcat

(* History h with each item x replaced by the sequence p[x]. *)
Pieces(p, h) == FlattenSeq([i \in DOMAIN h |-> p[h[i]]])

(* The pieces of a longer history: those of the shorter one, and one more. *)
LEMMA PiecesAppend ==
  ASSUME NEW S, NEW p \in [S -> Seq(S)], NEW h \in Seq(S), NEW x \in S
  PROVE  /\ Pieces(p, h) \in Seq(S)
         /\ Pieces(p, Append(h, x)) = Pieces(p, h) \o p[x]
<1>. DEFINE pieces(g) == [i \in DOMAIN g |-> p[g[i]]]
<1>1. /\ Append(h, x) \in Seq(S)
      /\ Len(h) \in Nat
      /\ DOMAIN h = 1 .. Len(h)
      /\ DOMAIN Append(h, x) = 1 .. Len(h) + 1
      /\ \A i \in 1 .. Len(h) : Append(h, x)[i] = h[i]
      /\ Append(h, x)[Len(h) + 1] = x
  BY AppendFacts
<1>2. \A g \in Seq(S) : \A i \in 1 .. Len(g) : g[i] \in S
  BY ElementOfSeq
<1>3. pieces(h) \in Seq(Seq(S)) /\ Len(pieces(h)) = Len(h)
  <2>1. pieces(h) \in [1 .. Len(h) -> Seq(S)]
    BY <1>1, <1>2
  <2>. HIDE DEF pieces
  <2>. QED BY <1>1, <2>1, FunctionIsSeq
<1>4. pieces(Append(h, x)) = Append(pieces(h), p[x])
  <2>1. pieces(Append(h, x)) \in [1 .. Len(h) + 1 -> Seq(S)]
    BY <1>1, <1>2, AppendFacts
  <2>2. \A i \in 1 .. Len(h) : i \in 1 .. Len(h) + 1
    BY <1>1
  <2>3. \A i \in 1 .. Len(h) : pieces(Append(h, x))[i] = pieces(h)[i]
    BY <1>1, <2>2
  <2>4. pieces(Append(h, x))[Len(h) + 1] = p[x]
    BY <1>1
  <2>5. p[x] \in Seq(S)
    OBVIOUS
  <2>6. /\ pieces(Append(h, x)) \in [1 .. Len(pieces(h)) + 1 -> Seq(S)]
        /\ \A i \in 1 .. Len(pieces(h)) :
             pieces(Append(h, x))[i] = pieces(h)[i]
        /\ pieces(Append(h, x))[Len(pieces(h)) + 1] = p[x]
    <3>. HIDE DEF pieces
    <3>. QED BY <1>3, <2>1, <2>3, <2>4
  <2>. HIDE DEF pieces
  <2>. QED BY <1>3, <2>5, <2>6, IsAppend
<1>. HIDE DEF pieces
<1>5. FlattenSeq(pieces(Append(h, x))) = FlattenSeq(pieces(h)) \o p[x]
  BY <1>3, <1>4, FlattenAppend
<1>6. FlattenSeq(pieces(h)) \in Seq(S)
  BY <1>3, FlattenType
<1>. QED BY <1>5, <1>6 DEF pieces, Pieces

(* Keep of a longer history: the new item, if it is in the set, comes      *)
(* last.                                                                   *)
LEMMA KeepAppend ==
  ASSUME NEW S, NEW h \in Seq(S), NEW x \in S, NEW K
  PROVE  Keep(Append(h, x), K)
           = IF x \in K THEN Append(Keep(h, K), x) ELSE Keep(h, K)
<1>. DEFINE p == [y \in S |-> IF y \in K THEN <<y>> ELSE <<>>]
<1>1. p \in [S -> Seq(S)]
  OBVIOUS
<1>2. \A g \in Seq(S) : Keep(g, K) = Pieces(p, g)
  <2>1. SUFFICES ASSUME NEW g \in Seq(S)
                 PROVE  Keep(g, K) = Pieces(p, g)
    OBVIOUS
  <2>2. \A i \in DOMAIN g : g[i] \in S
    BY ElementOfSeq, LenProperties
  <2>3. [i \in DOMAIN g |-> p[g[i]]]
          = [i \in DOMAIN g |-> IF g[i] \in K THEN <<g[i]>> ELSE <<>>]
    BY <2>2
  <2>. QED BY <2>3 DEF Keep, Pieces
<1>3. Append(h, x) \in Seq(S)
  BY AppendFacts
<1>4. p[x] = IF x \in K THEN <<x>> ELSE <<>>
  OBVIOUS
<1>. HIDE DEF p
<1>5. Keep(h, K) \in Seq(S) /\ Keep(Append(h, x), K) = Keep(h, K) \o p[x]
  <2>1. /\ Pieces(p, h) \in Seq(S)
        /\ Pieces(p, Append(h, x)) = Pieces(p, h) \o p[x]
    BY <1>1, PiecesAppend
  <2>2. Keep(h, K) = Pieces(p, h)
    BY <1>2
  <2>3. Keep(Append(h, x), K) = Pieces(p, Append(h, x))
    BY <1>2, <1>3
  <2>. QED BY <2>1, <2>2, <2>3
<1>6. CASE x \in K
  BY <1>4, <1>5, <1>6, ConcatOne
<1>7. CASE x \notin K
  BY <1>4, <1>5, <1>7, ConcatEmptySeq
<1>. QED BY <1>6, <1>7

(* Keep returns items of the history and of the set, *)
LEMMA KeepType ==
  ASSUME NEW S, NEW h \in Seq(S), NEW K
  PROVE  Keep(h, K) \in Seq(S \intersect K)
<1>. DEFINE T == {g \in Seq(S) : Keep(g, K) \in Seq(S \intersect K)}
<1>1. <<>> \in T
  BY KeepEmpty, EmptySeq
<1>2. ASSUME NEW g \in Seq(S), NEW x \in S, g \in T
      PROVE  Append(g, x) \in T
  <2>1. Append(g, x) \in Seq(S)
    BY AppendProperties
  <2>2. CASE x \in K
    <3>1. Keep(Append(g, x), K) = Append(Keep(g, K), x)
      BY <2>2, KeepAppend
    <3>2. Append(Keep(g, K), x) \in Seq(S \intersect K)
      BY <1>2, <2>2, AppendProperties
    <3>. QED BY <2>1, <3>1, <3>2
  <2>3. CASE x \notin K
    BY <1>2, <2>1, <2>3, KeepAppend
  <2>. QED BY <2>2, <2>3
<1>3. Seq(S) \subseteq T
  <2>. HIDE DEF T
  <2>. QED BY <1>1, <1>2, AppendInduction
<1>. QED BY <1>3

(* so in particular items of the history, *)
LEMMA KeepTyped ==
  ASSUME NEW S, NEW h \in Seq(S), NEW K
  PROVE  Keep(h, K) \in Seq(S)
<1>1. Keep(h, K) \in Seq(S \intersect K)
  BY KeepType
<1>2. S \intersect K \subseteq S
  OBVIOUS
<1>. QED BY <1>1, <1>2, SeqMonotonic

(* and all of those. *)
LEMMA KeepRange ==
  ASSUME NEW S, NEW h \in Seq(S), NEW K
  PROVE  ToSet(Keep(h, K)) = ToSet(h) \intersect K
<1>. DEFINE T == {g \in Seq(S) : ToSet(Keep(g, K)) = ToSet(g) \intersect K}
<1>1. <<>> \in T
  BY KeepEmpty, EmptySeq, ToSetEmpty
<1>2. ASSUME NEW g \in Seq(S), NEW x \in S, g \in T
      PROVE  Append(g, x) \in T
  <2>1. Append(g, x) \in Seq(S) /\ Keep(g, K) \in Seq(S)
    BY AppendProperties, KeepTyped
  <2>2. ToSet(Append(g, x)) = ToSet(g) \union {x}
    BY ToSetAppend
  <2>3. ToSet(Append(Keep(g, K), x)) = ToSet(Keep(g, K)) \union {x}
    BY <2>1, ToSetAppend
  <2>4. ToSet(Keep(Append(g, x), K)) = ToSet(Append(g, x)) \intersect K
    <3>1. CASE x \in K
      <4>1. Keep(Append(g, x), K) = Append(Keep(g, K), x)
        BY <3>1, KeepAppend
      <4>2. ToSet(Keep(g, K)) = ToSet(g) \intersect K
        BY <1>2
      <4>. QED BY <2>2, <2>3, <3>1, <4>1, <4>2
    <3>2. CASE x \notin K
      BY <1>2, <2>2, <3>2, KeepAppend
    <3>. QED BY <3>1, <3>2
  <2>. QED BY <2>1, <2>4
<1>3. Seq(S) \subseteq T
  <2>. HIDE DEF T
  <2>. QED BY <1>1, <1>2, AppendInduction
<1>. QED BY <1>3

(* Two selections are the selection of what both select. *)
LEMMA KeepAgain ==
  ASSUME NEW S, NEW h \in Seq(S), NEW K, NEW L
  PROVE  Keep(Keep(h, K), L) = Keep(h, K \intersect L)
<1>. DEFINE T == {g \in Seq(S) : Keep(Keep(g, K), L)
                                   = Keep(g, K \intersect L)}
<1>1. <<>> \in T
  BY KeepEmpty, EmptySeq
<1>2. ASSUME NEW g \in Seq(S), NEW x \in S, g \in T
      PROVE  Append(g, x) \in T
  <2>1. Append(g, x) \in Seq(S) /\ Keep(g, K) \in Seq(S)
    BY AppendProperties, KeepTyped
  <2>2. CASE x \in K
    <3>0. Keep(Append(g, x), K) = Append(Keep(g, K), x)
      BY <2>2, KeepAppend
    <3>1. Keep(Keep(Append(g, x), K), L) = Keep(Append(Keep(g, K), x), L)
      BY <3>0
    <3>2. Keep(Append(Keep(g, K), x), L)
            = IF x \in L THEN Append(Keep(Keep(g, K), L), x)
                         ELSE Keep(Keep(g, K), L)
      BY <2>1, KeepAppend
    <3>3. Keep(Append(g, x), K \intersect L)
            = IF x \in L THEN Append(Keep(g, K \intersect L), x)
                         ELSE Keep(g, K \intersect L)
      BY <2>2, KeepAppend
    <3>4. Keep(Keep(g, K), L) = Keep(g, K \intersect L)
      BY <1>2
    <3>. QED BY <2>1, <3>1, <3>2, <3>3, <3>4
  <2>3. CASE x \notin K
    <3>1. Keep(Append(g, x), K) = Keep(g, K)
      BY <2>3, KeepAppend
    <3>2. Keep(Append(g, x), K \intersect L) = Keep(g, K \intersect L)
      BY <2>3, KeepAppend
    <3>. QED BY <1>2, <2>1, <3>1, <3>2
  <2>. QED BY <2>2, <2>3
<1>3. Seq(S) \subseteq T
  <2>. HIDE DEF T
  <2>. QED BY <1>1, <1>2, AppendInduction
<1>. QED BY <1>3

(* Sets that agree on the items of a history select the same. *)
LEMMA KeepSame ==
  ASSUME NEW S, NEW h \in Seq(S), NEW K, NEW L,
         \A x \in ToSet(h) : x \in K <=> x \in L
  PROVE  Keep(h, K) = Keep(h, L)
<1>1. \A i \in DOMAIN h : h[i] \in ToSet(h)
  BY DEF ToSet
<1>2. \A i \in DOMAIN h :
        (IF h[i] \in K THEN <<h[i]>> ELSE <<>>)
          = IF h[i] \in L THEN <<h[i]>> ELSE <<>>
  BY <1>1
<1>3. [i \in DOMAIN h |-> IF h[i] \in K THEN <<h[i]>> ELSE <<>>]
        = [i \in DOMAIN h |-> IF h[i] \in L THEN <<h[i]>> ELSE <<>>]
  BY <1>2
<1>. QED BY <1>3 DEF Keep

(* A set with all items of a history selects the history. *)
LEMMA KeepAll ==
  ASSUME NEW S, NEW h \in Seq(S), NEW K, ToSet(h) \subseteq K
  PROVE  Keep(h, K) = h
<1>. DEFINE T == {g \in Seq(S) : ToSet(g) \subseteq K => Keep(g, K) = g}
<1>1. <<>> \in T
  BY KeepEmpty, EmptySeq
<1>2. ASSUME NEW g \in Seq(S), NEW x \in S, g \in T
      PROVE  Append(g, x) \in T
  <2>1. Append(g, x) \in Seq(S) /\ ToSet(Append(g, x)) = ToSet(g) \union {x}
    BY AppendProperties, ToSetAppend
  <2>2. ASSUME ToSet(Append(g, x)) \subseteq K
        PROVE  Keep(Append(g, x), K) = Append(g, x)
    <3>1. x \in K /\ ToSet(g) \subseteq K
      BY <2>1, <2>2
    <3>2. Keep(Append(g, x), K) = Append(Keep(g, K), x)
      BY <3>1, KeepAppend
    <3>. QED BY <1>2, <3>1, <3>2
  <2>. QED BY <2>1, <2>2
<1>3. Seq(S) \subseteq T
  <2>. HIDE DEF T
  <2>. QED BY <1>1, <1>2, AppendInduction
<1>. QED BY <1>3

(* A set with none of its items selects nothing. *)
LEMMA KeepNone ==
  ASSUME NEW S, NEW h \in Seq(S), NEW K, ToSet(h) \intersect K = {}
  PROVE  Keep(h, K) = <<>>
<1>1. Keep(h, K) \in Seq(S) /\ ToSet(Keep(h, K)) = {}
  BY KeepTyped, KeepRange
<1>2. ASSUME Keep(h, K) # <<>> PROVE FALSE
  <2>1. 1 \in DOMAIN Keep(h, K)
    BY <1>1, <1>2, EmptySeq, LenProperties
  <2>. QED BY <1>1, <2>1 DEF ToSet
<1>. QED BY <1>2

-----------------------------------------------------------------------------
(* Prefixes, order, and what occurs once. *)

(* No item of K occurs twice in h. *)
Once(h, K) == \A i, j \in DOMAIN h : h[i] = h[j] /\ h[i] \in K => i = j

(* An x stands before a y in h. *)
Precedes(h, x, y) == \E i, j \in DOMAIN h : i < j /\ h[i] = x /\ h[j] = y

(* Nothing occurs twice in the empty history. *)
LEMMA OnceEmpty ==
  ASSUME NEW K
  PROVE  Once(<<>>, K)
  BY DEF Once

(* An appended item of K must be new. *)
LEMMA OnceAppend ==
  ASSUME NEW S, NEW h \in Seq(S), NEW x \in S, NEW K
  PROVE  Once(Append(h, x), K)
           <=> Once(h, K) /\ (x \in K => x \notin ToSet(h))
<1>1. /\ Len(h) \in Nat
      /\ DOMAIN h = 1 .. Len(h)
      /\ DOMAIN Append(h, x) = 1 .. Len(h) + 1
      /\ \A i \in 1 .. Len(h) : Append(h, x)[i] = h[i]
      /\ Append(h, x)[Len(h) + 1] = x
  BY AppendFacts
<1>2. \A i \in 1 .. Len(h) + 1 : i \in 1 .. Len(h) \/ i = Len(h) + 1
  BY <1>1
<1>3. \A i \in 1 .. Len(h) : i \in 1 .. Len(h) + 1 /\ i # Len(h) + 1
  BY <1>1
<1>4. ASSUME Once(Append(h, x), K) PROVE Once(h, K)
  BY <1>1, <1>3, <1>4 DEF Once
<1>5. ASSUME Once(Append(h, x), K), x \in K PROVE x \notin ToSet(h)
  <2>1. SUFFICES ASSUME NEW i \in 1 .. Len(h), h[i] = x PROVE FALSE
    BY <1>1 DEF ToSet
  <2>2. i \in DOMAIN Append(h, x) /\ Len(h) + 1 \in DOMAIN Append(h, x)
    BY <1>1, <1>3
  <2>. QED BY <1>1, <1>3, <1>5, <2>1, <2>2 DEF Once
<1>6. ASSUME Once(h, K), x \in K => x \notin ToSet(h)
      PROVE  Once(Append(h, x), K)
  <2>1. SUFFICES ASSUME NEW i \in 1 .. Len(h) + 1, NEW j \in 1 .. Len(h) + 1,
                        Append(h, x)[i] = Append(h, x)[j],
                        Append(h, x)[i] \in K
                 PROVE  i = j
    BY <1>1 DEF Once
  <2>2. \A k \in 1 .. Len(h) : h[k] \in ToSet(h)
    BY <1>1 DEF ToSet
  <2>3. CASE i \in 1 .. Len(h) /\ j \in 1 .. Len(h)
    BY <1>1, <1>6, <2>1, <2>3 DEF Once
  <2>4. CASE i = Len(h) + 1 /\ j \in 1 .. Len(h)
    BY <1>1, <1>6, <2>1, <2>2, <2>4
  <2>5. CASE i \in 1 .. Len(h) /\ j = Len(h) + 1
    BY <1>1, <1>6, <2>1, <2>2, <2>5
  <2>. QED BY <1>2, <2>3, <2>4, <2>5
<1>. QED BY <1>4, <1>5, <1>6

(* What a prefix of a sequence is, for the provers. *)
LEMMA PrefixFacts ==
  ASSUME NEW S, NEW h \in Seq(S), NEW k \in 0 .. Len(h)
  PROVE  /\ SubSeq(h, 1, k) \in Seq(S)
         /\ Len(SubSeq(h, 1, k)) = k
         /\ DOMAIN SubSeq(h, 1, k) = 1 .. k
         /\ 1 .. k \subseteq DOMAIN h
         /\ \A i \in 1 .. k : SubSeq(h, 1, k)[i] = h[i]
<1>1. Len(h) \in Nat /\ k \in Int /\ 1 \in Int /\ DOMAIN h = 1 .. Len(h)
  BY LenProperties
<1>2. \A i \in 1 .. k : i \in 1 .. Len(h)
  BY <1>1
<1>3. \A i \in 1 .. k : h[i] \in S
  BY <1>2, ElementOfSeq
<1>4. /\ SubSeq(h, 1, k) \in Seq(S)
      /\ Len(SubSeq(h, 1, k)) = IF 1 <= k THEN k - 1 + 1 ELSE 0
      /\ \A i \in 1 .. k - 1 + 1 : SubSeq(h, 1, k)[i] = h[1 + i - 1]
  BY <1>1, <1>3, SubSeqProperties
<1>5. Len(SubSeq(h, 1, k)) = k
  BY <1>1, <1>4
<1>6. \A i \in 1 .. k : SubSeq(h, 1, k)[i] = h[i]
  BY <1>1, <1>4
<1>. QED BY <1>1, <1>2, <1>4, <1>5, <1>6, LenProperties

(* A prefix does not see what is appended. *)
LEMMA PrefixAppend ==
  ASSUME NEW S, NEW h \in Seq(S), NEW x \in S, NEW k \in 0 .. Len(h)
  PROVE  SubSeq(Append(h, x), 1, k) = SubSeq(h, 1, k)
<1>1. k \in 0 .. Len(Append(h, x)) /\ Append(h, x) \in Seq(S)
  BY AppendFacts
<1>2. \A i \in 1 .. k : Append(h, x)[i] = h[i]
  BY AppendFacts
<1>3. \A i \in 1 .. k : SubSeq(Append(h, x), 1, k)[i] = SubSeq(h, 1, k)[i]
  BY <1>1, <1>2, PrefixFacts
<1>. QED BY <1>1, <1>3, PrefixFacts, SeqEqual

(* What occurs once occurs once in a prefix. *)
LEMMA PrefixOnce ==
  ASSUME NEW S, NEW h \in Seq(S), NEW k \in 0 .. Len(h), NEW K, Once(h, K)
  PROVE  Once(SubSeq(h, 1, k), K)
  BY PrefixFacts DEF Once

(* A prefix holds nothing of its own. *)
LEMMA PrefixRange ==
  ASSUME NEW S, NEW h \in Seq(S), NEW k \in 0 .. Len(h)
  PROVE  ToSet(SubSeq(h, 1, k)) \subseteq ToSet(h)
  BY PrefixFacts DEF ToSet

(* Leaving a tail without items of K leaves what Keep selects. *)
LEMMA KeepPrefix ==
  ASSUME NEW S, NEW h \in Seq(S), NEW K, NEW k \in 0 .. Len(h),
         \A i \in k + 1 .. Len(h) : h[i] \notin K
  PROVE  Keep(SubSeq(h, 1, k), K) = Keep(h, K)
<1>. DEFINE T == {g \in Seq(S) : \A m \in 0 .. Len(g) :
                    (\A i \in m + 1 .. Len(g) : g[i] \notin K)
                      => Keep(SubSeq(g, 1, m), K) = Keep(g, K)}
<1>1. <<>> \in T
  <2>1. SubSeq(<<>>, 1, 0) = <<>>
    BY SubSeqEmpty
  <2>2. Len(<<>>) = 0 /\ <<>> \in Seq(S)
    BY EmptySeq
  <2>3. \A m \in 0 .. Len(<<>>) : m = 0
    BY <2>2
  <2>. QED BY <2>1, <2>2, <2>3
<1>2. ASSUME NEW g \in Seq(S), NEW x \in S, g \in T
      PROVE  Append(g, x) \in T
  <2>1. SUFFICES ASSUME NEW m \in 0 .. Len(Append(g, x)),
                        \A i \in m + 1 .. Len(Append(g, x)) :
                          Append(g, x)[i] \notin K
                 PROVE  Keep(SubSeq(Append(g, x), 1, m), K)
                          = Keep(Append(g, x), K)
    BY AppendProperties
  <2>2. Len(g) \in Nat /\ Len(Append(g, x)) = Len(g) + 1
    BY AppendFacts
  <2>3. CASE m = Len(g) + 1
    <3>1. Append(g, x) \in Seq(S) /\ m = Len(Append(g, x))
      BY <2>2, <2>3, AppendFacts
    <3>2. SubSeq(Append(g, x), 1, m) = Append(g, x)
      BY <3>1, SubSeqFull
    <3>. QED BY <3>2
  <2>4. CASE m # Len(g) + 1
    <3>1. m \in 0 .. Len(g)
      BY <2>2, <2>4
    <3>2. Append(g, x)[Len(g) + 1] \notin K
      BY <2>1, <2>2, <3>1
    <3>3. x \notin K
      BY <3>2, AppendFacts
    <3>4. \A i \in m + 1 .. Len(g) :
            i \in m + 1 .. Len(g) + 1 /\ i \in 1 .. Len(g)
      BY <2>2, <3>1
    <3>5. \A i \in m + 1 .. Len(g) : g[i] \notin K
      BY <2>1, <2>2, <3>4, AppendFacts
    <3>6. Keep(SubSeq(g, 1, m), K) = Keep(g, K)
      BY <1>2, <3>1, <3>5
    <3>7. SubSeq(Append(g, x), 1, m) = SubSeq(g, 1, m)
      BY <3>1, PrefixAppend
    <3>8. Keep(Append(g, x), K) = Keep(g, K)
      BY <3>3, KeepAppend
    <3>. QED BY <3>6, <3>7, <3>8
  <2>. QED BY <2>3, <2>4
<1>3. Seq(S) \subseteq T
  <2>. HIDE DEF T
  <2>. QED BY <1>1, <1>2, AppendInduction
<1>. QED BY <1>3

(* Keep brings no item twice that was there once. *)
LEMMA KeepOnce ==
  ASSUME NEW S, NEW h \in Seq(S), NEW K, NEW L, Once(h, L)
  PROVE  Once(Keep(h, K), L)
<1>. DEFINE T == {g \in Seq(S) : Once(g, L) => Once(Keep(g, K), L)}
<1>1. <<>> \in T
  BY EmptySeq, KeepEmpty, OnceEmpty
<1>2. ASSUME NEW g \in Seq(S), NEW x \in S, g \in T
      PROVE  Append(g, x) \in T
  <2>1. SUFFICES ASSUME Once(Append(g, x), L)
                 PROVE  Once(Keep(Append(g, x), K), L)
    BY AppendProperties
  <2>2. Once(g, L) /\ (x \in L => x \notin ToSet(g))
    BY <2>1, OnceAppend
  <2>3. Once(Keep(g, K), L)
    BY <1>2, <2>2
  <2>4. Keep(g, K) \in Seq(S) /\ ToSet(Keep(g, K)) \subseteq ToSet(g)
    BY KeepTyped, KeepRange
  <2>5. Once(Append(Keep(g, K), x), L)
    BY <2>2, <2>3, <2>4, OnceAppend
  <2>. QED BY <2>3, <2>5, KeepAppend
<1>3. Seq(S) \subseteq T
  <2>. HIDE DEF T
  <2>. QED BY <1>1, <1>2, AppendInduction
<1>. QED BY <1>3

(* An appended item comes after every other. *)
LEMMA PrecedesAppend ==
  ASSUME NEW S, NEW h \in Seq(S), NEW z \in S, NEW x, NEW y
  PROVE  Precedes(Append(h, z), x, y)
           <=> Precedes(h, x, y) \/ (z = y /\ x \in ToSet(h))
<1>1. /\ Len(h) \in Nat
      /\ DOMAIN h = 1 .. Len(h)
      /\ DOMAIN Append(h, z) = 1 .. Len(h) + 1
      /\ \A i \in 1 .. Len(h) : Append(h, z)[i] = h[i]
      /\ Append(h, z)[Len(h) + 1] = z
  BY AppendFacts
<1>2. \A i \in 1 .. Len(h) + 1 : i \in 1 .. Len(h) \/ i = Len(h) + 1
  BY <1>1
<1>3. \A i \in 1 .. Len(h) : i \in 1 .. Len(h) + 1 /\ i < Len(h) + 1
  BY <1>1
<1>4. ASSUME Precedes(Append(h, z), x, y)
      PROVE  Precedes(h, x, y) \/ (z = y /\ x \in ToSet(h))
  <2>1. PICK i \in 1 .. Len(h) + 1, j \in 1 .. Len(h) + 1 :
          i < j /\ Append(h, z)[i] = x /\ Append(h, z)[j] = y
    BY <1>1, <1>4 DEF Precedes
  <2>2. i \in 1 .. Len(h)
    BY <1>1, <2>1
  <2>3. h[i] = x /\ x \in ToSet(h)
    BY <1>1, <2>1, <2>2 DEF ToSet
  <2>4. CASE j \in 1 .. Len(h)
    BY <1>1, <2>1, <2>2, <2>3, <2>4 DEF Precedes
  <2>5. CASE j = Len(h) + 1
    BY <1>1, <2>1, <2>3, <2>5
  <2>. QED BY <1>2, <2>4, <2>5
<1>5. ASSUME Precedes(h, x, y) PROVE Precedes(Append(h, z), x, y)
  BY <1>1, <1>3, <1>5 DEF Precedes
<1>6. ASSUME z = y, x \in ToSet(h) PROVE Precedes(Append(h, z), x, y)
  <2>1. PICK i \in 1 .. Len(h) : h[i] = x
    BY <1>1, <1>6 DEF ToSet
  <2>2. i < Len(h) + 1 /\ Len(h) + 1 \in 1 .. Len(h) + 1
    BY <1>1
  <2>. QED BY <1>1, <1>3, <1>6, <2>1, <2>2 DEF Precedes
<1>. QED BY <1>4, <1>5, <1>6

(* Keep keeps the order. *)
LEMMA KeepPrecedes ==
  ASSUME NEW S, NEW h \in Seq(S), NEW K, NEW x \in K, NEW y \in K,
         Precedes(h, x, y)
  PROVE  Precedes(Keep(h, K), x, y)
<1>. DEFINE T == {g \in Seq(S) :
                    Precedes(g, x, y) => Precedes(Keep(g, K), x, y)}
<1>1. <<>> \in T
  BY EmptySeq DEF Precedes
<1>2. ASSUME NEW g \in Seq(S), NEW z \in S, g \in T
      PROVE  Append(g, z) \in T
  <2>1. SUFFICES ASSUME Precedes(Append(g, z), x, y)
                 PROVE  Precedes(Keep(Append(g, z), K), x, y)
    BY AppendProperties
  <2>2. Keep(g, K) \in Seq(S) /\ ToSet(Keep(g, K)) = ToSet(g) \intersect K
    BY KeepTyped, KeepRange
  <2>3. Precedes(g, x, y) \/ (z = y /\ x \in ToSet(g))
    BY <2>1, PrecedesAppend
  <2>4. CASE Precedes(g, x, y)
    <3>1. Precedes(Keep(g, K), x, y)
      BY <1>2, <2>4
    <3>2. Precedes(Append(Keep(g, K), z), x, y)
      BY <2>2, <3>1, PrecedesAppend
    <3>. QED BY <3>1, <3>2, KeepAppend
  <2>5. CASE z = y /\ x \in ToSet(g)
    <3>1. x \in ToSet(Keep(g, K))
      BY <2>2, <2>5
    <3>2. Precedes(Append(Keep(g, K), z), x, y)
      BY <2>2, <2>5, <3>1, PrecedesAppend
    <3>. QED BY <2>5, <3>2, KeepAppend
  <2>. QED BY <2>3, <2>4, <2>5
<1>3. Seq(S) \subseteq T
  <2>. HIDE DEF T
  <2>. QED BY <1>1, <1>2, AppendInduction
<1>. QED BY <1>3

(* and brings no other. *)
LEMMA KeepPrecedesOnly ==
  ASSUME NEW S, NEW h \in Seq(S), NEW K, NEW x, NEW y,
         Precedes(Keep(h, K), x, y)
  PROVE  Precedes(h, x, y)
<1>. DEFINE T == {g \in Seq(S) :
                    Precedes(Keep(g, K), x, y) => Precedes(g, x, y)}
<1>1. <<>> \in T
  BY EmptySeq, KeepEmpty
<1>2. ASSUME NEW g \in Seq(S), NEW z \in S, g \in T
      PROVE  Append(g, z) \in T
  <2>1. SUFFICES ASSUME Precedes(Keep(Append(g, z), K), x, y)
                 PROVE  Precedes(Append(g, z), x, y)
    BY AppendProperties
  <2>2. Keep(g, K) \in Seq(S) /\ ToSet(Keep(g, K)) = ToSet(g) \intersect K
    BY KeepTyped, KeepRange
  <2>3. \/ Precedes(Keep(g, K), x, y)
        \/ Precedes(Append(Keep(g, K), z), x, y)
    BY <2>1, KeepAppend
  <2>4. Precedes(Keep(g, K), x, y) \/ (z = y /\ x \in ToSet(Keep(g, K)))
    BY <2>2, <2>3, PrecedesAppend
  <2>. QED BY <1>2, <2>2, <2>4, PrecedesAppend
<1>3. Seq(S) \subseteq T
  <2>. HIDE DEF T
  <2>. QED BY <1>1, <1>2, AppendInduction
<1>. QED BY <1>3

-----------------------------------------------------------------------------
(* CutIndex, and the histories a rollback leaves. *)

(* History h has a user turn to drop. *)
HasTurn(h) == \E i \in DOMAIN h : IsUserTurnBoundary(h[i])

(* Where the user turns of h begin, *)
TurnStarts(h) == {i \in DOMAIN h : IsUserTurnBoundary(h[i])}

(* those at or after i, *)
TurnsFrom(h, i) == {j \in TurnStarts(h) : j >= i}

(* and those of the last n turns. *)
LastTurns(h, n) == {i \in TurnStarts(h) : Cardinality(TurnsFrom(h, i)) <= n}

(* Where a cut may move back to: over contextual items, to the first turn. *)
Slide(h, cut) ==
  {k \in Min(TurnStarts(h)) .. cut :
     \A j \in k .. cut - 1 : IsContextual(h[j])}

(* What a rollback of n turns leaves of h (DropIs). *)
Rest(h, n) == IF HasTurn(h) THEN SubSeq(h, 1, CutIndex(h, n) - 1) ELSE h

(* The lengths of h without some of its contextual items at the end, *)
Tails(h) == {k \in 0 .. Len(h) : \A j \in k + 1 .. Len(h) : IsContextual(h[j])}

(* and h without all of them. *)
Trim(h) == SubSeq(h, 1, Min(Tails(h)))

(* No user message counts as contextual. *)
LEMMA BoundaryNotContextual ==
  ASSUME NEW x, IsUserTurnBoundary(x)
  PROVE  ~IsContextual(x)
  BY DEF IsUserTurnBoundary, IsContextual, States

(* The minimum of a set of naturals is its least element, *)
LEMMA MinFacts ==
  ASSUME NEW T, T \subseteq Nat, T # {}
  PROVE  Min(T) \in T /\ \A y \in T : Min(T) <= y
<1>1. \E x \in T : \A y \in T : x <= y
  BY Least
<1>. QED BY <1>1 DEF Min

(* and the least element is its minimum. *)
LEMMA MinIs ==
  ASSUME NEW T, T \subseteq Nat, NEW x \in T, \A y \in T : x <= y
  PROVE  Min(T) = x
<1>1. Min(T) \in T /\ \A y \in T : Min(T) <= y
  BY MinFacts
<1>2. Min(T) <= x /\ x <= Min(T) /\ x \in Nat /\ Min(T) \in Nat
  BY <1>1
<1>. QED BY <1>2

(* An appended user message begins a turn. *)
LEMMA TurnStartsAppend ==
  ASSUME NEW S, NEW h \in Seq(S), NEW x \in S
  PROVE  TurnStarts(Append(h, x))
           = IF IsUserTurnBoundary(x) THEN TurnStarts(h) \union {Len(h) + 1}
                                      ELSE TurnStarts(h)
<1>1. /\ Len(h) \in Nat
      /\ DOMAIN h = 1 .. Len(h)
      /\ DOMAIN Append(h, x) = 1 .. Len(h) + 1
      /\ \A i \in 1 .. Len(h) : Append(h, x)[i] = h[i]
      /\ Append(h, x)[Len(h) + 1] = x
  BY AppendFacts
<1>2. \A i \in 1 .. Len(h) + 1 : i \in 1 .. Len(h) \/ i = Len(h) + 1
  BY <1>1
<1>3. \A i \in 1 .. Len(h) : i \in 1 .. Len(h) + 1
  BY <1>1
<1>4. Len(h) + 1 \in 1 .. Len(h) + 1
  BY <1>1
<1>. QED BY <1>1, <1>2, <1>3, <1>4 DEF TurnStarts

(* The turns of a history are finitely many of its positions. *)
LEMMA TurnStartsFinite ==
  ASSUME NEW S, NEW h \in Seq(S)
  PROVE  /\ TurnStarts(h) \subseteq 1 .. Len(h)
         /\ TurnStarts(h) \subseteq Nat
         /\ IsFiniteSet(TurnStarts(h))
         /\ \A i : IsFiniteSet(TurnsFrom(h, i))
<1>1. Len(h) \in Nat /\ DOMAIN h = 1 .. Len(h)
  BY LenProperties
<1>2. TurnStarts(h) \subseteq 1 .. Len(h) /\ TurnStarts(h) \subseteq Nat
  BY <1>1 DEF TurnStarts
<1>3. IsFiniteSet(1 .. Len(h))
  BY <1>1, FS_Interval
<1>4. IsFiniteSet(TurnStarts(h))
  BY <1>2, <1>3, FS_Subset
<1>5. \A i : TurnsFrom(h, i) \in SUBSET TurnStarts(h)
  BY DEF TurnsFrom
<1>6. \A i : IsFiniteSet(TurnsFrom(h, i))
  BY <1>4, <1>5, FS_Subset
<1>. QED BY <1>2, <1>4, <1>6

(* A longer history has a turn if the shorter one or the new item does. *)
LEMMA HasTurnAppend ==
  ASSUME NEW S, NEW h \in Seq(S), NEW x \in S
  PROVE  HasTurn(Append(h, x)) <=> HasTurn(h) \/ IsUserTurnBoundary(x)
<1>1. \A g : HasTurn(g) <=> TurnStarts(g) # {}
  BY DEF HasTurn, TurnStarts
<1>. QED BY <1>1, TurnStartsAppend

(* There are last n turns if there is a turn. *)
LEMMA LastTurnsNonEmpty ==
  ASSUME NEW S, NEW h \in Seq(S), HasTurn(h), NEW n \in Nat \ {0}
  PROVE  LastTurns(h, n) # {}
<1>1. TurnStarts(h) \subseteq 1 .. Len(h) /\ TurnStarts(h) # {}
      /\ Len(h) \in Nat
  BY TurnStartsFinite, LenProperties DEF HasTurn, TurnStarts
<1>. DEFINE U == {m \in Nat : \A i \in TurnStarts(h) : i <= m}
<1>2. Len(h) \in U
  BY <1>1
<1>3. PICK m \in U : \A k \in U : m <= k
  <2>1. U \subseteq Nat /\ U # {}
    BY <1>2
  <2>. HIDE DEF U
  <2>. QED BY <2>1, Least
<1>4. m \in TurnStarts(h)
  <2>1. SUFFICES ASSUME m \notin TurnStarts(h) PROVE FALSE
    OBVIOUS
  <2>2. \A i \in TurnStarts(h) : i \in Nat /\ i >= 1 /\ i <= m /\ i # m
    BY <1>1, <2>1
  <2>3. m \in Nat /\ m >= 1
    BY <1>1, <2>2
  <2>4. m - 1 \in U
    BY <2>2, <2>3
  <2>. QED BY <1>3, <2>3, <2>4
<1>5. TurnsFrom(h, m) = {m}
  BY <1>1, <1>3, <1>4 DEF TurnsFrom
<1>6. Cardinality(TurnsFrom(h, m)) = 1
  BY <1>5, FS_Singleton
<1>. QED BY <1>4, <1>6 DEF LastTurns

(* The cut falls between the first turn and the n-th from the end. *)
LEMMA CutFacts ==
  ASSUME NEW S, NEW h \in Seq(S), HasTurn(h), NEW n \in Nat \ {0}
  PROVE  /\ CutIndex(h, n) = Min(Slide(h, Min(LastTurns(h, n))))
         /\ Min(TurnStarts(h)) \in TurnStarts(h)
         /\ Min(LastTurns(h, n)) \in TurnStarts(h)
         /\ Min(LastTurns(h, n)) \in Slide(h, Min(LastTurns(h, n)))
         /\ CutIndex(h, n) \in 1 .. Len(h)
<1>1. CutIndex(h, n) = Min(Slide(h, Min(LastTurns(h, n))))
  BY DEF CutIndex, Slide, LastTurns, TurnsFrom, TurnStarts
<1>2. /\ TurnStarts(h) \subseteq 1 .. Len(h)
      /\ TurnStarts(h) \subseteq Nat
      /\ TurnStarts(h) # {}
      /\ Len(h) \in Nat
  BY TurnStartsFinite, LenProperties DEF HasTurn, TurnStarts
<1>3. Min(TurnStarts(h)) \in TurnStarts(h)
      /\ \A i \in TurnStarts(h) : Min(TurnStarts(h)) <= i
  BY <1>2, MinFacts
<1>4. LastTurns(h, n) # {} /\ LastTurns(h, n) \subseteq TurnStarts(h)
  BY LastTurnsNonEmpty DEF LastTurns
<1>5. Min(LastTurns(h, n)) \in LastTurns(h, n)
  BY <1>2, <1>4, MinFacts
<1>6. Min(LastTurns(h, n)) \in TurnStarts(h)
  BY <1>4, <1>5
<1>. DEFINE cut == Min(LastTurns(h, n))
            first == Min(TurnStarts(h))
<1>7. first \in 1 .. Len(h) /\ cut \in 1 .. Len(h) /\ first <= cut
  BY <1>2, <1>3, <1>6
<1>8. cut \in Slide(h, cut)
  <2>. HIDE DEF cut
  <2>1. cut \in Min(TurnStarts(h)) .. cut
    BY <1>7
  <2>2. cut .. cut - 1 = {}
    BY <1>7
  <2>. QED BY <2>1, <2>2 DEF Slide
<1>9. Slide(h, cut) \subseteq Nat /\ Slide(h, cut) \subseteq 1 .. Len(h)
  <2>. HIDE DEF cut
  <2>. QED BY <1>7, <1>2 DEF Slide
<1>10. Min(Slide(h, cut)) \in Slide(h, cut)
  <2>. HIDE DEF cut
  <2>. QED BY <1>8, <1>9, MinFacts
<1>. QED BY <1>1, <1>3, <1>6, <1>8, <1>9, <1>10
-----------------------------------------------------------------------------

(* Trim cuts within the history. *)
LEMMA TailsFacts ==
  ASSUME NEW S, NEW h \in Seq(S)
  PROVE  /\ Min(Tails(h)) \in 0 .. Len(h)
         /\ Min(Tails(h)) \in Tails(h)
         /\ Tails(h) \subseteq Nat
         /\ \A k \in Tails(h) : Min(Tails(h)) <= k
<1>1. Len(h) \in Nat
  BY LenProperties
<1>2. Len(h) \in Tails(h)
  BY <1>1 DEF Tails
<1>3. Tails(h) \subseteq Nat /\ Tails(h) \subseteq 0 .. Len(h)
  BY <1>1 DEF Tails
<1>. QED BY <1>2, <1>3, MinFacts

(* Trim of a history is a history. *)
LEMMA TrimPrefix ==
  ASSUME NEW S, NEW h \in Seq(S)
  PROVE  Trim(h) \in Seq(S)
  BY TailsFacts, PrefixFacts DEF Trim

(* There is nothing to trim in the empty history. *)
LEMMA TrimEmpty == Trim(<<>>) = <<>>
<1>1. <<>> \in Seq(Nat) /\ Len(<<>>) = 0
  BY EmptySeq
<1>2. Min(Tails(<<>>)) = 0
  <2>1. Min(Tails(<<>>)) \in 0 .. Len(<<>>)
    BY <1>1, TailsFacts
  <2>. QED BY <1>1, <2>1
<1>3. SubSeq(<<>>, 1, 0) = <<>>
  BY SubSeqEmpty
<1>. QED BY <1>2, <1>3 DEF Trim

(* Trim of a longer history: only a contextual item goes. *)
LEMMA TrimAppend ==
  ASSUME NEW S, NEW h \in Seq(S), NEW x \in S
  PROVE  Trim(Append(h, x)) = IF IsContextual(x) THEN Trim(h) ELSE Append(h, x)
<1>1. /\ Append(h, x) \in Seq(S)
      /\ Len(h) \in Nat
      /\ Len(Append(h, x)) = Len(h) + 1
      /\ \A i \in 1 .. Len(h) : Append(h, x)[i] = h[i]
      /\ Append(h, x)[Len(h) + 1] = x
  BY AppendFacts
<1>2. CASE IsContextual(x)
  <2>1. ASSUME NEW k \in 0 .. Len(h)
        PROVE  k \in Tails(Append(h, x)) <=> k \in Tails(h)
    <3>1. k \in 0 .. Len(h) + 1
      BY <1>1
    <3>2. \A j \in k + 1 .. Len(h) + 1 :
            j = Len(h) + 1 \/ (j \in k + 1 .. Len(h) /\ j \in 1 .. Len(h))
      BY <1>1
    <3>3. \A j \in k + 1 .. Len(h) :
            j \in k + 1 .. Len(h) + 1 /\ j \in 1 .. Len(h)
      BY <1>1
    <3>. QED BY <1>1, <1>2, <3>1, <3>2, <3>3 DEF Tails
  <2>2. Min(Tails(h)) \in Tails(Append(h, x))
    BY <2>1, TailsFacts
  <2>3. \A k \in Tails(Append(h, x)) : Min(Tails(h)) <= k
    <3>1. SUFFICES ASSUME NEW k \in Tails(Append(h, x))
                   PROVE  Min(Tails(h)) <= k
      OBVIOUS
    <3>2. k \in 0 .. Len(h) + 1
      BY <1>1 DEF Tails
    <3>3. CASE k = Len(h) + 1
      BY <1>1, <3>3, TailsFacts
    <3>4. CASE k \in 0 .. Len(h)
      BY <2>1, <3>4, TailsFacts
    <3>. QED BY <1>1, <3>2, <3>3, <3>4
  <2>4. Min(Tails(Append(h, x))) = Min(Tails(h))
    <3>1. Tails(Append(h, x)) \subseteq Nat
      BY <1>1, TailsFacts
    <3>. QED BY <2>2, <2>3, <3>1, MinIs
  <2>5. SubSeq(Append(h, x), 1, Min(Tails(h))) = SubSeq(h, 1, Min(Tails(h)))
    BY TailsFacts, PrefixAppend
  <2>. QED BY <1>2, <2>4, <2>5 DEF Trim
<1>3. CASE ~IsContextual(x)
  <2>1. \A k \in Tails(Append(h, x)) : k = Len(h) + 1
    <3>1. SUFFICES ASSUME NEW k \in 0 .. Len(h),
                          \A j \in k + 1 .. Len(h) + 1 :
                            IsContextual(Append(h, x)[j])
                   PROVE  FALSE
      BY <1>1 DEF Tails
    <3>2. Len(h) + 1 \in k + 1 .. Len(h) + 1
      BY <1>1
    <3>. QED BY <1>1, <1>3, <3>1, <3>2
  <2>2. Min(Tails(Append(h, x))) = Len(h) + 1
    BY <1>1, <2>1, TailsFacts
  <2>. QED BY <1>1, <1>3, <2>2, SubSeqFull DEF Trim
<1>. QED BY <1>2, <1>3

-----------------------------------------------------------------------------
(* Rollback of a history that grew by one item. *)

(* The cut of a longer history is where it was if it starts from the same  *)
(* turn.                                                                   *)
LEMMA CutOlderTurn ==
  ASSUME NEW S, NEW h \in Seq(S), NEW x \in S, HasTurn(h),
         NEW n \in Nat \ {0}, NEW m \in Nat \ {0},
         Min(TurnStarts(Append(h, x))) = Min(TurnStarts(h)),
         Min(LastTurns(Append(h, x), m)) = Min(LastTurns(h, n))
  PROVE  CutIndex(Append(h, x), m) = CutIndex(h, n)
<1>. DEFINE cut == Min(LastTurns(h, n))
<1>1. Len(h) \in Nat /\ \A i \in 1 .. Len(h) : Append(h, x)[i] = h[i]
  BY AppendFacts
<1>2. /\ Min(TurnStarts(h)) \in 1 .. Len(h)
      /\ cut \in 1 .. Len(h)
      /\ CutIndex(h, n) = Min(Slide(h, cut))
  BY CutFacts, TurnStartsFinite
<1>3. CutIndex(Append(h, x), m) = Min(Slide(Append(h, x), cut))
  <2>1. HasTurn(Append(h, x)) /\ Append(h, x) \in Seq(S)
    BY HasTurnAppend, AppendFacts
  <2>. QED BY <2>1, CutFacts
<1>4. Slide(Append(h, x), cut) = Slide(h, cut)
  <2>. HIDE DEF cut
  <2>1. \A k \in Min(TurnStarts(h)) .. cut : \A j \in k .. cut - 1 :
          j \in 1 .. Len(h)
    BY <1>1, <1>2
  <2>. QED BY <1>1, <2>1 DEF Slide
<1>. QED BY <1>2, <1>3, <1>4

(* An item that begins no turn is dropped with the newest turn. *)
LEMMA RestNoBoundary ==
  ASSUME NEW S, NEW h \in Seq(S), NEW x \in S, NEW n \in Nat \ {0},
         HasTurn(h), ~IsUserTurnBoundary(x)
  PROVE  Rest(Append(h, x), n) = Rest(h, n)
<1>1. TurnStarts(Append(h, x)) = TurnStarts(h)
  BY TurnStartsAppend
<1>2. LastTurns(Append(h, x), n) = LastTurns(h, n)
  BY <1>1 DEF LastTurns, TurnsFrom
<1>3. CutIndex(Append(h, x), n) = CutIndex(h, n)
  BY <1>1, <1>2, CutOlderTurn
<1>4. CutIndex(h, n) - 1 \in 0 .. Len(h)
  BY CutFacts, LenProperties
<1>5. HasTurn(Append(h, x))
  BY HasTurnAppend
<1>. QED BY <1>3, <1>4, <1>5, PrefixAppend DEF Rest

(* The first turn is first whatever is appended. *)
LEMMA FirstTurnStays ==
  ASSUME NEW S, NEW h \in Seq(S), NEW x \in S, HasTurn(h)
  PROVE  Min(TurnStarts(Append(h, x))) = Min(TurnStarts(h))
<1>1. /\ TurnStarts(h) \subseteq 1 .. Len(h)
      /\ TurnStarts(h) \subseteq Nat
      /\ Len(h) \in Nat
      /\ TurnStarts(h) # {}
  BY TurnStartsFinite, LenProperties DEF HasTurn, TurnStarts
<1>2. Min(TurnStarts(h)) \in TurnStarts(h)
      /\ \A i \in TurnStarts(h) : Min(TurnStarts(h)) <= i
  BY <1>1, MinFacts
<1>3. Min(TurnStarts(h)) <= Len(h) + 1
  BY <1>1, <1>2
<1>4. /\ TurnStarts(Append(h, x)) \subseteq Nat
      /\ Min(TurnStarts(h)) \in TurnStarts(Append(h, x))
      /\ \A i \in TurnStarts(Append(h, x)) : Min(TurnStarts(h)) <= i
  BY <1>1, <1>2, <1>3, TurnStartsAppend
<1>. QED BY <1>4, MinIs

(* A new turn is one of the last n, with the n - 1 before it. *)
LEMMA LastTurnsAppend ==
  ASSUME NEW S, NEW h \in Seq(S), NEW x \in S, NEW n \in Nat \ {0},
         IsUserTurnBoundary(x)
  PROVE  LastTurns(Append(h, x), n) = LastTurns(h, n - 1) \union {Len(h) + 1}
<1>. DEFINE new == Len(h) + 1
<1>1. TurnStarts(Append(h, x)) = TurnStarts(h) \union {new}
  BY TurnStartsAppend
<1>2. Len(h) \in Nat /\ TurnStarts(h) \subseteq 1 .. Len(h)
  BY LenProperties, TurnStartsFinite
<1>3. new \notin TurnStarts(h) /\ \A i \in TurnStarts(h) : ~(i >= new)
  BY <1>2
<1>4. TurnsFrom(Append(h, x), new) = {new}
  BY <1>1, <1>2, <1>3 DEF TurnsFrom
<1>5. Cardinality(TurnsFrom(Append(h, x), new)) = 1
  BY <1>4, FS_Singleton
<1>6. ASSUME NEW i \in TurnStarts(h)
      PROVE  i \in LastTurns(Append(h, x), n) <=> i \in LastTurns(h, n - 1)
  <2>1. TurnsFrom(Append(h, x), i) = TurnsFrom(h, i) \union {new}
    BY <1>1, <1>2 DEF TurnsFrom
  <2>2. new \notin TurnsFrom(h, i) /\ IsFiniteSet(TurnsFrom(h, i))
    BY <1>3, TurnStartsFinite DEF TurnsFrom
  <2>3. Cardinality(TurnsFrom(Append(h, x), i))
          = Cardinality(TurnsFrom(h, i)) + 1
    BY <2>1, <2>2, FS_AddElement
  <2>4. Cardinality(TurnsFrom(h, i)) \in Nat
    BY <2>2, FS_CardinalityType
  <2>. QED BY <1>1, <2>3, <2>4 DEF LastTurns
<1>7. new \in LastTurns(Append(h, x), n)
  BY <1>1, <1>5 DEF LastTurns
<1>8. LastTurns(h, n - 1) \subseteq TurnStarts(h)
  BY DEF LastTurns
<1>9. LastTurns(Append(h, x), n) \subseteq TurnStarts(h) \union {new}
  BY <1>1 DEF LastTurns
<1>. QED BY <1>6, <1>7, <1>8, <1>9

(* Dropping n > 1 turns drops the new turn and n - 1 more. *)
LEMMA RestOlderTurn ==
  ASSUME NEW S, NEW h \in Seq(S), NEW x \in S, NEW n \in Nat \ {0, 1},
         HasTurn(h), IsUserTurnBoundary(x)
  PROVE  Rest(Append(h, x), n) = Rest(h, n - 1)
<1>1. n - 1 \in Nat \ {0} /\ n \in Nat \ {0}
  OBVIOUS
<1>2. LastTurns(Append(h, x), n) = LastTurns(h, n - 1) \union {Len(h) + 1}
  BY <1>1, LastTurnsAppend
<1>3. /\ LastTurns(h, n - 1) # {}
      /\ LastTurns(h, n - 1) \subseteq 1 .. Len(h)
      /\ LastTurns(h, n - 1) \subseteq Nat
      /\ Len(h) \in Nat
  BY <1>1, LastTurnsNonEmpty, TurnStartsFinite, LenProperties DEF LastTurns
<1>4. Min(LastTurns(h, n - 1)) \in LastTurns(h, n - 1)
      /\ \A i \in LastTurns(h, n - 1) : Min(LastTurns(h, n - 1)) <= i
  BY <1>3, MinFacts
<1>5. Min(LastTurns(h, n - 1)) <= Len(h) + 1
  BY <1>3, <1>4
<1>6. Min(LastTurns(Append(h, x), n)) = Min(LastTurns(h, n - 1))
  <2>1. /\ LastTurns(Append(h, x), n) \subseteq Nat
        /\ Min(LastTurns(h, n - 1)) \in LastTurns(Append(h, x), n)
        /\ \A i \in LastTurns(Append(h, x), n) :
             Min(LastTurns(h, n - 1)) <= i
    BY <1>2, <1>3, <1>4, <1>5
  <2>. QED BY <2>1, MinIs
<1>7. CutIndex(Append(h, x), n) = CutIndex(h, n - 1)
  BY <1>1, <1>6, FirstTurnStays, CutOlderTurn
<1>8. CutIndex(h, n - 1) - 1 \in 0 .. Len(h)
  BY <1>1, <1>3, CutFacts
<1>9. HasTurn(Append(h, x))
  BY HasTurnAppend
<1>. QED BY <1>7, <1>8, <1>9, PrefixAppend DEF Rest

(* Dropping one turn drops the new one, and the contextual items before    *)
(* it.                                                                     *)
LEMMA RestNewestTurn ==
  ASSUME NEW S, NEW h \in Seq(S), NEW x \in S, HasTurn(h),
         IsUserTurnBoundary(x)
  PROVE  Rest(Append(h, x), 1) = Trim(h)
<1>. DEFINE new == Len(h) + 1
            first == Min(TurnStarts(h))
            t == Min(Tails(h))
<1>1. /\ Len(h) \in Nat
      /\ DOMAIN h = 1 .. Len(h)
      /\ Append(h, x) \in Seq(S)
      /\ \A i \in 1 .. Len(h) : Append(h, x)[i] = h[i]
  BY AppendFacts
<1>2. LastTurns(Append(h, x), 1) = {new}
  <2>1. LastTurns(h, 1 - 1) = {}
    <3>1. SUFFICES ASSUME NEW i \in TurnStarts(h),
                          Cardinality(TurnsFrom(h, i)) <= 0
                   PROVE  FALSE
      BY DEF LastTurns
    <3>2. IsFiniteSet(TurnsFrom(h, i)) /\ i \in Nat
      BY TurnStartsFinite
    <3>3. i \in TurnsFrom(h, i)
      BY <3>2 DEF TurnsFrom
    <3>4. Cardinality(TurnsFrom(h, i)) \in Nat
      BY <3>2, FS_CardinalityType
    <3>5. Cardinality(TurnsFrom(h, i)) = 0
      BY <3>1, <3>4
    <3>. QED BY <3>2, <3>3, <3>5, FS_EmptySet
  <2>. QED BY <2>1, LastTurnsAppend
<1>3. Min(LastTurns(Append(h, x), 1)) = new
  <2>1. LastTurns(Append(h, x), 1) \subseteq Nat
    BY <1>1, <1>2
  <2>. QED BY <1>1, <1>2, <2>1, MinIs
<1>4. HasTurn(Append(h, x))
  BY HasTurnAppend
<1>5. CutIndex(Append(h, x), 1) = Min(Slide(Append(h, x), new))
  <2>1. 1 \in Nat \ {0}
    OBVIOUS
  <2>2. CutIndex(Append(h, x), 1)
          = Min(Slide(Append(h, x), Min(LastTurns(Append(h, x), 1))))
    BY <1>1, <1>4, <2>1, CutFacts
  <2>. QED BY <1>3, <2>2
<1>6. first \in 1 .. Len(h) /\ IsUserTurnBoundary(h[first])
  <2>1. 1 \in Nat \ {0}
    OBVIOUS
  <2>2. first \in TurnStarts(h)
    BY <2>1, CutFacts
  <2>. QED BY <2>2, TurnStartsFinite DEF TurnStarts
<1>7. Slide(Append(h, x), new)
        = {k \in first .. new : \A j \in k .. Len(h) : IsContextual(h[j])}
  <2>1. Min(TurnStarts(Append(h, x))) = first
    BY FirstTurnStays
  <2>2. new - 1 = Len(h)
    BY <1>1
  <2>. HIDE DEF first, new
  <2>3. \A k \in first .. new : \A j \in k .. Len(h) : j \in 1 .. Len(h)
    BY <1>1, <1>6
  <2>. QED BY <1>1, <2>1, <2>2, <2>3 DEF Slide
<1>8. t \in 0 .. Len(h) /\ t \in Tails(h) /\ \A k \in Tails(h) : t <= k
  BY TailsFacts
<1>9. first <= t
  <2>1. SUFFICES ASSUME first > t PROVE FALSE
    BY <1>6, <1>8
  <2>2. first \in t + 1 .. Len(h)
    BY <1>6, <1>8, <2>1
  <2>3. IsContextual(h[first])
    BY <1>8, <2>2 DEF Tails
  <2>. QED BY <1>6, <2>3, BoundaryNotContextual
<1>10. t + 1 \in Slide(Append(h, x), new)
  <2>1. t + 1 \in first .. new
    BY <1>1, <1>6, <1>8, <1>9
  <2>2. \A j \in t + 1 .. Len(h) : IsContextual(h[j])
    BY <1>8 DEF Tails
  <2>. QED BY <1>7, <2>1, <2>2
<1>11. ASSUME NEW k \in Slide(Append(h, x), new) PROVE t + 1 <= k
  <2>1. k \in first .. new /\ \A j \in k .. Len(h) : IsContextual(h[j])
    BY <1>7
  <2>2. k - 1 \in 0 .. Len(h) /\ (k - 1) + 1 = k
    BY <1>1, <1>6, <2>1
  <2>3. k - 1 \in Tails(h)
    BY <2>1, <2>2 DEF Tails
  <2>4. t <= k - 1
    BY <1>8, <2>3
  <2>. QED BY <1>8, <2>2, <2>4
<1>12. Slide(Append(h, x), new) \subseteq Nat
  BY <1>1, <1>6, <1>7
<1>13. CutIndex(Append(h, x), 1) = t + 1
  <2>. HIDE DEF t, new, first
  <2>. QED BY <1>5, <1>10, <1>11, <1>12, MinIs
<1>14. CutIndex(Append(h, x), 1) - 1 = t
  BY <1>8, <1>13
<1>15. SubSeq(Append(h, x), 1, t) = SubSeq(h, 1, t)
  BY <1>8, PrefixAppend
<1>. QED BY <1>4, <1>14, <1>15 DEF Rest, Trim

(* Dropping turns drops the only turn, and nothing before it. *)
LEMMA RestFirstTurn ==
  ASSUME NEW S, NEW h \in Seq(S), NEW x \in S, NEW n \in Nat \ {0},
         ~HasTurn(h), IsUserTurnBoundary(x)
  PROVE  Rest(Append(h, x), n) = h
<1>1. Len(h) \in Nat /\ Append(h, x) \in Seq(S)
  BY AppendFacts
<1>2. TurnStarts(Append(h, x)) = {Len(h) + 1}
  BY TurnStartsAppend DEF HasTurn, TurnStarts
<1>3. HasTurn(Append(h, x))
  BY HasTurnAppend
<1>4. /\ CutIndex(Append(h, x), n)
           = Min(Slide(Append(h, x), Min(LastTurns(Append(h, x), n))))
      /\ Min(TurnStarts(Append(h, x))) = Len(h) + 1
      /\ Min(LastTurns(Append(h, x), n)) = Len(h) + 1
      /\ Len(h) + 1 \in Slide(Append(h, x), Len(h) + 1)
  BY <1>1, <1>2, <1>3, CutFacts
<1>5. Slide(Append(h, x), Len(h) + 1) \subseteq {Len(h) + 1}
  BY <1>1, <1>4 DEF Slide
<1>6. Min(Slide(Append(h, x), Len(h) + 1)) = Len(h) + 1
  <2>1. Slide(Append(h, x), Len(h) + 1) \subseteq Nat
        /\ Slide(Append(h, x), Len(h) + 1) # {}
    BY <1>1, <1>4, <1>5
  <2>2. Min(Slide(Append(h, x), Len(h) + 1))
          \in Slide(Append(h, x), Len(h) + 1)
    BY <2>1, MinFacts
  <2>. QED BY <1>5, <2>2
<1>7. CutIndex(Append(h, x), n) - 1 = Len(h)
  BY <1>1, <1>4, <1>6
<1>8. Len(h) \in 0 .. Len(h)
  BY <1>1
<1>9. SubSeq(Append(h, x), 1, Len(h)) = h
  BY <1>8, PrefixAppend, SubSeqFull
<1>. QED BY <1>3, <1>7, <1>9 DEF Rest
-----------------------------------------------------------------------------

(* A rollback leaves a prefix, and drops the rest. *)
LEMMA RestIsPrefix ==
  ASSUME NEW S, NEW h \in Seq(S), NEW n \in Nat \ {0}
  PROVE  \E k \in 0 .. Len(h) :
           /\ Rest(h, n) = SubSeq(h, 1, k)
           /\ ToSet(Dropped(h, n)) = {h[i] : i \in k + 1 .. Len(h)}
<1>1. Len(h) \in Nat
  BY LenProperties
<1>2. CASE ~HasTurn(h)
  <2>1. Len(h) \in 0 .. Len(h) /\ Rest(h, n) = SubSeq(h, 1, Len(h))
    BY <1>1, <1>2, SubSeqFull DEF Rest
  <2>2. ToSet(Dropped(h, n)) = {}
    BY <1>2, ToSetEmpty DEF Dropped, HasTurn
  <2>3. {h[i] : i \in Len(h) + 1 .. Len(h)} = {}
    BY <1>1
  <2>. QED BY <2>1, <2>2, <2>3
<1>3. CASE HasTurn(h)
  <2>. DEFINE c == CutIndex(h, n)
              d == SubSeq(h, c, Len(h))
  <2>1. c \in 1 .. Len(h)
    BY <1>3, CutFacts
  <2>2. c - 1 \in 0 .. Len(h) /\ (c - 1) + 1 = c
    <3>. HIDE DEF c
    <3>. QED BY <1>1, <2>1
  <2>3. Rest(h, n) = SubSeq(h, 1, c - 1) /\ Dropped(h, n) = d
    BY <1>3 DEF Rest, Dropped, HasTurn
  <2>4. /\ d \in Seq(S)
        /\ Len(d) = Len(h) - c + 1
        /\ \A i \in 1 .. Len(h) - c + 1 : d[i] = h[c + i - 1]
    <3>. HIDE DEF c
    <3>1. \A i \in c .. Len(h) : i \in 1 .. Len(h)
      BY <1>1, <2>1
    <3>2. \A i \in c .. Len(h) : h[i] \in S
      BY <3>1, ElementOfSeq
    <3>3. c \in Int /\ Len(h) \in Int /\ c <= Len(h)
      BY <1>1, <2>1
    <3>. QED BY <3>2, <3>3, SubSeqProperties
  <2>5. DOMAIN d = 1 .. Len(h) - c + 1
    BY <2>4, LenProperties
  <2>6. ToSet(d) = {h[i] : i \in c .. Len(h)}
    <3>. HIDE DEF c, d
    <3>1. \A i \in 1 .. Len(h) - c + 1 : c + i - 1 \in c .. Len(h)
      BY <1>1, <2>1
    <3>2. \A j \in c .. Len(h) : /\ j - c + 1 \in 1 .. Len(h) - c + 1
                                 /\ c + (j - c + 1) - 1 = j
      BY <1>1, <2>1
    <3>3. ToSet(d) \subseteq {h[i] : i \in c .. Len(h)}
      BY <2>4, <2>5, <3>1 DEF ToSet
    <3>4. ASSUME NEW j \in c .. Len(h) PROVE h[j] \in ToSet(d)
      <4>1. j - c + 1 \in DOMAIN d /\ d[j - c + 1] = h[c + (j - c + 1) - 1]
        BY <2>4, <2>5, <3>2
      <4>2. d[j - c + 1] = h[j]
        BY <3>2, <4>1
      <4>. QED BY <4>1, <4>2 DEF ToSet
    <3>. QED BY <3>3, <3>4
  <2>. HIDE DEF c, d
  <2>. QED BY <2>2, <2>3, <2>6
<1>. QED BY <1>2, <1>3

-----------------------------------------------------------------------------
(* Rollback and Keep. *)

(* Whatever of h is outside K and is not contextual comes before every     *)
(* contextual item of K: to leave it out joins no contextual items that a  *)
(* trim would have kept apart.                                             *)
Clean(h, K) ==
  \A i, j \in DOMAIN h : i < j /\ IsContextual(h[i]) /\ h[i] \in K
                           => IsContextual(h[j]) \/ h[j] \in K

(* When a longer history is clean. *)
LEMMA CleanAppend ==
  ASSUME NEW S, NEW h \in Seq(S), NEW x \in S, NEW K
  PROVE  Clean(Append(h, x), K)
           <=> /\ Clean(h, K)
               /\ IsContextual(x) \/ x \in K
                  \/ \A y \in ToSet(h) \intersect K : ~IsContextual(y)
<1>1. /\ Len(h) \in Nat
      /\ DOMAIN h = 1 .. Len(h)
      /\ DOMAIN Append(h, x) = 1 .. Len(h) + 1
      /\ \A i \in 1 .. Len(h) : Append(h, x)[i] = h[i]
      /\ Append(h, x)[Len(h) + 1] = x
  BY AppendFacts
<1>2. \A i \in 1 .. Len(h) + 1 : i \in 1 .. Len(h) \/ i = Len(h) + 1
  BY <1>1
<1>3. \A i \in 1 .. Len(h) : i \in 1 .. Len(h) + 1 /\ i < Len(h) + 1
  BY <1>1
<1>4. ASSUME Clean(Append(h, x), K) PROVE Clean(h, K)
  BY <1>1, <1>3, <1>4 DEF Clean
<1>5. ASSUME Clean(Append(h, x), K), ~IsContextual(x), x \notin K,
             NEW y \in ToSet(h) \intersect K
      PROVE  ~IsContextual(y)
  <2>1. PICK i \in 1 .. Len(h) : h[i] = y
    BY <1>1 DEF ToSet
  <2>2. i < Len(h) + 1 /\ Len(h) + 1 \in 1 .. Len(h) + 1
    BY <1>1
  <2>. QED BY <1>1, <1>3, <1>5, <2>1, <2>2 DEF Clean
<1>6. ASSUME Clean(h, K),
             IsContextual(x) \/ x \in K
               \/ \A y \in ToSet(h) \intersect K : ~IsContextual(y)
      PROVE  Clean(Append(h, x), K)
  <2>1. SUFFICES ASSUME NEW i \in 1 .. Len(h) + 1, NEW j \in 1 .. Len(h) + 1,
                        i < j, IsContextual(Append(h, x)[i]),
                        Append(h, x)[i] \in K
                 PROVE  IsContextual(Append(h, x)[j]) \/ Append(h, x)[j] \in K
    BY <1>1 DEF Clean
  <2>2. i \in 1 .. Len(h) /\ Append(h, x)[i] = h[i]
    BY <1>1, <2>1
  <2>3. h[i] \in ToSet(h)
    BY <1>1, <2>2 DEF ToSet
  <2>4. CASE j \in 1 .. Len(h)
    BY <1>1, <1>6, <2>1, <2>2, <2>4 DEF Clean
  <2>5. CASE j = Len(h) + 1
    BY <1>1, <1>6, <2>1, <2>2, <2>3, <2>5
  <2>. QED BY <1>2, <2>4, <2>5
<1>. QED BY <1>4, <1>5, <1>6

(* A history without contextual items is not trimmed. *)
LEMMA TrimNone ==
  ASSUME NEW S, NEW h \in Seq(S), \A y \in ToSet(h) : ~IsContextual(y)
  PROVE  Trim(h) = h
<1>1. CASE h = <<>>
  BY <1>1, TrimEmpty
<1>2. CASE h # <<>>
  <2>1. PICK g \in Seq(S), x \in S : h = Append(g, x)
    BY <1>2, SequenceEmptyOrAppend
  <2>2. x \in ToSet(h)
    BY <2>1, ToSetAppend
  <2>. QED BY <2>1, <2>2, TrimAppend
<1>. QED BY <1>1, <1>2

(* Of a clean history, trimming the selection is selecting from the        *)
(* trimmed.                                                                *)
LEMMA KeepTrim ==
  ASSUME NEW S, NEW h \in Seq(S), NEW K, Clean(h, K)
  PROVE  Keep(Trim(h), K) = Trim(Keep(h, K))
<1>. DEFINE T == {g \in Seq(S) :
                    Clean(g, K) => Keep(Trim(g), K) = Trim(Keep(g, K))}
<1>1. <<>> \in T
  BY EmptySeq, KeepEmpty, TrimEmpty
<1>2. ASSUME NEW g \in Seq(S), NEW x \in S, g \in T
      PROVE  Append(g, x) \in T
  <2>1. SUFFICES ASSUME Clean(Append(g, x), K)
                 PROVE  Keep(Trim(Append(g, x)), K)
                          = Trim(Keep(Append(g, x), K))
    BY AppendProperties
  <2>2. /\ Clean(g, K)
        /\ IsContextual(x) \/ x \in K
           \/ \A y \in ToSet(g) \intersect K : ~IsContextual(y)
    BY <2>1, CleanAppend
  <2>3. Keep(Trim(g), K) = Trim(Keep(g, K))
    BY <1>2, <2>2
  <2>4. Keep(g, K) \in Seq(S) /\ ToSet(Keep(g, K)) = ToSet(g) \intersect K
    BY KeepTyped, KeepRange
  <2>5. CASE IsContextual(x)
    <3>1. Keep(Trim(Append(g, x)), K) = Trim(Keep(g, K))
      BY <2>3, <2>5, TrimAppend
    <3>2. Trim(Append(Keep(g, K), x)) = Trim(Keep(g, K))
      BY <2>4, <2>5, TrimAppend
    <3>. QED BY <3>1, <3>2, KeepAppend
  <2>6. CASE ~IsContextual(x) /\ x \in K
    <3>1. Trim(Append(g, x)) = Append(g, x)
      BY <2>6, TrimAppend
    <3>2. Trim(Append(Keep(g, K), x)) = Append(Keep(g, K), x)
      BY <2>4, <2>6, TrimAppend
    <3>. QED BY <2>6, <3>1, <3>2, KeepAppend
  <2>7. CASE ~IsContextual(x) /\ x \notin K
    <3>1. Trim(Append(g, x)) = Append(g, x)
      BY <2>7, TrimAppend
    <3>2. Trim(Keep(g, K)) = Keep(g, K)
      BY <2>2, <2>4, <2>7, TrimNone
    <3>. QED BY <2>7, <3>1, <3>2, KeepAppend
  <2>. QED BY <2>5, <2>6, <2>7
<1>3. Seq(S) \subseteq T
  <2>. HIDE DEF T
  <2>. QED BY <1>1, <1>2, AppendInduction
<1>. QED BY <1>3

(* A selection with all user messages has the turns of the history. *)
LEMMA KeepHasTurn ==
  ASSUME NEW S, NEW h \in Seq(S), NEW K,
         \A y \in S : IsUserTurnBoundary(y) => y \in K
  PROVE  HasTurn(Keep(h, K)) <=> HasTurn(h)
<1>1. \A g : HasTurn(g) <=> \E y \in ToSet(g) : IsUserTurnBoundary(y)
  BY DEF HasTurn, ToSet
<1>2. ToSet(Keep(h, K)) = ToSet(h) \intersect K /\ ToSet(h) \subseteq S
  BY KeepRange, ToSetType
<1>. QED BY <1>1, <1>2

(* A rollback of the empty history leaves it. *)
LEMMA RestEmpty ==
  ASSUME NEW n
  PROVE  Rest(<<>>, n) = <<>>
  BY DEF Rest, HasTurn

(* Rolling back n user turns (drop_last_n_user_turns, with its trim of the *)
(* context before the cut) commutes with leaving items out of a history:   *)
(* two histories that differ only in items outside K still differ only in  *)
(* such items after the same rollback of both.  It takes that the items    *)
(* left out bound no turn, and that none of them has kept apart context    *)
(* items that a trim would then join (Clean).                              *)
THEOREM KeepRest ==
  ASSUME NEW S, NEW h \in Seq(S), NEW K, NEW n \in Nat \ {0}, Clean(h, K),
         \A y \in S : IsUserTurnBoundary(y) => y \in K
  PROVE  Keep(Rest(h, n), K) = Rest(Keep(h, K), n)
<1>. DEFINE T == {g \in Seq(S) : Clean(g, K) => \A m \in Nat \ {0} :
                    Keep(Rest(g, m), K) = Rest(Keep(g, K), m)}
<1>1. <<>> \in T
  BY EmptySeq, KeepEmpty, RestEmpty
<1>2. ASSUME NEW g \in Seq(S), NEW x \in S, g \in T
      PROVE  Append(g, x) \in T
  <2>1. SUFFICES ASSUME Clean(Append(g, x), K), NEW m \in Nat \ {0}
                 PROVE  Keep(Rest(Append(g, x), m), K)
                          = Rest(Keep(Append(g, x), K), m)
    BY AppendProperties
  <2>2. Clean(g, K)
    BY <2>1, CleanAppend
  <2>3. \A k \in Nat \ {0} : Keep(Rest(g, k), K) = Rest(Keep(g, K), k)
    BY <1>2, <2>2
  <2>4. Keep(g, K) \in Seq(S) /\ (HasTurn(Keep(g, K)) <=> HasTurn(g))
    BY KeepTyped, KeepHasTurn
  <2>5. CASE IsUserTurnBoundary(x)
    <3>1. Keep(Append(g, x), K) = Append(Keep(g, K), x)
      BY <2>5, KeepAppend
    <3>2. CASE ~HasTurn(g)
      <4>1. Rest(Append(g, x), m) = g
        BY <2>5, <3>2, RestFirstTurn
      <4>2. Rest(Append(Keep(g, K), x), m) = Keep(g, K)
        BY <2>4, <2>5, <3>2, RestFirstTurn
      <4>. QED BY <3>1, <4>1, <4>2
    <3>3. CASE HasTurn(g) /\ m = 1
      <4>1. Rest(Append(g, x), m) = Trim(g)
        BY <2>5, <3>3, RestNewestTurn
      <4>2. Rest(Append(Keep(g, K), x), m) = Trim(Keep(g, K))
        BY <2>4, <2>5, <3>3, RestNewestTurn
      <4>. QED BY <2>2, <3>1, <4>1, <4>2, KeepTrim
    <3>4. CASE HasTurn(g) /\ m # 1
      <4>0. m \in Nat \ {0, 1} /\ m - 1 \in Nat \ {0}
        BY <3>4
      <4>1. Rest(Append(g, x), m) = Rest(g, m - 1)
        BY <2>5, <3>4, <4>0, RestOlderTurn
      <4>2. Rest(Append(Keep(g, K), x), m) = Rest(Keep(g, K), m - 1)
        BY <2>4, <2>5, <3>4, <4>0, RestOlderTurn
      <4>. QED BY <2>3, <3>1, <4>0, <4>1, <4>2
    <3>. QED BY <3>2, <3>3, <3>4
  <2>6. CASE ~IsUserTurnBoundary(x) /\ HasTurn(g)
    <3>1. Rest(Append(g, x), m) = Rest(g, m)
      BY <2>6, RestNoBoundary
    <3>2. Rest(Append(Keep(g, K), x), m) = Rest(Keep(g, K), m)
      BY <2>4, <2>6, RestNoBoundary
    <3>3. Rest(Keep(Append(g, x), K), m) = Rest(Keep(g, K), m)
      BY <3>2, KeepAppend
    <3>. QED BY <2>3, <3>1, <3>3
  <2>7. CASE ~IsUserTurnBoundary(x) /\ ~HasTurn(g)
    <3>1. ~HasTurn(Append(g, x))
      BY <2>7, HasTurnAppend
    <3>2. ~HasTurn(Keep(Append(g, x), K))
      BY <3>1, AppendProperties, KeepHasTurn
    <3>. QED BY <3>1, <3>2 DEF Rest
  <2>. QED BY <2>5, <2>6, <2>7
<1>3. Seq(S) \subseteq T
  <2>. HIDE DEF T
  <2>. QED BY <1>1, <1>2, AppendInduction
<1>. QED BY <1>3

-----------------------------------------------------------------------------
(* Response items, and EnsureCallOutputsPresent. *)

(* Items that tools leave: calls and outputs. *)
Loose == {item \in Items : item.kind \in {"call", "output"}}

(* EnsureCallOutputsPresent with the set O of calls that have an output. *)
Fill(h, O) ==
  FlattenSeq([i \in DOMAIN h |->
    IF h[i].kind = "call" /\ h[i].id \notin O
    THEN <<h[i], Output(h[i].id)>> ELSE <<h[i]>>])

(* No output stands before its call. *)
InOrder(h) == \A c \in Calls : ~Precedes(h, Output(c), Call(c))

(* The user messages come in the order of their turns. *)
Ordered(h) == \A t, u \in Turns : Precedes(h, User(t), User(u)) => t < u

(* The items, by their constructors, *)
LEMMA ItemMembers ==
  /\ \A s \in Settings : Initial(s) \in Items /\ Update(s) \in Items
  /\ \A t \in Turns : /\ User(t) \in Items
                      /\ Summary(t) \in Items
                      /\ Marker(t) \in Items
  /\ \A c \in Calls : Call(c) \in Items /\ Output(c) \in Items
  BY DEF Items

(* and every item is one of those. *)
LEMMA ItemCases ==
  ASSUME NEW x \in Items
  PROVE  \/ \E s \in Settings : x = Initial(s) \/ x = Update(s)
         \/ \E t \in Turns : x = User(t) \/ x = Summary(t) \/ x = Marker(t)
         \/ \E c \in Calls : x = Call(c) \/ x = Output(c)
  BY DEF Items

(* The fields of an item. *)
LEMMA ItemFields ==
  ASSUME NEW i
  PROVE  /\ Initial(i).kind = "initial" /\ Initial(i).id = i
         /\ Update(i).kind = "update" /\ Update(i).id = i
         /\ User(i).kind = "user" /\ User(i).id = i
         /\ Summary(i).kind = "summary" /\ Summary(i).id = i
         /\ Marker(i).kind = "aborted" /\ Marker(i).id = i
         /\ Call(i).kind = "call" /\ Call(i).id = i
         /\ Output(i).kind = "output" /\ Output(i).id = i
  BY DEF Initial, Update, User, Summary, Call, Output, Marker

(* What the kind of an item says of it. *)
LEMMA ItemKinds ==
  ASSUME NEW x \in Items
  PROVE  /\ x.kind \in {"initial", "update", "user", "summary", "call",
                        "output", "aborted"}
         /\ x.kind \in {"initial", "update"} => x.id \in Settings
         /\ x.kind = "user" => x.id \in Turns /\ x = User(x.id)
         /\ x.kind = "call" => x.id \in Calls /\ x = Call(x.id)
         /\ x.kind = "output" => x.id \in Calls /\ x = Output(x.id)
         /\ x.kind = "aborted" => x.id \in Turns /\ x = Marker(x.id)
<1>1. CASE \E s \in Settings : x = Initial(s) \/ x = Update(s)
  BY <1>1, ItemFields
<1>2. CASE \E t \in Turns : x = User(t) \/ x = Summary(t) \/ x = Marker(t)
  BY <1>2, ItemFields
<1>3. CASE \E c \in Calls : x = Call(c) \/ x = Output(c)
  BY <1>3, ItemFields
<1>. QED BY <1>1, <1>2, <1>3, ItemCases

(* Fill of a longer history. *)
LEMMA FillAppend ==
  ASSUME NEW h \in Seq(Items), NEW x \in Items, NEW O
  PROVE  /\ Fill(h, O) \in Seq(Items)
         /\ Fill(Append(h, x), O)
              = IF x.kind = "call" /\ x.id \notin O
                THEN Append(Append(Fill(h, O), x), Output(x.id))
                ELSE Append(Fill(h, O), x)
<1>. DEFINE p == [y \in Items |-> IF y.kind = "call" /\ y.id \notin O
                                  THEN <<y, Output(y.id)>> ELSE <<y>>]
<1>1. p \in [Items -> Seq(Items)]
  <2>1. ASSUME NEW y \in Items PROVE p[y] \in Seq(Items)
    <3>1. CASE y.kind = "call"
      <4>1. Output(y.id) \in Items
        BY <3>1, ItemKinds, ItemMembers
      <4>. QED BY <4>1
    <3>2. CASE y.kind # "call"
      BY <3>2
    <3>. QED BY <3>1, <3>2
  <2>. QED BY <2>1
<1>2. \A g \in Seq(Items) : Fill(g, O) = Pieces(p, g)
  <2>1. SUFFICES ASSUME NEW g \in Seq(Items)
                 PROVE  Fill(g, O) = Pieces(p, g)
    OBVIOUS
  <2>2. \A i \in DOMAIN g : g[i] \in Items
    BY ElementOfSeq, LenProperties
  <2>3. [i \in DOMAIN g |-> p[g[i]]]
          = [i \in DOMAIN g |-> IF g[i].kind = "call" /\ g[i].id \notin O
                                THEN <<g[i], Output(g[i].id)>> ELSE <<g[i]>>]
    BY <2>2
  <2>. QED BY <2>3 DEF Fill, Pieces
<1>3. Append(h, x) \in Seq(Items)
  BY AppendFacts
<1>4. p[x] = IF x.kind = "call" /\ x.id \notin O
             THEN <<x, Output(x.id)>> ELSE <<x>>
  OBVIOUS
<1>. HIDE DEF p
<1>5. Fill(h, O) \in Seq(Items) /\ Fill(Append(h, x), O) = Fill(h, O) \o p[x]
  <2>1. /\ Pieces(p, h) \in Seq(Items)
        /\ Pieces(p, Append(h, x)) = Pieces(p, h) \o p[x]
    BY <1>1, PiecesAppend
  <2>2. Fill(h, O) = Pieces(p, h)
    BY <1>2
  <2>3. Fill(Append(h, x), O) = Pieces(p, Append(h, x))
    BY <1>2, <1>3
  <2>. QED BY <2>1, <2>2, <2>3
<1>6. CASE x.kind = "call" /\ x.id \notin O
  <2>1. Output(x.id) \in Items
    BY <1>6, ItemKinds, ItemMembers
  <2>2. Fill(h, O) \o <<x, Output(x.id)>>
          = Append(Append(Fill(h, O), x), Output(x.id))
    <3>1. <<x, Output(x.id)>> = <<x>> \o <<Output(x.id)>>
      OBVIOUS
    <3>2. <<x>> \in Seq(Items) /\ <<Output(x.id)>> \in Seq(Items)
      BY <2>1
    <3>3. (Fill(h, O) \o <<x>>) \o <<Output(x.id)>>
            = Fill(h, O) \o (<<x>> \o <<Output(x.id)>>)
      BY <1>5, <3>2, ConcatAssociative
    <3>4. Fill(h, O) \o <<x>> = Append(Fill(h, O), x)
      BY <1>5, ConcatOne
    <3>5. Append(Fill(h, O), x) \in Seq(Items)
      BY <1>5, AppendFacts
    <3>6. Append(Fill(h, O), x) \o <<Output(x.id)>>
            = Append(Append(Fill(h, O), x), Output(x.id))
      BY <2>1, <3>5, ConcatOne
    <3>. QED BY <3>1, <3>3, <3>4, <3>6
  <2>. QED BY <1>4, <1>5, <1>6, <2>2
<1>7. CASE ~(x.kind = "call" /\ x.id \notin O)
  BY <1>4, <1>5, <1>7, ConcatOne
<1>. QED BY <1>5, <1>6, <1>7

(* Fill of the empty history. *)
LEMMA FillEmpty ==
  ASSUME NEW O
  PROVE  Fill(<<>>, O) = <<>>
<1>1. [i \in DOMAIN <<>> |->
         IF <<>>[i].kind = "call" /\ <<>>[i].id \notin O
         THEN <<<<>>[i], Output(<<>>[i].id)>> ELSE <<<<>>[i]>>] = <<>>
  OBVIOUS
<1>. QED BY <1>1, FlattenEmpty DEF Fill

(* Fill of a history is a history. *)
LEMMA FillType ==
  ASSUME NEW h \in Seq(Items), NEW O
  PROVE  Fill(h, O) \in Seq(Items)
<1>1. CASE h = <<>>
  BY <1>1, FillEmpty, EmptySeq
<1>2. CASE h # <<>>
  <2>1. PICK x \in Items : TRUE
    BY <1>2, SequenceEmptyOrAppend
  <2>. QED BY <2>1, FillAppend
<1>. QED BY <1>1, <1>2

(* Fill adds outputs only. *)
LEMMA FillKeeps ==
  ASSUME NEW h \in Seq(Items), NEW O, NEW K, K \subseteq NotOutputs
  PROVE  Keep(Fill(h, O), K) = Keep(h, K)
<1>. DEFINE T == {g \in Seq(Items) : Keep(Fill(g, O), K) = Keep(g, K)}
<1>1. <<>> \in T
  BY EmptySeq, FillEmpty
<1>2. ASSUME NEW g \in Seq(Items), NEW x \in Items, g \in T
      PROVE  Append(g, x) \in T
  <2>1. Append(g, x) \in Seq(Items) /\ Fill(g, O) \in Seq(Items)
    BY AppendProperties, FillType
  <2>2. Keep(Append(Fill(g, O), x), K) = Keep(Append(g, x), K)
    <3>1. Keep(Fill(g, O), K) = Keep(g, K)
      BY <1>2
    <3>2. Keep(Append(g, x), K)
            = IF x \in K THEN Append(Keep(g, K), x) ELSE Keep(g, K)
      BY KeepAppend
    <3>3. Keep(Append(Fill(g, O), x), K)
            = IF x \in K THEN Append(Keep(Fill(g, O), K), x)
                         ELSE Keep(Fill(g, O), K)
      BY <2>1, KeepAppend
    <3>. QED BY <3>1, <3>2, <3>3
  <2>3. CASE x.kind = "call" /\ x.id \notin O
    <3>. DEFINE f == Append(Fill(g, O), x)
                out == Output(x.id)
    <3>1. out \in Items
      BY <2>3, ItemKinds, ItemMembers
    <3>2. out \notin K
      BY ItemFields DEF NotOutputs
    <3>3. f \in Seq(Items)
      BY <2>1, AppendProperties
    <3>4. Fill(Append(g, x), O) = Append(f, out)
      BY <2>3, FillAppend
    <3>5. Keep(f, K) = Keep(Append(g, x), K)
      BY <2>2
    <3>. HIDE DEF f, out
    <3>6. Keep(Append(f, out), K) = Keep(f, K)
      BY <3>1, <3>2, <3>3, KeepAppend
    <3>. QED BY <2>1, <3>4, <3>5, <3>6
  <2>4. CASE ~(x.kind = "call" /\ x.id \notin O)
    <3>1. Fill(Append(g, x), O) = Append(Fill(g, O), x)
      BY <2>4, FillAppend
    <3>. QED BY <2>1, <2>2, <3>1
  <2>. QED BY <2>3, <2>4
<1>3. Seq(Items) \subseteq T
  <2>. HIDE DEF T
  <2>. QED BY <1>1, <1>2, AppendInduction
<1>. QED BY <1>3

(* Fill adds the outputs that are missing, and no other. *)
LEMMA FillRange ==
  ASSUME NEW h \in Seq(Items), NEW O, NEW y
  PROVE  y \in ToSet(Fill(h, O))
           <=> \/ y \in ToSet(h)
               \/ \E c \in Calls : /\ c \notin O
                                  /\ Call(c) \in ToSet(h)
                                  /\ y = Output(c)
<1>. DEFINE New(g) == \E c \in Calls : /\ c \notin O
                                      /\ Call(c) \in ToSet(g)
                                      /\ y = Output(c)
            T == {g \in Seq(Items) : y \in ToSet(Fill(g, O))
                                       <=> y \in ToSet(g) \/ New(g)}
<1>1. <<>> \in T
  BY EmptySeq, FillEmpty, ToSetEmpty
<1>2. ASSUME NEW g \in Seq(Items), NEW x \in Items, g \in T
      PROVE  Append(g, x) \in T
  <2>1. Append(g, x) \in Seq(Items) /\ Fill(g, O) \in Seq(Items)
    BY AppendProperties, FillType
  <2>2. ToSet(Append(g, x)) = ToSet(g) \union {x}
    BY ToSetAppend
  <2>3. y \in ToSet(Append(Fill(g, O), x))
          <=> y \in ToSet(g) \/ New(g) \/ y = x
    <3>1. ToSet(Append(Fill(g, O), x)) = ToSet(Fill(g, O)) \union {x}
      BY <2>1, ToSetAppend
    <3>2. y \in ToSet(Fill(g, O)) <=> y \in ToSet(g) \/ New(g)
      BY <1>2
    <3>. HIDE DEF New
    <3>. QED BY <3>1, <3>2
  <2>4. CASE x.kind = "call" /\ x.id \notin O
    <3>. DEFINE f == Append(Fill(g, O), x)
                out == Output(x.id)
    <3>1. x.id \in Calls /\ x = Call(x.id) /\ out \in Items
      BY <2>4, ItemKinds, ItemMembers
    <3>2. f \in Seq(Items) /\ Fill(Append(g, x), O) = Append(f, out)
      BY <2>1, <2>4, AppendProperties, FillAppend
    <3>3. ToSet(Append(f, out)) = ToSet(f) \union {out}
      <4>. HIDE DEF f, out
      <4>. QED BY <3>1, <3>2, ToSetAppend
    <3>4. \A c \in Calls : Call(c) = x <=> c = x.id
      BY <3>1, ItemFields
    <3>5. New(Append(g, x)) <=> New(g) \/ y = out
      BY <2>2, <2>4, <3>1, <3>4
    <3>6. y \in ToSet(f) <=> y \in ToSet(g) \/ New(g) \/ y = x
      BY <2>3
    <3>. HIDE DEF New, f, out
    <3>7. y \in ToSet(Fill(Append(g, x), O))
            <=> y \in ToSet(Append(g, x)) \/ New(Append(g, x))
      BY <2>2, <3>2, <3>3, <3>5, <3>6
    <3>. QED BY <2>1, <3>7 DEF New
  <2>5. CASE ~(x.kind = "call" /\ x.id \notin O)
    <3>1. Fill(Append(g, x), O) = Append(Fill(g, O), x)
      BY <2>5, FillAppend
    <3>2. \A c \in Calls : c \notin O => Call(c) # x
      BY <2>5, ItemFields
    <3>3. New(Append(g, x)) <=> New(g)
      BY <2>2, <3>2
    <3>4. y \in ToSet(Fill(Append(g, x), O))
            <=> y \in ToSet(Append(g, x)) \/ New(Append(g, x))
      <4>. HIDE DEF New
      <4>. QED BY <2>2, <2>3, <3>1, <3>3
    <3>. QED BY <2>1, <3>4
  <2>. QED BY <2>4, <2>5
<1>3. Seq(Items) \subseteq T
  <2>. HIDE DEF T
  <2>. QED BY <1>1, <1>2, AppendInduction
<1>. QED BY <1>3

-----------------------------------------------------------------------------
(* ForPrompt. *)

(* The calls with an output in h. *)
OutputsIn(h) == {c \in Calls : Output(c) \in ToSet(h)}

(* An appended call must not have an output yet. *)
LEMMA InOrderAppend ==
  ASSUME NEW h \in Seq(Items), NEW x \in Items
  PROVE  InOrder(Append(h, x))
           <=> /\ InOrder(h)
               /\ x.kind = "call" => Output(x.id) \notin ToSet(h)
<1>1. \A c \in Calls : Precedes(Append(h, x), Output(c), Call(c))
        <=> \/ Precedes(h, Output(c), Call(c))
            \/ x = Call(c) /\ Output(c) \in ToSet(h)
  BY PrecedesAppend
<1>2. \A c \in Calls : x = Call(c) <=> x.kind = "call" /\ x.id = c
  BY ItemKinds, ItemFields
<1>3. x.kind = "call" => x.id \in Calls
  BY ItemKinds
<1>. QED BY <1>1, <1>2, <1>3 DEF InOrder

(* Fill duplicates no call and no output, *)
LEMMA FillOnce ==
  ASSUME NEW h \in Seq(Items), NEW O, Once(h, Loose), OutputsIn(h) \subseteq O
  PROVE  Once(Fill(h, O), Loose)
<1>. DEFINE Fit(g) == Once(g, Loose) /\ OutputsIn(g) \subseteq O
            T == {g \in Seq(Items) : Fit(g) => Once(Fill(g, O), Loose)}
<1>1. <<>> \in T
  BY EmptySeq, FillEmpty, OnceEmpty
<1>2. ASSUME NEW g \in Seq(Items), NEW x \in Items, g \in T
      PROVE  Append(g, x) \in T
  <2>1. SUFFICES ASSUME Fit(Append(g, x))
                 PROVE  Once(Fill(Append(g, x), O), Loose)
    BY AppendProperties
  <2>2. Once(g, Loose) /\ (x \in Loose => x \notin ToSet(g))
    BY <2>1, OnceAppend
  <2>3. ToSet(Append(g, x)) = ToSet(g) \union {x}
    BY ToSetAppend
  <2>4. OutputsIn(g) \subseteq O
    BY <2>1, <2>3 DEF OutputsIn
  <2>5. Fill(g, O) \in Seq(Items) /\ Once(Fill(g, O), Loose)
    BY <1>2, <2>2, <2>4, FillType
  <2>6. x \in Loose => x \notin ToSet(Fill(g, O))
    <3>1. SUFFICES ASSUME x \in Loose, x \in ToSet(Fill(g, O)) PROVE FALSE
      OBVIOUS
    <3>2. PICK c \in Calls : c \notin O /\ x = Output(c)
      BY <2>2, <3>1, FillRange
    <3>3. c \in OutputsIn(Append(g, x))
      BY <2>3, <3>2 DEF OutputsIn
    <3>. QED BY <2>1, <3>2, <3>3
  <2>7. Append(Fill(g, O), x) \in Seq(Items)
        /\ Once(Append(Fill(g, O), x), Loose)
    BY <2>5, <2>6, AppendProperties, OnceAppend
  <2>8. CASE x.kind = "call" /\ x.id \notin O
    <3>. DEFINE f == Append(Fill(g, O), x)
                out == Output(x.id)
    <3>1. x.id \in Calls /\ x = Call(x.id) /\ out \in Items /\ x \in Loose
      BY <2>8, ItemKinds, ItemMembers DEF Loose
    <3>2. ToSet(f) = ToSet(Fill(g, O)) \union {x}
      BY <2>5, ToSetAppend
    <3>3. out # x
      BY <2>8, ItemFields
    <3>4. out \notin ToSet(g)
      <4>1. SUFFICES ASSUME out \in ToSet(g) PROVE FALSE
        OBVIOUS
      <4>2. x.id \in OutputsIn(g)
        BY <3>1, <4>1 DEF OutputsIn
      <4>. QED BY <2>4, <2>8, <4>2
    <3>5. \A c \in Calls : out = Output(c) => c = x.id
      BY ItemFields
    <3>6. out \notin ToSet(Fill(g, O))
      BY <2>2, <3>1, <3>4, <3>5, FillRange
    <3>7. f \in Seq(Items) /\ Once(f, Loose) /\ out \notin ToSet(f)
      BY <2>7, <3>2, <3>3, <3>6
    <3>8. Fill(Append(g, x), O) = Append(f, out)
      BY <2>8, FillAppend
    <3>. HIDE DEF f, out
    <3>. QED BY <3>1, <3>7, <3>8, OnceAppend
  <2>9. CASE ~(x.kind = "call" /\ x.id \notin O)
    BY <2>7, <2>9, FillAppend
  <2>. QED BY <2>8, <2>9
<1>3. Seq(Items) \subseteq T
  <2>. HIDE DEF T
  <2>. QED BY <1>1, <1>2, AppendInduction
<1>. QED BY <1>3

(* and puts an output after every call that had none. *)
LEMMA FillPrecedes ==
  ASSUME NEW h \in Seq(Items), NEW O, InOrder(h), NEW c \in Calls,
         Call(c) \in ToSet(h), c \notin O \/ Output(c) \in ToSet(h)
  PROVE  Precedes(Fill(h, O), Call(c), Output(c))
<1>. DEFINE Fit(g) == /\ InOrder(g)
                      /\ Call(c) \in ToSet(g)
                      /\ c \notin O \/ Output(c) \in ToSet(g)
            T == {g \in Seq(Items) :
                    Fit(g) => Precedes(Fill(g, O), Call(c), Output(c))}
<1>1. <<>> \in T
  BY EmptySeq, ToSetEmpty
<1>2. ASSUME NEW g \in Seq(Items), NEW x \in Items, g \in T
      PROVE  Append(g, x) \in T
  <2>. DEFINE f == Append(Fill(g, O), x)
  <2>1. SUFFICES ASSUME Fit(Append(g, x))
                 PROVE  Precedes(Fill(Append(g, x), O), Call(c), Output(c))
    BY AppendProperties
  <2>2. ToSet(Append(g, x)) = ToSet(g) \union {x}
    BY ToSetAppend
  <2>3. InOrder(g) /\ (x.kind = "call" => Output(x.id) \notin ToSet(g))
    BY <2>1, InOrderAppend
  <2>4. Fill(g, O) \in Seq(Items) /\ f \in Seq(Items)
    BY FillType, AppendProperties
  <2>5. ASSUME Precedes(f, Call(c), Output(c))
        PROVE  Precedes(Fill(Append(g, x), O), Call(c), Output(c))
    <3>1. CASE x.kind = "call" /\ x.id \notin O
      <4>1. Output(x.id) \in Items
        BY <3>1, ItemKinds, ItemMembers
      <4>2. Fill(Append(g, x), O) = Append(f, Output(x.id))
        BY <3>1, FillAppend
      <4>. HIDE DEF f
      <4>. QED BY <2>4, <2>5, <4>1, <4>2, PrecedesAppend
    <3>2. CASE ~(x.kind = "call" /\ x.id \notin O)
      BY <2>5, <3>2, FillAppend
    <3>. QED BY <3>1, <3>2
  <2>6. CASE Fit(g)
    <3>1. Precedes(Fill(g, O), Call(c), Output(c))
      BY <1>2, <2>6
    <3>2. Precedes(f, Call(c), Output(c))
      BY <2>4, <3>1, PrecedesAppend
    <3>. QED BY <2>5, <3>2
  <2>7. CASE ~Fit(g) /\ x = Call(c)
    <3>1. x.kind = "call" /\ x.id = c /\ x # Output(c)
      BY <2>7, ItemFields
    <3>2. Output(c) \notin ToSet(g) /\ c \notin O
      BY <2>1, <2>2, <2>3, <3>1
    <3>3. Output(c) \in Items
      BY ItemMembers
    <3>4. Fill(Append(g, x), O) = Append(f, Output(c))
      BY <3>1, <3>2, FillAppend
    <3>5. Call(c) \in ToSet(f)
      BY <2>4, <2>7, ToSetAppend
    <3>. HIDE DEF f
    <3>. QED BY <2>4, <3>3, <3>4, <3>5, PrecedesAppend
  <2>8. CASE ~Fit(g) /\ x # Call(c)
    <3>1. Call(c) \in ToSet(g)
      BY <2>1, <2>2, <2>8
    <3>2. x = Output(c)
      BY <2>1, <2>2, <2>3, <2>8, <3>1
    <3>3. Call(c) \in ToSet(Fill(g, O))
      BY <3>1, FillRange
    <3>4. Precedes(f, Call(c), Output(c))
      BY <2>4, <3>2, <3>3, PrecedesAppend
    <3>. QED BY <2>5, <3>4
  <2>. QED BY <2>6, <2>7, <2>8
<1>3. Seq(Items) \subseteq T
  <2>. HIDE DEF T
  <2>. QED BY <1>1, <1>2, AppendInduction
<1>. QED BY <1>3
-----------------------------------------------------------------------------

(* HasCall and HasOutput, by what the history holds. *)
LEMMA HasIs ==
  ASSUME NEW h, NEW c
  PROVE  /\ HasCall(h, c) <=> Call(c) \in ToSet(h)
         /\ HasOutput(h, c) <=> Output(c) \in ToSet(h)
  BY DEF HasCall, HasOutput, ToSet

(* EnsureCallOutputsPresent fills in for the calls without output. *)
LEMMA EnsureIsFill ==
  ASSUME NEW h \in Seq(Items)
  PROVE  EnsureCallOutputsPresent(h) = Fill(h, OutputsIn(h))
<1>1. \A i \in DOMAIN h : h[i] \in Items
  BY ElementOfSeq, LenProperties
<1>2. \A i \in DOMAIN h : h[i].kind = "call" =>
        (HasOutput(h, h[i].id) <=> h[i].id \in OutputsIn(h))
  BY <1>1, ItemKinds, HasIs DEF OutputsIn
<1>3. [i \in DOMAIN h |->
         IF h[i].kind = "call" /\ ~HasOutput(h, h[i].id)
         THEN <<h[i], Output(h[i].id)>> ELSE <<h[i]>>]
      = [i \in DOMAIN h |->
           IF h[i].kind = "call" /\ h[i].id \notin OutputsIn(h)
           THEN <<h[i], Output(h[i].id)>> ELSE <<h[i]>>]
  BY <1>2
<1>. QED BY <1>3 DEF EnsureCallOutputsPresent, Fill

(* ForPrompt of a history with no call or output twice and no output       *)
(* before its call: every call has its output after it, no output is       *)
(* without its call, and what is no output stays as it was.                *)
LEMMA PromptFacts ==
  ASSUME NEW h \in Seq(Items), Once(h, Loose), InOrder(h)
  PROVE  /\ ForPrompt(h) \in Seq(Items)
         /\ Once(ForPrompt(h), Loose)
         /\ \A c \in Calls : Call(c) \in ToSet(ForPrompt(h))
              => Precedes(ForPrompt(h), Call(c), Output(c))
         /\ \A c \in Calls : Output(c) \in ToSet(ForPrompt(h))
              => Call(c) \in ToSet(ForPrompt(h))
         /\ \A K : K \subseteq NotOutputs => Keep(ForPrompt(h), K) = Keep(h, K)
<1>. DEFINE O == OutputsIn(h)
            e == Fill(h, O)
            K == {item \in Items : item.kind = "output" => HasCall(e, item.id)}
<1>1. ForPrompt(h) = Keep(e, K)
  BY EnsureIsFill DEF ForPrompt, RemoveOrphanOutputs
<1>2. e \in Seq(Items) /\ Once(e, Loose)
  BY FillType, FillOnce
<1>3. \A c \in Calls : Call(c) \in ToSet(e) <=> Call(c) \in ToSet(h)
  BY FillRange, ItemFields
<1>4. \A c \in Calls : Call(c) \in ToSet(h)
                         => Precedes(e, Call(c), Output(c))
  <2>1. SUFFICES ASSUME NEW c \in Calls, Call(c) \in ToSet(h)
                 PROVE  Precedes(e, Call(c), Output(c))
    OBVIOUS
  <2>2. c \notin O \/ Output(c) \in ToSet(h)
    BY DEF OutputsIn
  <2>. HIDE DEF O
  <2>. QED BY <2>1, <2>2, FillPrecedes
<1>5. \A c \in Calls : /\ Call(c) \in K
                       /\ Output(c) \in K <=> Call(c) \in ToSet(e)
  BY ItemMembers, ItemFields, HasIs
<1>6. ToSet(ForPrompt(h)) = ToSet(e) \intersect K
  <2>. HIDE DEF e, K
  <2>. QED BY <1>1, <1>2, KeepRange
<1>7. ForPrompt(h) \in Seq(Items) /\ Once(ForPrompt(h), Loose)
  <2>. HIDE DEF e, K
  <2>. QED BY <1>1, <1>2, KeepTyped, KeepOnce
<1>8. ASSUME NEW c \in Calls, Call(c) \in ToSet(ForPrompt(h))
      PROVE  Precedes(ForPrompt(h), Call(c), Output(c))
  <2>1. Call(c) \in ToSet(e)
    BY <1>6, <1>8
  <2>2. Precedes(e, Call(c), Output(c)) /\ Call(c) \in K /\ Output(c) \in K
    BY <1>3, <1>4, <1>5, <2>1
  <2>. HIDE DEF e, K
  <2>. QED BY <1>1, <1>2, <2>2, KeepPrecedes
<1>9. ASSUME NEW c \in Calls, Output(c) \in ToSet(ForPrompt(h))
      PROVE  Call(c) \in ToSet(ForPrompt(h))
  BY <1>5, <1>6, <1>9
<1>10. ASSUME NEW L, L \subseteq NotOutputs
       PROVE  Keep(ForPrompt(h), L) = Keep(h, L)
  <2>1. Keep(ForPrompt(h), L) = Keep(e, K \intersect L)
    <3>. HIDE DEF e, K
    <3>. QED BY <1>1, <1>2, KeepAgain
  <2>2. K \intersect L = L
    BY <1>10 DEF NotOutputs
  <2>. QED BY <1>10, <2>1, <2>2, FillKeeps
<1>. QED BY <1>7, <1>8, <1>9, <1>10

(* forPrompt makes a well-formed prompt of every history in which no call  *)
(* and no output is recorded twice and no output before its call: each     *)
(* call gets one output after it, the outputs without a call go, and       *)
(* nothing else is lost or moved.                                          *)
THEOREM GoodPrompt ==
  ASSUME NEW h \in Seq(Items), Once(h, Loose), InOrder(h)
  PROVE  WellFormedPrompt(h)
<1>. DEFINE p == ForPrompt(h)
<1>1. /\ p \in Seq(Items)
      /\ Once(p, Loose)
      /\ \A c \in Calls :
           Call(c) \in ToSet(p) => Precedes(p, Call(c), Output(c))
      /\ \A c \in Calls : Output(c) \in ToSet(p) => Call(c) \in ToSet(p)
      /\ Keep(p, NotOutputs) = Keep(h, NotOutputs)
  BY PromptFacts
<1>. HIDE DEF p
<1>2. DOMAIN p = 1 .. Len(p) /\ Len(p) \in Nat
      /\ \A i \in DOMAIN p : p[i] \in Items /\ p[i] \in ToSet(p)
  BY <1>1, LenProperties, ElementOfSeq DEF ToSet
<1>3. \A c \in Calls : Call(c) \in Loose /\ Output(c) \in Loose
  BY ItemMembers, ItemFields DEF Loose
<1>4. ASSUME NEW i \in DOMAIN p, p[i].kind = "call"
      PROVE  \E j \in DOMAIN p :
               /\ j > i
               /\ \A k \in DOMAIN p : p[k] = Output(p[i].id) <=> k = j
  <2>1. PICK c \in Calls : c = p[i].id /\ p[i] = Call(c)
    BY <1>2, <1>4, ItemKinds
  <2>2. PICK m \in DOMAIN p, j \in DOMAIN p :
          m < j /\ p[m] = Call(c) /\ p[j] = Output(c)
    BY <1>1, <1>2, <2>1 DEF Precedes
  <2>3. m = i
    BY <1>1, <1>3, <2>1, <2>2 DEF Once
  <2>4. \A k, l \in DOMAIN p : p[k] = Output(c) /\ p[l] = p[k] => k = l
    BY <1>1, <1>3 DEF Once
  <2>5. j > i
    BY <1>2, <2>2, <2>3
  <2>. QED BY <2>1, <2>2, <2>4, <2>5
<1>5. ASSUME NEW i \in DOMAIN p, p[i].kind = "output"
      PROVE  HasCall(SubSeq(p, 1, i), p[i].id)
  <2>1. PICK c \in Calls : c = p[i].id /\ p[i] = Output(c)
    BY <1>2, <1>5, ItemKinds
  <2>2. PICK m \in DOMAIN p, j \in DOMAIN p :
          m < j /\ p[m] = Call(c) /\ p[j] = Output(c)
    BY <1>1, <1>2, <2>1 DEF Precedes
  <2>3. j = i
    BY <1>1, <1>3, <2>1, <2>2 DEF Once
  <2>4. i \in 0 .. Len(p) /\ m \in 1 .. i
    BY <1>2, <2>2, <2>3
  <2>5. m \in DOMAIN SubSeq(p, 1, i) /\ SubSeq(p, 1, i)[m] = p[m]
    BY <1>1, <2>4, PrefixFacts
  <2>. QED BY <2>1, <2>2, <2>5 DEF HasCall
<1>. QED BY <1>1, <1>4, <1>5 DEF WellFormedPrompt, p

-----------------------------------------------------------------------------
(* The rollout and the live history; rollback of items by kind; settings   *)
(* stated.                                                                 *)

(* User messages and summaries: the boundaries of user turns. *)
TurnItems == {item \in Items : IsUserTurnBoundary(item)}

(* All items but markers and the calls and outputs in L. *)
Kept(L) == Items \ (Markers \union L)

(* The rollout h reconstructs g, but for markers and for calls and outputs *)
(* L that were recorded while a compaction was being replaced; and so it   *)
(* will after a rollback of both.                                          *)
Agrees(h, g) ==
  \E L \in SUBSET Loose : /\ L \subseteq ToSet(h)
                          /\ Clean(h, Kept(L))
                          /\ Keep(h, Kept(L)) = Strip(g)

(* Items by their kinds. *)
LEMMA KindsApart ==
  ASSUME NEW x \in Items
  PROVE  /\ IsUserTurnBoundary(x) <=> x.kind \in {"user", "summary"}
         /\ IsContextual(x) <=> States(x) \/ x \in Markers
         /\ States(x) <=> x \in Statements
         /\ x \in Loose <=> x.kind \in {"call", "output"}
         /\ x \in Users <=> x.kind = "user"
         /\ x \in Markers <=> x.kind = "aborted"
         /\ x \in NotOutputs <=> x.kind # "output"
         /\ x \in TurnItems <=> x.kind \in {"user", "summary"}
         /\ \/ x \in TurnItems \/ x \in Statements
            \/ x \in Markers \/ x \in Loose
  BY ItemKinds DEF IsUserTurnBoundary, IsContextual, States, Statements,
     Loose, Users, Markers, NotOutputs, TurnItems

(* What Kept keeps. *)
LEMMA KeptFacts ==
  ASSUME NEW L \in SUBSET Loose
  PROVE  /\ \A x \in Items : IsUserTurnBoundary(x) => x \in Kept(L)
         /\ Statements \subseteq Kept(L)
         /\ Users \subseteq Kept(L)
         /\ \A x \in Items : IsContextual(x) \/ x \in Kept(L) \/ x \in L
         /\ Kept({}) = Items \ Markers
<1>1. \A x \in Items : IsUserTurnBoundary(x) => x \in Kept(L)
  BY KindsApart DEF Kept
<1>2. Statements \subseteq Items /\ Users \subseteq Items
  BY DEF Statements, Users
<1>3. Statements \subseteq Kept(L)
  BY <1>2, KindsApart, ItemKinds DEF Kept, States
<1>4. Users \subseteq Kept(L)
  BY <1>2, KindsApart DEF Kept
<1>5. \A x \in Items : IsContextual(x) \/ x \in Kept(L) \/ x \in L
  BY KindsApart DEF Kept
<1>6. Kept({}) = Items \ Markers
  BY DEF Kept
<1>. QED BY <1>1, <1>3, <1>4, <1>5, <1>6

(* A history is clean if nothing was lost, or no context was stated yet. *)
LEMMA CleanKept ==
  ASSUME NEW h \in Seq(Items), NEW L \in SUBSET Loose,
         L \intersect ToSet(h) = {} \/ ToSet(h) \intersect Statements = {}
  PROVE  Clean(h, Kept(L))
<1>1. SUFFICES ASSUME NEW i \in DOMAIN h, NEW j \in DOMAIN h,
                      IsContextual(h[i]), h[i] \in Kept(L),
                      ~IsContextual(h[j]), h[j] \notin Kept(L)
               PROVE  FALSE
  BY DEF Clean
<1>2. /\ h[i] \in Items /\ h[j] \in Items
      /\ h[i] \in ToSet(h) /\ h[j] \in ToSet(h)
  BY LenProperties, ElementOfSeq DEF ToSet
<1>3. h[j] \in L
  BY <1>1, <1>2, KeptFacts
<1>4. h[i] \in Statements
  BY <1>1, <1>2, KindsApart DEF Kept
<1>. QED BY <1>2, <1>3, <1>4

(* A rollback steps over markers. *)
LEMMA StripRest ==
  ASSUME NEW h \in Seq(Items), NEW n \in Nat \ {0}
  PROVE  Strip(Rest(h, n)) = Rest(Strip(h), n)
<1>1. {} \in SUBSET Loose /\ {} \intersect ToSet(h) = {}
  OBVIOUS
<1>2. Clean(h, Kept({}))
  BY <1>1, CleanKept
<1>3. \A x \in Items : IsUserTurnBoundary(x) => x \in Kept({})
  BY <1>1, KeptFacts
<1>4. Kept({}) = Items \ Markers
  BY <1>1, KeptFacts
<1>5. Keep(Rest(h, n), Kept({})) = Rest(Keep(h, Kept({})), n)
  BY <1>2, <1>3, KeepRest
<1>. QED BY <1>4, <1>5 DEF Strip

(* A rollback leaves a history, with nothing new in it. *)
LEMMA RestType ==
  ASSUME NEW S, NEW h \in Seq(S), NEW n \in Nat \ {0}
  PROVE  /\ Rest(h, n) \in Seq(S)
         /\ ToSet(Rest(h, n)) \subseteq ToSet(h)
<1>1. PICK k \in 0 .. Len(h) : Rest(h, n) = SubSeq(h, 1, k)
  BY RestIsPrefix
<1>. QED BY <1>1, PrefixFacts, PrefixRange

(* What occurs once occurs once after a rollback. *)
LEMMA RestOnce ==
  ASSUME NEW S, NEW h \in Seq(S), NEW n \in Nat \ {0}, NEW K, Once(h, K)
  PROVE  Once(Rest(h, n), K)
<1>1. PICK k \in 0 .. Len(h) : Rest(h, n) = SubSeq(h, 1, k)
  BY RestIsPrefix
<1>. QED BY <1>1, PrefixOnce

(* A rollback changes no order. *)
LEMMA RestInOrder ==
  ASSUME NEW h \in Seq(Items), NEW n \in Nat \ {0}
  PROVE  /\ InOrder(h) => InOrder(Rest(h, n))
         /\ Ordered(h) => Ordered(Rest(h, n))
<1>1. PICK k \in 0 .. Len(h) : Rest(h, n) = SubSeq(h, 1, k)
  BY RestIsPrefix
<1>2. DOMAIN SubSeq(h, 1, k) \subseteq DOMAIN h
      /\ \A i \in DOMAIN SubSeq(h, 1, k) : SubSeq(h, 1, k)[i] = h[i]
  BY PrefixFacts
<1>3. \A x, y : Precedes(SubSeq(h, 1, k), x, y) => Precedes(h, x, y)
  BY <1>2 DEF Precedes
<1>. QED BY <1>1, <1>3 DEF InOrder, Ordered

(* What is rolled back is gone, if it was recorded once. *)
LEMMA RestDrops ==
  ASSUME NEW S, NEW h \in Seq(S), NEW n \in Nat \ {0}, NEW K, Once(h, K),
         NEW x \in K
  PROVE  x \in ToSet(Rest(h, n))
           <=> x \in ToSet(h) /\ x \notin ToSet(Dropped(h, n))
<1>1. PICK k \in 0 .. Len(h) :
        /\ Rest(h, n) = SubSeq(h, 1, k)
        /\ ToSet(Dropped(h, n)) = {h[i] : i \in k + 1 .. Len(h)}
  BY RestIsPrefix
<1>2. Len(h) \in Nat /\ DOMAIN h = 1 .. Len(h)
  BY LenProperties
<1>3. ToSet(SubSeq(h, 1, k)) = {h[i] : i \in 1 .. k}
  <2>1. /\ DOMAIN SubSeq(h, 1, k) = 1 .. k
        /\ \A i \in 1 .. k : SubSeq(h, 1, k)[i] = h[i]
    BY PrefixFacts
  <2>. DEFINE g == SubSeq(h, 1, k)
  <2>2. DOMAIN g = 1 .. k /\ \A i \in 1 .. k : g[i] = h[i]
    BY <2>1
  <2>. HIDE DEF g
  <2>3. ToSet(g) = {h[i] : i \in 1 .. k}
    BY <2>2 DEF ToSet
  <2>. QED BY <2>3 DEF g
<1>4. \A i \in 1 .. Len(h) : i \in 1 .. k \/ i \in k + 1 .. Len(h)
  BY <1>2
<1>5. \A i \in 1 .. k : \A j \in k + 1 .. Len(h) :
        i \in 1 .. Len(h) /\ j \in 1 .. Len(h) /\ i # j
  BY <1>2
<1>6. \A i \in 1 .. k : i \in 1 .. Len(h)
  BY <1>2
<1>7. x \in ToSet(Rest(h, n)) => x \in ToSet(h)
  BY <1>1, <1>2, <1>3, <1>6 DEF ToSet
<1>8. ASSUME x \in ToSet(Rest(h, n)), x \in ToSet(Dropped(h, n)) PROVE FALSE
  <2>1. PICK i \in 1 .. k : h[i] = x
    BY <1>1, <1>3, <1>8
  <2>2. PICK j \in k + 1 .. Len(h) : h[j] = x
    BY <1>1, <1>8
  <2>. QED BY <1>2, <1>5, <2>1, <2>2 DEF Once
<1>9. ASSUME x \in ToSet(h), x \notin ToSet(Dropped(h, n))
      PROVE  x \in ToSet(Rest(h, n))
  <2>1. PICK i \in 1 .. Len(h) : h[i] = x
    BY <1>2, <1>9 DEF ToSet
  <2>2. i \in 1 .. k
    BY <1>1, <1>4, <1>9, <2>1
  <2>. QED BY <1>1, <1>3, <2>1, <2>2
<1>. QED BY <1>7, <1>8, <1>9
-----------------------------------------------------------------------------

(* A history reconstructs itself, *)
LEMMA AgreesSelf ==
  ASSUME NEW h \in Seq(Items)
  PROVE  Agrees(h, h)
<1>1. {} \in SUBSET Loose /\ {} \subseteq ToSet(h)
      /\ {} \intersect ToSet(h) = {}
  OBVIOUS
<1>2. Clean(h, Kept({})) /\ Kept({}) = Items \ Markers
  BY <1>1, CleanKept, KeptFacts
<1>. QED BY <1>1, <1>2 DEF Agrees, Strip

(* also after the same item was appended to both, *)
LEMMA AgreesAppend ==
  ASSUME NEW h \in Seq(Items), NEW g \in Seq(Items), NEW x \in Items,
         Agrees(h, g), x \notin Markers, x \in Loose => x \notin ToSet(h)
  PROVE  Agrees(Append(h, x), Append(g, x))
<1>1. PICK L \in SUBSET Loose : /\ L \subseteq ToSet(h)
                                /\ Clean(h, Kept(L))
                                /\ Keep(h, Kept(L)) = Strip(g)
  BY DEF Agrees
<1>2. x \in Kept(L) /\ x \in Items \ Markers
  BY <1>1 DEF Kept
<1>3. L \subseteq ToSet(Append(h, x))
  BY <1>1, ToSetAppend
<1>4. Clean(Append(h, x), Kept(L))
  BY <1>1, <1>2, CleanAppend
<1>5. Keep(Append(h, x), Kept(L)) = Append(Keep(h, Kept(L)), x)
  BY <1>2, KeepAppend
<1>6. Strip(Append(g, x)) = Append(Strip(g), x)
  BY <1>2, KeepAppend DEF Strip
<1>. QED BY <1>1, <1>3, <1>4, <1>5, <1>6 DEF Agrees

(* a marker was appended to the rollout alone, *)
LEMMA AgreesMarker ==
  ASSUME NEW h \in Seq(Items), NEW g \in Seq(Items), NEW x \in Markers,
         Agrees(h, g)
  PROVE  Agrees(Append(h, x), g)
<1>1. PICK L \in SUBSET Loose : /\ L \subseteq ToSet(h)
                                /\ Clean(h, Kept(L))
                                /\ Keep(h, Kept(L)) = Strip(g)
  BY DEF Agrees
<1>2. x \in Items /\ x \notin Kept(L) /\ IsContextual(x)
  BY KindsApart DEF Kept, Markers
<1>3. L \subseteq ToSet(Append(h, x))
  BY <1>1, <1>2, ToSetAppend
<1>4. Clean(Append(h, x), Kept(L))
  BY <1>1, <1>2, CleanAppend
<1>5. Keep(Append(h, x), Kept(L)) = Keep(h, Kept(L))
  BY <1>2, KeepAppend
<1>. QED BY <1>1, <1>3, <1>4, <1>5 DEF Agrees

(* or both were rolled back; *)
LEMMA AgreesRest ==
  ASSUME NEW h \in Seq(Items), NEW g \in Seq(Items), NEW n \in Nat \ {0},
         Agrees(h, g)
  PROVE  Agrees(Rest(h, n), Rest(g, n))
<1>1. PICK L \in SUBSET Loose : /\ L \subseteq ToSet(h)
                                /\ Clean(h, Kept(L))
                                /\ Keep(h, Kept(L)) = Strip(g)
  BY DEF Agrees
<1>. DEFINE r == Rest(h, n)
            M == L \intersect ToSet(r)
<1>2. PICK k \in 0 .. Len(h) : r = SubSeq(h, 1, k)
  BY RestIsPrefix
<1>3. r \in Seq(Items)
  BY RestType
<1>4. M \in SUBSET Loose /\ M \subseteq ToSet(r)
  BY <1>1
<1>5. \A x \in ToSet(r) : x \in Kept(L) <=> x \in Kept(M)
  BY DEF Kept
<1>6. Clean(r, Kept(L))
  <2>1. DOMAIN r \subseteq DOMAIN h /\ \A i \in DOMAIN r : r[i] = h[i]
    BY <1>2, PrefixFacts
  <2>. HIDE DEF r
  <2>. QED BY <1>1, <2>1 DEF Clean
<1>7. Clean(r, Kept(M))
  <2>1. \A i \in DOMAIN r : r[i] \in ToSet(r)
    BY DEF ToSet
  <2>. HIDE DEF r, M
  <2>. QED BY <1>5, <1>6, <2>1 DEF Clean
<1>8. Keep(r, Kept(M)) = Keep(r, Kept(L))
  <2>. HIDE DEF r, M
  <2>. QED BY <1>3, <1>5, KeepSame
<1>9. Keep(r, Kept(L)) = Rest(Keep(h, Kept(L)), n)
  BY <1>1, KeptFacts, KeepRest
<1>10. Keep(r, Kept(M)) = Strip(Rest(g, n))
  BY <1>1, <1>8, <1>9, StripRest
<1>. QED BY <1>4, <1>7, <1>10 DEF Agrees

(* and what a compaction built is reconstructed, whatever tools recorded   *)
(* since.                                                                  *)
LEMMA AgreesBuilt ==
  ASSUME NEW h \in Seq(Items), NEW g \in Seq(Items),
         ToSet(g) \subseteq TurnItems, Keep(h, TurnItems \union Statements) = g
  PROVE  Agrees(h, g)
<1>. DEFINE L == Loose \intersect ToSet(h)
<1>1. L \in SUBSET Loose /\ L \subseteq ToSet(h)
  OBVIOUS
<1>2. ToSet(g) = ToSet(h) \intersect (TurnItems \union Statements)
  BY KeepRange
<1>3. ToSet(h) \subseteq Items
  BY ToSetType
<1>4. ToSet(h) \intersect Statements = {}
  <2>1. \A x \in Statements : x \in Items /\ x \notin TurnItems
    BY KindsApart DEF Statements, States
  <2>. QED BY <1>2, <2>1
<1>5. Clean(h, Kept(L))
  <2>. HIDE DEF L
  <2>. QED BY <1>1, <1>4, CleanKept
<1>6. \A x \in ToSet(h) :
        x \in TurnItems \union Statements <=> x \in Kept(L)
  <2>1. SUFFICES ASSUME NEW x \in ToSet(h)
                 PROVE  x \in TurnItems \union Statements <=> x \in Kept(L)
    OBVIOUS
  <2>2. x \in Items
    BY <1>3
  <2>3. x \in TurnItems \union Statements
          <=> x.kind \in {"user", "summary", "initial", "update"}
    BY <2>2, KindsApart DEF States
  <2>4. x \in Kept(L) <=> x.kind \notin {"aborted", "call", "output"}
    BY <2>2, KindsApart DEF Kept
  <2>. QED BY <2>2, <2>3, <2>4, ItemKinds
<1>7. Keep(h, Kept(L)) = g
  <2>. HIDE DEF L
  <2>. QED BY <1>6, KeepSame
<1>8. ToSet(g) \subseteq Items \ Markers
  BY KindsApart DEF TurnItems
<1>9. Strip(g) = g
  BY <1>8, KeepAll DEF Strip
<1>. QED BY <1>1, <1>5, <1>7, <1>9 DEF Agrees

(* Histories that agree have the same user messages, in the same order, *)
LEMMA AgreesUsers ==
  ASSUME NEW h \in Seq(Items), NEW g \in Seq(Items), Agrees(h, g),
         NEW x \in Users
  PROVE  /\ x \in ToSet(h) <=> x \in ToSet(g)
         /\ \A y \in Users : Precedes(h, x, y) => Precedes(g, x, y)
<1>1. PICK L \in SUBSET Loose : Keep(h, Kept(L)) = Strip(g)
  BY DEF Agrees
<1>2. ToSet(Strip(g)) = ToSet(g) \intersect (Items \ Markers)
  BY KeepRange DEF Strip
<1>3. ToSet(Keep(h, Kept(L))) = ToSet(h) \intersect Kept(L)
  BY KeepRange
<1>4. x \in Kept(L) /\ x \in Items \ Markers
  BY KeptFacts, KindsApart DEF Users
<1>5. ASSUME NEW y \in Users, Precedes(h, x, y) PROVE Precedes(g, x, y)
  <2>1. y \in Kept(L)
    BY KeptFacts
  <2>2. Precedes(Strip(g), x, y)
    BY <1>1, <1>4, <1>5, <2>1, KeepPrecedes
  <2>. QED BY <2>2, KeepPrecedesOnly DEF Strip
<1>. QED BY <1>1, <1>2, <1>3, <1>4, <1>5
-----------------------------------------------------------------------------

(* What the history last stated, when an item is appended; *)
LEMMA StatedAppend ==
  ASSUME NEW h \in Seq(Items), NEW x \in Items
  PROVE  LastStated(Append(h, x)) = IF States(x) THEN x.id ELSE LastStated(h)
<1>1. Keep(h, Statements) \in Seq(Items)
  BY KeepTyped
<1>2. x \in Statements <=> States(x)
  BY KindsApart
<1>3. CASE States(x)
  <2>1. Keep(Append(h, x), Statements) = Append(Keep(h, Statements), x)
    BY <1>2, <1>3, KeepAppend
  <2>2. Append(Keep(h, Statements), x) # <<>>
    BY <1>1, AppendProperties
  <2>3. Last(Append(Keep(h, Statements), x)) = x
    BY <1>1, AppendFacts DEF Last
  <2>. QED BY <1>3, <2>1, <2>2, <2>3 DEF LastStated
<1>4. CASE ~States(x)
  <2>1. Keep(Append(h, x), Statements) = Keep(h, Statements)
    BY <1>2, <1>4, KeepAppend
  <2>. QED BY <1>4, <2>1 DEF LastStated
<1>. QED BY <1>3, <1>4

(* when it states nothing; *)
LEMMA StatedNone ==
  ASSUME NEW h \in Seq(Items), ToSet(h) \intersect Statements = {}
  PROVE  LastStated(h) = NoSettings
  BY KeepNone DEF LastStated

(* when nothing it states is rolled back. *)
LEMMA StatedRest ==
  ASSUME NEW h \in Seq(Items), NEW n \in Nat \ {0},
         \A x \in ToSet(Dropped(h, n)) : ~States(x)
  PROVE  LastStated(Rest(h, n)) = LastStated(h)
<1>1. PICK k \in 0 .. Len(h) :
        /\ Rest(h, n) = SubSeq(h, 1, k)
        /\ ToSet(Dropped(h, n)) = {h[i] : i \in k + 1 .. Len(h)}
  BY RestIsPrefix
<1>2. \A i \in k + 1 .. Len(h) : h[i] \notin Statements
  BY <1>1 DEF Statements
<1>3. Keep(SubSeq(h, 1, k), Statements) = Keep(h, Statements)
  BY <1>2, KeepPrefix
<1>. QED BY <1>1, <1>3 DEF LastStated

(* Histories that agree last stated the same. *)
LEMMA StatedAgrees ==
  ASSUME NEW h \in Seq(Items), NEW g \in Seq(Items), Agrees(h, g)
  PROVE  LastStated(h) = LastStated(g)
<1>1. PICK L \in SUBSET Loose : Keep(h, Kept(L)) = Strip(g)
  BY DEF Agrees
<1>2. {} \in SUBSET Loose
  OBVIOUS
<1>3. /\ Kept(L) \intersect Statements = Statements
      /\ (Items \ Markers) \intersect Statements = Statements
  BY <1>2, KeptFacts
<1>4. Keep(Keep(h, Kept(L)), Statements) = Keep(h, Statements)
  BY <1>3, KeepAgain
<1>5. Keep(Strip(g), Statements) = Keep(g, Statements)
  BY <1>3, KeepAgain DEF Strip
<1>. QED BY <1>1, <1>4, <1>5 DEF LastStated

-----------------------------------------------------------------------------
(* Rollback of the two histories. *)

(* The user messages of history h are those of the turns in its items. *)
LEMMA UserIds ==
  ASSUME NEW h \in Seq(Items)
  PROVE  /\ {item.id : item \in ToSet(UsersIn(h))}
              = {t \in Turns : User(t) \in ToSet(h)}
         /\ UsersIn(h) \in Seq(Users)
<1>1. ToSet(Keep(h, Users)) = ToSet(h) \intersect Users
  BY KeepRange
<1>2. Keep(h, Users) \in Seq(Items \intersect Users)
  BY KeepType
<1>3. Items \intersect Users = Users
  BY DEF Users
<1>4. \A x \in Users : x \in Items /\ x.id \in Turns /\ x = User(x.id)
  BY ItemKinds DEF Users
<1>5. \A t \in Turns : User(t) \in Users /\ User(t).id = t
  BY ItemMembers, ItemFields DEF Users
<1>. QED BY <1>1, <1>2, <1>3, <1>4, <1>5 DEF UsersIn

(* Messages in the order of their turns are there once. *)
LEMMA OrderedOnce ==
  ASSUME NEW h \in Seq(Items), Ordered(h)
  PROVE  Once(h, Users)
<1>1. SUFFICES ASSUME NEW i \in DOMAIN h, NEW j \in DOMAIN h, h[i] = h[j],
                      h[i] \in Users, i # j
               PROVE  FALSE
  BY DEF Once
<1>2. PICK t \in Turns : h[i] = User(t)
  BY <1>1, ItemKinds DEF Users
<1>3. i \in Nat /\ j \in Nat
  BY LenProperties
<1>4. i < j \/ j < i
  BY <1>1, <1>3
<1>5. Precedes(h, User(t), User(t))
  BY <1>1, <1>2, <1>4 DEF Precedes
<1>6. t \in Nat
  BY HistoryAssumption DEF Turns
<1>. QED BY <1>5, <1>6 DEF Ordered

(* A message of a later turn goes to the end. *)
LEMMA OrderedAppend ==
  ASSUME NEW h \in Seq(Items), NEW x \in Items, Ordered(h),
         \A t, u \in Turns : x = User(u) /\ User(t) \in ToSet(h) => t < u
  PROVE  Ordered(Append(h, x))
  BY PrecedesAppend DEF Ordered

(* What is selected of a history is in order if the history is. *)
LEMMA OrderedKeep ==
  ASSUME NEW h \in Seq(Items), NEW K, Ordered(h)
  PROVE  Ordered(Keep(h, K))
  BY KeepPrecedesOnly DEF Ordered

(* The messages a compaction keeps are some it has read; of messages in    *)
(* order, those whose later ones leave room for them.                      *)
LEMMA SelectFacts ==
  ASSUME NEW users \in Seq(Users)
  PROVE  /\ SelectRecentUserMessages(users) \in Seq(Users)
         /\ Ordered(users) =>
              /\ Ordered(SelectRecentUserMessages(users))
              /\ \A t \in Turns :
                   User(t) \in ToSet(SelectRecentUserMessages(users))
                     <=> /\ User(t) \in ToSet(users)
                         /\ {u \in Turns : u > t /\ User(u) \in ToSet(users)}
                              \in Room
<1>. DEFINE Later(i) == {users[j].id : j \in i + 1 .. Len(users)}
            fits == {i \in DOMAIN users : Later(i) \in Room}
            kept == SelectRecentUserMessages(users)
<1>1. Len(users) \in Nat /\ DOMAIN users = 1 .. Len(users)
  BY LenProperties
<1>2. \A i \in DOMAIN users :
        users[i] \in Users /\ users[i].id \in Turns
        /\ users[i] = User(users[i].id)
  BY ElementOfSeq, <1>1, ItemKinds DEF Users
<1>3. CASE users = <<>>
  <2>1. kept = <<>>
    BY <1>3 DEF SelectRecentUserMessages
  <2>2. ToSet(<<>>) = {}
    BY ToSetEmpty
  <2>3. <<>> \in Seq(Users) /\ Ordered(<<>>)
    BY EmptySeq DEF Ordered, Precedes
  <2>. QED BY <1>3, <2>1, <2>2, <2>3
<1>4. CASE users # <<>>
  <2>1. kept = SubSeq(users, Min(fits), Len(users))
    BY <1>4 DEF SelectRecentUserMessages
  <2>2. Len(users) \in DOMAIN users
    BY <1>1, <1>4, EmptySeq
  <2>3. Later(Len(users)) = {}
    BY <1>1
  <2>4. fits # {} /\ fits \subseteq Nat
    <3>1. Len(users) \in fits
      BY <2>2, <2>3, HistoryAssumption
    <3>2. fits \subseteq 1 .. Len(users)
      BY <1>1
    <3>. HIDE DEF fits
    <3>. QED BY <1>1, <3>1, <3>2
  <2>. DEFINE m == Min(fits)
  <2>5. m \in fits /\ \A i \in fits : m <= i
    <3>. HIDE DEF fits
    <3>. QED BY <2>4, MinFacts
  <2>. HIDE DEF m
  <2>6. m \in 1 .. Len(users) /\ Later(m) \in Room
    BY <1>1, <2>5
  <2>7. \A i \in m .. Len(users) : users[i] \in Users
    BY <1>1, <1>2, <2>6
  <2>8. /\ kept \in Seq(Users)
        /\ Len(kept) = Len(users) - m + 1
        /\ \A i \in 1 .. Len(users) - m + 1 : kept[i] = users[m + i - 1]
    <3>1. kept = SubSeq(users, m, Len(users))
      BY <2>1 DEF m
    <3>. HIDE DEF kept
    <3>. QED BY <1>1, <2>6, <2>7, <3>1, SubSeqProperties
  <2>9. DOMAIN kept = 1 .. Len(users) - m + 1
    BY <2>8, LenProperties
  <2>. HIDE DEF kept
  <2>10. ASSUME Ordered(users)
         PROVE  Ordered(kept)
    <3>1. SUFFICES ASSUME NEW t \in Turns, NEW u \in Turns,
                          Precedes(kept, User(t), User(u))
                   PROVE  Precedes(users, User(t), User(u))
      BY <2>10 DEF Ordered
    <3>2. PICK i \in 1 .. Len(users) - m + 1, j \in 1 .. Len(users) - m + 1 :
            i < j /\ kept[i] = User(t) /\ kept[j] = User(u)
      BY <2>9, <3>1 DEF Precedes
    <3>3. /\ users[m + i - 1] = User(t) /\ users[m + j - 1] = User(u)
          /\ m + i - 1 \in 1 .. Len(users) /\ m + j - 1 \in 1 .. Len(users)
          /\ m + i - 1 < m + j - 1
      BY <1>1, <2>6, <2>8, <3>2
    <3>. QED BY <1>1, <3>3 DEF Precedes
  <2>11. ASSUME NEW i \in DOMAIN users PROVE i >= m <=> Later(i) \in Room
    <3>1. ASSUME i >= m PROVE Later(i) \in Room
      <4>1. \A j \in i + 1 .. Len(users) : j \in m + 1 .. Len(users)
        BY <1>1, <2>6, <3>1
      <4>2. Later(i) \subseteq Later(m)
        BY <4>1
      <4>. HIDE DEF Later
      <4>. QED BY <2>6, <4>2, HistoryAssumption
    <3>2. ASSUME Later(i) \in Room PROVE i >= m
      BY <1>1, <2>5, <2>6, <3>2
    <3>. QED BY <3>1, <3>2
  <2>12. ASSUME Ordered(users), NEW t \in Turns, NEW i \in DOMAIN users,
                users[i] = User(t)
         PROVE  Later(i) = {u \in Turns : u > t /\ User(u) \in ToSet(users)}
    <3>1. ASSUME NEW j \in i + 1 .. Len(users)
          PROVE  /\ users[j].id \in Turns /\ users[j].id > t
                 /\ User(users[j].id) \in ToSet(users)
      <4>1. j \in DOMAIN users /\ i < j
        BY <1>1, <3>1
      <4>2. Precedes(users, User(t), User(users[j].id))
        BY <1>2, <2>12, <4>1 DEF Precedes
      <4>3. t < users[j].id
        BY <1>2, <2>12, <4>1, <4>2 DEF Ordered
      <4>. QED BY <1>2, <4>1, <4>3 DEF ToSet
    <3>2. ASSUME NEW u \in Turns, u > t, User(u) \in ToSet(users)
          PROVE  u \in Later(i)
      <4>1. PICK j \in DOMAIN users : users[j] = User(u)
        BY <3>2 DEF ToSet
      <4>2. u \in Nat /\ t \in Nat
        BY HistoryAssumption DEF Turns
      <4>3. j # i
        BY <2>12, <3>2, <4>1, <4>2, ItemFields
      <4>4. CASE j < i
        <5>1. Precedes(users, User(u), User(t))
          BY <2>12, <4>1, <4>4 DEF Precedes
        <5>. QED BY <2>12, <3>2, <4>2, <5>1 DEF Ordered
      <4>5. CASE i < j
        <5>1. j \in i + 1 .. Len(users)
          BY <1>1, <4>5
        <5>2. users[j].id = u
          BY <4>1, ItemFields
        <5>. QED BY <5>1, <5>2
      <4>. QED BY <1>1, <4>3, <4>4, <4>5
    <3>. QED BY <3>1, <3>2
  <2>13. ASSUME Ordered(users), NEW t \in Turns
         PROVE  User(t) \in ToSet(kept)
                  <=> /\ User(t) \in ToSet(users)
                      /\ {u \in Turns : u > t /\ User(u) \in ToSet(users)}
                           \in Room
    <3>. DEFINE newer == {u \in Turns : u > t /\ User(u) \in ToSet(users)}
    <3>. HIDE DEF newer
    <3>1. ASSUME NEW i \in DOMAIN users, users[i] = User(t)
          PROVE  i >= m <=> newer \in Room
      BY <2>11, <2>12, <2>13, <3>1 DEF newer
    <3>2. ASSUME User(t) \in ToSet(kept)
          PROVE  User(t) \in ToSet(users) /\ newer \in Room
      <4>1. PICK i \in 1 .. Len(users) - m + 1 : kept[i] = User(t)
        BY <2>9, <3>2 DEF ToSet
      <4>2. /\ m + i - 1 \in DOMAIN users /\ users[m + i - 1] = User(t)
            /\ m + i - 1 >= m
        BY <1>1, <2>6, <2>8, <4>1
      <4>. QED BY <3>1, <4>2 DEF ToSet
    <3>3. ASSUME User(t) \in ToSet(users), newer \in Room
          PROVE  User(t) \in ToSet(kept)
      <4>1. PICK i \in DOMAIN users : users[i] = User(t)
        BY <3>3 DEF ToSet
      <4>2. i >= m
        BY <3>1, <3>3, <4>1
      <4>3. i - m + 1 \in 1 .. Len(users) - m + 1 /\ m + (i - m + 1) - 1 = i
        BY <1>1, <2>6, <4>1, <4>2
      <4>4. kept[i - m + 1] = User(t)
        BY <2>8, <4>1, <4>3
      <4>. QED BY <2>9, <4>3, <4>4 DEF ToSet
    <3>. QED BY <3>2, <3>3 DEF newer
  <2>. QED BY <2>8, <2>10, <2>13 DEF kept
<1>. QED BY <1>3, <1>4

(* A rollback of n turns leaves what Rest leaves, in both histories. *)
LEMMA DropIs ==
  ASSUME NEW h \in Seq(Items), NEW s, NEW n,
         NEW m, m = [history |-> h, reference |-> s]
  PROVE  /\ DropLastNUserTurns(m, n)
              = [history |-> Rest(h, n), reference |-> s]
         /\ DropLive(m, n).history = Rest(h, n)
         /\ DropLive(m, n).reference \in {s, NoSettings}
         /\ DropLive(m, n) = [history |-> DropLive(m, n).history,
                              reference |-> DropLive(m, n).reference]
<1>1. m.history = h /\ m.reference = s
  OBVIOUS
<1>2. DropLastNUserTurns(m, n) = [history |-> Rest(h, n), reference |-> s]
  <2>1. CASE HasTurn(h)
    BY <1>1, <2>1 DEF DropLastNUserTurns, Rest, HasTurn
  <2>2. CASE ~HasTurn(h)
    BY <1>1, <2>2 DEF DropLastNUserTurns, Rest, HasTurn
  <2>. QED BY <2>1, <2>2
<1>. QED BY <1>1, <1>2 DEF DropLive

=============================================================================
