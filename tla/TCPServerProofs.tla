--------------------------- MODULE TCPServerProofs ---------------------------
(***************************************************************************)
(* For any connections, senders, sizes, rooms and bounds: the bytes reach  *)
(* the peer in the order of the calls of send, the pending bytes are       *)
(* counted, and what goes wrong in the tables and their asserts goes wrong *)
(* after an early loss only.                                               *)
(*                                                                         *)
(* Stream = Types and, for every connection, Queue: what was submitted is  *)
(* what the kernel took and what waits. Tables = as long as nobody was     *)
(* lost early, Tabled: the acceptor's and the loop's progress against the  *)
(* tables. The first section is about FlattenSeq: it is the last of a      *)
(* chain of concatenations, and so takes a buffer at either end.           *)
(***************************************************************************)
EXTENDS TCPServer, SequenceTheorems, FiniteSetTheorems, TLAPS

-----------------------------------------------------------------------------
(* FlattenSeq. *)

\* Every set of numbers that is not empty has a least one: the intervals 0..n are ordered
\* by inclusion, which is well-founded on finite sets.
LEMMA LeastNumber ==
  ASSUME NEW H \in SUBSET Nat, H # {}
  PROVE  \E n \in H : \A m \in H : n <= m
<1> DEFINE T == {0..n : n \in H}
<1>1. ASSUME NEW n \in H PROVE 0..n \in FiniteSubsetsOf(Nat)
  <2>1. IsFiniteSet(0..n) /\ 0..n \in SUBSET Nat
    BY FS_Interval
  <2> QED
    BY <2>1 DEF FiniteSubsetsOf
<1>2. T \subseteq FiniteSubsetsOf(Nat) /\ T # {}
  BY <1>1
<1>3. PICK t \in T : \A u \in T : ~ (<<u, t>> \in StrictSubsetOrdering(Nat))
  <2> HIDE DEF T
  <2> QED
    BY <1>2, FS_StrictSubsetOrderingWellFounded, WFMin
<1>4. PICK n \in H : t = 0..n
  OBVIOUS
<1>5. ASSUME NEW m \in H, m < n PROVE FALSE
  <2>1. 0..m \in SUBSET Nat /\ 0..n \in SUBSET Nat /\ 0..m \subseteq 0..n
    BY <1>5
  <2>2. n \in 0..n /\ n \notin 0..m
    BY <1>5
  <2>3. <<0..m, 0..n>> \in StrictSubsetOrdering(Nat)
    BY <2>1, <2>2 DEF StrictSubsetOrdering
  <2> QED
    BY <1>3, <1>4, <2>3
<1> QED
  BY <1>5

\* g[i] is the concatenation of the first i sequences of q.
Chain(g, q) == g = [i \in 1..Len(q) |-> IF i = 1 THEN q[i] ELSE g[i - 1] \o q[i]]

\* A chain exists for every sequence of sequences.
LEMMA ChainExists ==
  ASSUME NEW S, NEW q \in Seq(Seq(S))
  PROVE  \E g : Chain(g, q)
<1> DEFINE n == Len(q)
           P(k) == \E g : g = [i \in 1..k |-> IF i = 1 THEN q[i] ELSE g[i - 1] \o q[i]]
           H == {k \in 0..n : ~ P(k)}
<1>1. n \in Nat
  OBVIOUS
<1>2. P(0)
  <2>1. [i \in 1..0 |-> q[i]] =
          [i \in 1..0 |-> IF i = 1 THEN q[i] ELSE [j \in 1..0 |-> q[j]][i - 1] \o q[i]]
    OBVIOUS
  <2> QED
    BY <2>1
<1>3. ASSUME NEW k \in Nat, P(k) PROVE P(k + 1)
  <2>1. PICK g : g = [i \in 1..k |-> IF i = 1 THEN q[i] ELSE g[i - 1] \o q[i]]
    BY <1>3
  <2> DEFINE h == [i \in 1..(k + 1) |-> IF i \in 1..k THEN g[i]
                                        ELSE IF i = 1 THEN q[i] ELSE g[i - 1] \o q[i]]
  <2>2. h = [i \in 1..(k + 1) |-> h[i]]
    OBVIOUS
  <2>3. ASSUME NEW i \in 1..(k + 1) PROVE h[i] = IF i = 1 THEN q[i] ELSE h[i - 1] \o q[i]
    <3>1. i # 1 => i - 1 \in 1..k /\ h[i - 1] = g[i - 1]
      OBVIOUS
    <3>2. CASE i \in 1..k
      BY <2>1, <3>1, <3>2
    <3>3. CASE i \notin 1..k
      BY <3>1, <3>3
    <3> QED
      BY <3>2, <3>3
  <2> HIDE DEF h
  <2>4. h = [i \in 1..(k + 1) |-> IF i = 1 THEN q[i] ELSE h[i - 1] \o q[i]]
    BY <2>2, <2>3
  <2> QED
    BY <2>4
<1>4. H = {}
  <2> SUFFICES ASSUME H # {} PROVE FALSE
    OBVIOUS
  <2>1. PICK m \in H : \A l \in H : m <= l
    <3>1. H \in SUBSET Nat
      <4> HIDE DEF P
      <4> QED
        BY <1>1
    <3> HIDE DEF H
    <3> QED
      BY <3>1, LeastNumber
  <2>2. m \in 0..n /\ ~ P(m)
    OBVIOUS
  <2> HIDE DEF P
  <2>3. m # 0
    BY <1>2, <2>2
  <2>4. m - 1 \in 0..n /\ m - 1 \in Nat /\ ~ (m <= m - 1)
    BY <1>1, <2>2, <2>3
  <2>5. P(m - 1)
    BY <2>1, <2>4
  <2>6. P((m - 1) + 1)
    BY <1>3, <2>4, <2>5
  <2> QED
    BY <1>1, <2>2, <2>6
<1>5. P(n)
  <2> HIDE DEF P
  <2> QED
    BY <1>1, <1>4
<1> QED
  BY <1>5 DEF Chain

\* FlattenSeq is the last of the chain.
LEMMA FlattenIsChain ==
  ASSUME NEW S, NEW q \in Seq(Seq(S)), q # <<>>
  PROVE  \E g : Chain(g, q) /\ FlattenSeq(q) = g[Len(q)]
<1> DEFINE flat == CHOOSE f : f = [i \in 1..Len(q) |-> IF i = 1 THEN q[i] ELSE f[i - 1] \o q[i]]
<1>1. FlattenSeq(q) = flat[Len(q)]
  BY DEF FlattenSeq
<1>2. PICK g : Chain(g, q)
  BY ChainExists
<1>3. g = [i \in 1..Len(q) |-> IF i = 1 THEN q[i] ELSE g[i - 1] \o q[i]]
  BY <1>2 DEF Chain
<1>4. flat = [i \in 1..Len(q) |-> IF i = 1 THEN q[i] ELSE flat[i - 1] \o q[i]]
  BY <1>3
<1> QED
  BY <1>1, <1>4 DEF Chain

\* The chains of two sequences agree as far as the sequences do.
LEMMA ChainsAgree ==
  ASSUME NEW q, NEW r, NEW g, NEW h, Chain(g, q), Chain(h, r), Len(q) \in Nat, Len(r) \in Nat,
         Len(q) <= Len(r), \A i \in 1..Len(q) : q[i] = r[i]
  PROVE  \A i \in 1..Len(q) : g[i] = h[i]
<1> DEFINE H == {i \in 1..Len(q) : g[i] # h[i]}
<1> SUFFICES ASSUME H # {} PROVE FALSE
  OBVIOUS
<1>1. PICK m \in H : \A l \in H : m <= l
  <2>1. H \in SUBSET Nat
    OBVIOUS
  <2> HIDE DEF H
  <2> QED
    BY <2>1, LeastNumber
<1>2. m \in 1..Len(q) /\ g[m] # h[m] /\ m \in 1..Len(q) /\ m \in 1..Len(r) /\ q[m] = r[m]
  OBVIOUS
<1>3. /\ g[m] = IF m = 1 THEN q[m] ELSE g[m - 1] \o q[m]
      /\ h[m] = IF m = 1 THEN r[m] ELSE h[m - 1] \o r[m]
  BY <1>2 DEF Chain
<1>4. m # 1
  BY <1>2, <1>3
<1>5. m - 1 \in 1..Len(q) /\ ~ (m <= m - 1)
  BY <1>2, <1>4
<1>6. g[m - 1] = h[m - 1]
  BY <1>1, <1>5
<1> QED
  BY <1>2, <1>3, <1>4, <1>6

\* Every link of a chain is a sequence.
LEMMA ChainType ==
  ASSUME NEW S, NEW q \in Seq(Seq(S)), NEW g, Chain(g, q)
  PROVE  \A i \in 1..Len(q) : g[i] \in Seq(S)
<1> DEFINE H == {i \in 1..Len(q) : g[i] \notin Seq(S)}
<1> SUFFICES ASSUME H # {} PROVE FALSE
  OBVIOUS
<1>0. Len(q) \in Nat
  OBVIOUS
<1>1. PICK m \in H : \A l \in H : m <= l
  <2>1. H \in SUBSET Nat
    BY <1>0
  <2> HIDE DEF H
  <2> QED
    BY <2>1, LeastNumber
<1>2. m \in 1..Len(q) /\ g[m] \notin Seq(S) /\ q[m] \in Seq(S)
  BY ElementOfSeq
<1>3. g[m] = IF m = 1 THEN q[m] ELSE g[m - 1] \o q[m]
  BY <1>2 DEF Chain
<1>4. m # 1
  BY <1>2, <1>3
<1>5. m - 1 \in 1..Len(q) /\ ~ (m <= m - 1)
  BY <1>0, <1>2, <1>4
<1>6. g[m - 1] \in Seq(S)
  BY <1>1, <1>5
<1>7. g[m] = g[m - 1] \o q[m]
  BY <1>3, <1>4
<1> QED
  BY <1>2, <1>6, <1>7, ConcatProperties

\* What is concatenated is a sequence.
LEMMA FlattenType ==
  ASSUME NEW S, NEW q \in Seq(Seq(S))
  PROVE  FlattenSeq(q) \in Seq(S)
<1>1. CASE q = <<>>
  <2>1. FlattenSeq(q) = <<>>
    BY <1>1 DEF FlattenSeq
  <2> QED
    BY <2>1, EmptySeq
<1>2. CASE q # <<>>
  <2>1. PICK g : Chain(g, q) /\ FlattenSeq(q) = g[Len(q)]
    BY <1>2, FlattenIsChain
  <2>2. Len(q) \in 1..Len(q)
    BY <1>2
  <2> QED
    BY <2>1, <2>2, ChainType
<1> QED
  BY <1>1, <1>2

LEMMA FlattenEmpty == FlattenSeq(<<>>) = <<>>
BY DEF FlattenSeq

\* A buffer more at the end.
LEMMA FlattenAppend ==
  ASSUME NEW S, NEW q \in Seq(Seq(S)), NEW b \in Seq(S)
  PROVE  FlattenSeq(Append(q, b)) = FlattenSeq(q) \o b
<1> DEFINE r == Append(q, b)
<1>0. Len(q) \in Nat /\ (q = <<>> <=> Len(q) = 0)
  OBVIOUS
<1>1. /\ r \in Seq(Seq(S)) /\ r # <<>> /\ Len(r) = Len(q) + 1 /\ r[Len(q) + 1] = b
      /\ \A i \in 1..Len(q) : r[i] = q[i]
  BY AppendProperties
<1> HIDE DEF r
<1>2. PICK h : Chain(h, r) /\ FlattenSeq(r) = h[Len(r)]
  BY <1>1, FlattenIsChain
<1>3. h[Len(r)] = IF Len(r) = 1 THEN b ELSE h[Len(q)] \o b
  <2>1. Len(r) \in 1..Len(r) /\ Len(r) - 1 = Len(q)
    BY <1>0, <1>1
  <2>2. h[Len(r)] = IF Len(r) = 1 THEN r[Len(r)] ELSE h[Len(r) - 1] \o r[Len(r)]
    BY <1>2, <2>1 DEF Chain
  <2> QED
    BY <1>1, <2>1, <2>2
<1>4. CASE q = <<>>
  <2>1. FlattenSeq(r) = b
    BY <1>0, <1>1, <1>2, <1>3, <1>4
  <2>2. FlattenSeq(q) \o b = b
    BY <1>4, FlattenEmpty, ConcatEmptySeq
  <2> QED
    BY <2>1, <2>2 DEF r
<1>5. CASE q # <<>>
  <2>1. PICK g : Chain(g, q) /\ FlattenSeq(q) = g[Len(q)]
    BY <1>5, FlattenIsChain
  <2>2. \A i \in 1..Len(q) : g[i] = h[i]
    <3>1. Len(q) <= Len(q) /\ Len(q) <= Len(r) /\ q \in Seq(Seq(S)) /\ r \in Seq(Seq(S))
      BY <1>0, <1>1
    <3>2. \A i \in 1..Len(q) : q[i] = r[i]
      BY <1>1
    <3>3. Chain(g, q) /\ Chain(h, r)
      BY <1>2, <2>1
    <3>4. Len(q) \in Nat /\ Len(r) \in Nat /\ Len(q) <= Len(r)
      BY <1>0, <1>1
    <3> QED
      BY <3>2, <3>3, <3>4, ChainsAgree
  <2>3. g[Len(q)] = h[Len(q)] /\ Len(r) # 1
    BY <1>0, <1>1, <1>5, <2>2
  <2> QED
    BY <1>2, <1>3, <2>1, <2>3 DEF r
<1> QED
  BY <1>4, <1>5

\* The first buffer, and the others.
LEMMA FlattenTail ==
  ASSUME NEW S, NEW q \in Seq(Seq(S)), q # <<>>
  PROVE  FlattenSeq(q) = Head(q) \o FlattenSeq(Tail(q))
<1> DEFINE r == Tail(q)
           a == Head(q)
<1>0. Len(q) \in Nat /\ Len(q) > 0 /\ a = q[1]
  OBVIOUS
<1>1. /\ a \in Seq(S) /\ r \in Seq(Seq(S)) /\ Len(r) = Len(q) - 1
      /\ \A i \in 1..Len(r) : r[i] = q[i + 1]
  BY HeadTailProperties
<1> HIDE DEF r, a
<1>2. PICK g : Chain(g, q) /\ FlattenSeq(q) = g[Len(q)]
  BY FlattenIsChain
<1>3. g[1] = a
  <2>1. 1 \in 1..Len(q)
    BY <1>0
  <2> QED
    BY <1>0, <1>2, <2>1 DEF Chain
<1>6. ASSUME NEW s \in Seq(S), NEW t \in Seq(S), NEW u \in Seq(S)
      PROVE  (s \o t) \o u = s \o (t \o u)
  BY ConcatAssociative
<1>4. CASE r = <<>>
  <2>1. Len(q) = 1
    BY <1>0, <1>1, <1>4
  <2> QED
    BY <1>1, <1>2, <1>3, <1>4, <2>1, FlattenEmpty, ConcatEmptySeq DEF r, a
<1>5. CASE r # <<>>
  <2>1. PICK h : Chain(h, r) /\ FlattenSeq(r) = h[Len(r)]
    BY <1>1, <1>5, FlattenIsChain
  <2>2. \A i \in 1..Len(r) : h[i] \in Seq(S)
    BY <1>1, <2>1, ChainType
  <2> DEFINE H == {i \in 1..Len(r) : g[i + 1] # a \o h[i]}
  <2>3. H = {}
    <3> SUFFICES ASSUME H # {} PROVE FALSE
      OBVIOUS
    <3>1. PICK m \in H : \A l \in H : m <= l
      <4>1. H \in SUBSET Nat
        <5>1. Len(r) \in Nat /\ 1..Len(r) \subseteq Nat
          BY <1>0, <1>1
        <5>2. H \subseteq 1..Len(r)
          OBVIOUS
        <5> HIDE DEF H
        <5> QED
          BY <5>1, <5>2
      <4> HIDE DEF H
      <4> QED
        BY <4>1, LeastNumber
    <3>2. m \in 1..Len(r) /\ g[m + 1] # a \o h[m] /\ r[m] \in Seq(S) /\ r[m] = q[m + 1]
      BY <1>1, ElementOfSeq
    <3>3. m + 1 \in 1..Len(q) /\ (m + 1) - 1 = m /\ m + 1 # 1
      BY <1>0, <1>1, <3>2
    <3>4. g[m + 1] = g[m] \o r[m]
      <4>1. g[m + 1] = IF m + 1 = 1 THEN q[m + 1] ELSE g[(m + 1) - 1] \o q[m + 1]
        BY <1>2, <3>3 DEF Chain
      <4> QED
        BY <3>2, <3>3, <4>1
    <3>5. h[m] = IF m = 1 THEN r[m] ELSE h[m - 1] \o r[m]
      BY <2>1, <3>2 DEF Chain
    <3>6. CASE m = 1
      BY <1>3, <3>2, <3>4, <3>5, <3>6
    <3>7. CASE m # 1
      <4>1. m - 1 \in 1..Len(r) /\ ~ (m <= m - 1) /\ (m - 1) + 1 = m
        BY <1>0, <1>1, <3>2, <3>7
      <4>2. g[m] = a \o h[m - 1] /\ h[m - 1] \in Seq(S)
        BY <2>2, <3>1, <4>1
      <4>3. (a \o h[m - 1]) \o r[m] = a \o (h[m - 1] \o r[m])
        BY <1>1, <1>6, <3>2, <4>2
      <4> QED
        BY <3>2, <3>4, <3>5, <3>7, <4>2, <4>3
    <3> QED
      BY <3>6, <3>7
  <2>4. Len(r) \in 1..Len(r) /\ Len(r) + 1 = Len(q)
    BY <1>0, <1>1, <1>5
  <2>5. g[Len(r) + 1] = a \o h[Len(r)]
    BY <2>3, <2>4
  <2> QED
    BY <1>2, <2>1, <2>4, <2>5 DEF r, a
<1> QED
  BY <1>4, <1>5

LEMMA Assoc ==
  ASSUME NEW S
  PROVE  \A s, t, u \in Seq(S) : (s \o t) \o u = s \o (t \o u)
BY ConcatAssociative

\* A buffer put in front is the head.
LEMMA Prepended ==
  ASSUME NEW S, NEW a \in S, NEW q \in Seq(S)
  PROVE  /\ <<a>> \o q \in Seq(S) /\ <<a>> \o q # <<>>
         /\ Head(<<a>> \o q) = a /\ Tail(<<a>> \o q) = q
<1> DEFINE r == <<a>> \o q
<1>1. <<a>> \in Seq(S) /\ Len(<<a>>) = 1 /\ <<a>>[1] = a /\ Len(q) \in Nat
  OBVIOUS
<1>2. /\ r \in Seq(S) /\ Len(r) = 1 + Len(q)
      /\ \A i \in 1..(1 + Len(q)) : r[i] = IF i <= 1 THEN <<a>>[i] ELSE q[i - 1]
  BY <1>1, ConcatProperties
<1> HIDE DEF r
<1>3. r # <<>> /\ r[1] = a
  BY <1>1, <1>2
<1>4. Head(r) = a
  BY <1>2, <1>3
<1>5. Tail(r) \in Seq(S) /\ Len(Tail(r)) = Len(q) /\ \A i \in 1..Len(q) : Tail(r)[i] = r[i + 1]
  BY <1>1, <1>2, <1>3, HeadTailProperties
<1>6. ASSUME NEW i \in 1..Len(q) PROVE Tail(r)[i] = q[i]
  <2>1. i + 1 \in 1..(1 + Len(q)) /\ ~ (i + 1 <= 1) /\ (i + 1) - 1 = i
    BY <1>1
  <2> QED
    BY <1>2, <1>5, <2>1
<1>7. Tail(r) = q
  BY <1>5, <1>6, SeqEqual
<1> QED
  BY <1>2, <1>3, <1>4, <1>7 DEF r

\* The numbers of the buffers.
Numbers == 1..MaxSends

\* Concatenation, under a name that the provers do not expand into elements.
Cat(a, b) == a \o b

\* Bytes change sides between what is taken and what waits.
LEMMA Regroup ==
  \A w, a, b, z \in Seq(Numbers) :
    /\ Cat(Cat(w, a), Cat(b, z)) = Cat(w, Cat(Cat(a, b), z))
    /\ Len(Cat(Cat(a, b), z)) = Len(a) + Len(Cat(b, z))
<1> TAKE w, a, b, z \in Seq(Numbers)
<1>1. a \o b \in Seq(Numbers) /\ b \o z \in Seq(Numbers)
  BY ConcatProperties
<1>2. (a \o b) \o z = a \o (b \o z)
  BY Assoc
<1>0. \A v \in Seq(Numbers) : (w \o a) \o v = w \o (a \o v)
  BY Assoc
<1>3. (w \o a) \o (b \o z) = w \o (a \o (b \o z))
  BY <1>0, <1>1
<1>4. Len(a \o (b \o z)) = Len(a) + Len(b \o z)
  BY <1>1, ConcatProperties
<1> QED
  BY <1>2, <1>3, <1>4 DEF Cat

\* What is transmitted moves from the first buffer to the bytes taken.
\* What may be left of the queue `ts` when `rest` is left of its first buffer.
Left(ts, rest) == {Cat(<<rest>>, Tail(ts))} \cup (IF rest = <<>> THEN {Tail(ts)} ELSE {})

\* What is transmitted moves from the first buffer to the bytes taken.
LEMMA FlattenMoves ==
  \A ts \in Seq(Seq(Numbers)), w, taken, rest \in Seq(Numbers) :
    ts # <<>> /\ Cat(taken, rest) = Head(ts) =>
      \A us \in Left(ts, rest) :
        /\ us \in Seq(Seq(Numbers)) /\ (us = Cat(<<rest>>, Tail(ts)) => us # <<>>)
        /\ Cat(Cat(w, taken), FlattenSeq(us)) = Cat(w, FlattenSeq(ts))
        /\ Len(FlattenSeq(us)) \in Nat
        /\ Len(FlattenSeq(ts)) = Len(taken) + Len(FlattenSeq(us))
<1>1. SUFFICES ASSUME NEW ts \in Seq(Seq(Numbers)),
                      NEW w \in Seq(Numbers), NEW taken \in Seq(Numbers),
                        NEW rest \in Seq(Numbers),
                      ts # <<>>, Cat(taken, rest) = Head(ts), NEW us \in Left(ts, rest)
               PROVE  /\ us \in Seq(Seq(Numbers)) /\ (us = Cat(<<rest>>, Tail(ts)) => us # <<>>)
                      /\ Cat(Cat(w, taken), FlattenSeq(us)) = Cat(w, FlattenSeq(ts))
                      /\ Len(FlattenSeq(us)) \in Nat
                      /\ Len(FlattenSeq(ts)) = Len(taken) + Len(FlattenSeq(us))
  OBVIOUS
<1> DEFINE tail == Tail(ts)
           z == FlattenSeq(tail)
<1>2. tail \in Seq(Seq(Numbers))
  BY <1>1, HeadTailProperties
<1>3. z \in Seq(Numbers)
  BY <1>2, FlattenType
<1>4. FlattenSeq(ts) = Cat(Cat(taken, rest), z)
  BY <1>1, FlattenTail DEF Cat
<1>5. us = Cat(<<rest>>, tail) \/ (rest = <<>> /\ us = tail)
  BY <1>1 DEF Left
<1> HIDE DEF tail
<1>6. /\ Cat(<<rest>>, tail) \in Seq(Seq(Numbers)) /\ Cat(<<rest>>, tail) # <<>>
      /\ Head(Cat(<<rest>>, tail)) = rest /\ Tail(Cat(<<rest>>, tail)) = tail
  <2> DEFINE T == Seq(Numbers)
  <2>1. rest \in T /\ tail \in Seq(T)
    BY <1>1, <1>2
  <2> HIDE DEF T
  <2>2. /\ Cat(<<rest>>, tail) \in Seq(T) /\ Cat(<<rest>>, tail) # <<>>
        /\ Head(Cat(<<rest>>, tail)) = rest /\ Tail(Cat(<<rest>>, tail)) = tail
    BY <2>1, Prepended DEF Cat
  <2> QED
    BY <2>2 DEF T
<1>7. FlattenSeq(Cat(<<rest>>, tail)) = Cat(rest, z)
  BY <1>6, FlattenTail DEF Cat
<1>8. us \in Seq(Seq(Numbers)) /\ FlattenSeq(us) = Cat(rest, z)
  <2>1. CASE us = Cat(<<rest>>, tail)
    BY <1>6, <1>7, <2>1
  <2>2. CASE rest = <<>> /\ us = tail
    <3>1. Cat(<<>>, z) = z
      BY <1>3, ConcatEmptySeq DEF Cat
    <3> QED
      BY <1>2, <2>2, <3>1
  <2> QED
    BY <1>5, <2>1, <2>2
<1> HIDE DEF z
<1>9. us = Cat(<<rest>>, tail) => us # <<>>
  BY <1>6
<1>10. /\ Cat(Cat(w, taken), Cat(rest, z)) = Cat(w, Cat(Cat(taken, rest), z))
       /\ Len(Cat(Cat(taken, rest), z)) = Len(taken) + Len(Cat(rest, z))
  <2>1. w \in Seq(Numbers) /\ taken \in Seq(Numbers) /\ rest \in Seq(Numbers)
    BY <1>1
  <2> QED
    BY <2>1, <1>3, Regroup
<1>11. Len(Cat(rest, z)) \in Nat
  BY <1>1, <1>3, ConcatProperties DEF Cat
<1> QED
  BY <1>4, <1>8, <1>9, <1>10, <1>11 DEF tail

-----------------------------------------------------------------------------
(* Types. *)

Stages == {"none", "added", "callbacks", "listed", "bound", "refused", "user", "failed", "served"}
\* The records of the connections, the sockets, the loops and the senders.
Con == [connected : BOOLEAN, disconnecting : BOOLEAN, pollIn : BOOLEAN, pollOut : BOOLEAN,
        reading : BOOLEAN, tasks : Seq(Seq(Numbers)), pending : Int]
Sock == [room : 0..Room, inbound : BOOLEAN, shut : BOOLEAN, error : BOOLEAN]
Working == {"in", "inEnd", "err", "out", "pop", "outEnd", "end"}
Going == {"down", "forget", "erase", "reported"}
Loop == [pc : {"wait"} \cup Working \cup Going,
         events : [in : BOOLEAN, err : BOOLEAN, out : BOOLEAN], failed : BOOLEAN]
Sending == [pc : {"idle", "check", "failed", "over"}, to : SUBSET Connections]

\* The state, part by part.
StageType == stage \in [Connections -> Stages]
ConType == con \in [Connections -> Con] /\ sock \in [Connections -> Sock]
LoopType == loop \in [Connections -> Loop]
SenderType == sender \in [Senders -> Sending]
TableType == {connections, users, todo, early} \subseteq SUBSET Connections
EndType == /\ server \in {"open", "joining", "disconnecting", "closed"}
           /\ crash \in {"no", "no user", "not a user", "SIGPIPE", "race"}
BytesType == submitted \in [Connections -> Seq(Numbers)] /\ wire \in [Connections -> Seq(Numbers)]
Types == StageType /\ ConType /\ LoopType /\ SenderType /\ TableType /\ EndType /\ BytesType

\* The length of what follows the k-th of l elements.
LEMMA RestLength ==
  ASSUME NEW l \in Nat, NEW k \in 0..l
  PROVE  l - (k + 1) + 1 = l - k /\ (IF k + 1 <= l THEN l - (k + 1) + 1 ELSE 0) = l - k
OBVIOUS

\* What the kernel takes of a buffer and what is left make up the buffer.
LEMMA TakenRest ==
  ASSUME NEW S, NEW buf \in Seq(S), NEW c \in Connections, sock[c].room \in Nat
  PROVE  /\ Taken(c, buf) \in Seq(S) /\ Rest(c, buf) \in Seq(S)
         /\ Taken(c, buf) \o Rest(c, buf) = buf
         /\ Len(Taken(c, buf)) <= sock[c].room
<1> DEFINE r == sock[c].room
           k == IF Len(buf) < r THEN Len(buf) ELSE r
           a == Taken(c, buf)
           b == Rest(c, buf)
<1>1. Len(buf) \in Nat /\ k \in 0..Len(buf) /\ k <= r
  OBVIOUS
<1>2. a = SubSeq(buf, 1, k)
  BY DEF Taken
<1> HIDE DEF k
<1>3. a \in Seq(S) /\ Len(a) = k /\ \A i \in 1..k : a[i] = buf[i]
  <2>1. 1 \in Int /\ k \in Int /\ \A i \in 1..k : buf[i] \in S
    BY <1>1, ElementOfSeq
  <2>2. /\ a \in Seq(S) /\ Len(a) = IF 1 <= k THEN k - 1 + 1 ELSE 0
        /\ \A i \in 1..(k - 1 + 1) : a[i] = buf[1 + i - 1]
    BY <1>2, <2>1, SubSeqProperties
  <2> HIDE DEF a
  <2>3. Len(a) = k
    BY <1>1, <2>2
  <2>4. ASSUME NEW i \in 1..k PROVE a[i] = buf[i]
    <3>1. i \in 1..(k - 1 + 1) /\ 1 + i - 1 = i
      BY <1>1
    <3> QED
      BY <2>2, <3>1
  <2> QED
    BY <2>2, <2>3, <2>4
<1>4. b \in Seq(S) /\ Len(b) = Len(buf) - k /\ \A i \in 1..(Len(buf) - k) : b[i] = buf[k + i]
  <2>0. b = SubSeq(buf, k + 1, Len(buf))
    BY <1>3 DEF Rest
  <2>1. k + 1 \in Int /\ Len(buf) \in Int /\ \A i \in (k + 1)..Len(buf) : buf[i] \in S
    BY <1>1, ElementOfSeq
  <2>2. /\ b \in Seq(S) /\ Len(b) = IF k + 1 <= Len(buf) THEN Len(buf) - (k + 1) + 1 ELSE 0
        /\ \A i \in 1..(Len(buf) - (k + 1) + 1) : b[i] = buf[k + 1 + i - 1]
    BY <2>0, <2>1, SubSeqProperties
  <2> HIDE DEF b
  <2>3. Len(buf) - (k + 1) + 1 = Len(buf) - k
        /\ (IF k + 1 <= Len(buf) THEN Len(buf) - (k + 1) + 1 ELSE 0) = Len(buf) - k
    BY <1>1, RestLength
  <2>4. ASSUME NEW i \in 1..(Len(buf) - k) PROVE b[i] = buf[k + i]
    <3>1. i \in 1..(Len(buf) - (k + 1) + 1)
      BY <2>3
    <3>3. k + 1 + i - 1 = k + i
      <4>1. i \in Int /\ k \in Int
        BY <1>1
      <4> QED
        BY <4>1
    <3>2. b[i] = buf[k + 1 + i - 1]
      BY <2>2, <3>1
    <3> QED
      BY <3>2, <3>3
  <2> QED
    BY <2>2, <2>3, <2>4
<1> HIDE DEF a, b
<1>5. /\ a \o b \in Seq(S) /\ Len(a \o b) = Len(buf)
      /\ \A i \in 1..Len(buf) : (a \o b)[i] = IF i <= k THEN a[i] ELSE b[i - k]
  <2>1. Len(a) + Len(b) = Len(buf)
    BY <1>1, <1>3, <1>4
  <2> QED
    BY <1>3, <1>4, <2>1, ConcatProperties
<1>6. ASSUME NEW i \in 1..Len(buf) PROVE (a \o b)[i] = buf[i]
  <2>1. CASE i <= k
    BY <1>1, <1>3, <1>5, <2>1
  <2>2. CASE ~ (i <= k)
    <3>1. i - k \in 1..(Len(buf) - k) /\ k + (i - k) = i
      BY <1>1, <2>2
    <3> QED
      BY <1>4, <1>5, <2>2, <3>1
  <2> QED
    BY <2>1, <2>2
<1>7. a \o b = buf
  BY <1>5, <1>6, SeqEqual
<1> QED
  BY <1>1, <1>3, <1>4, <1>7 DEF a, b

\* The queue and the life of a connection stay as they are.
Kept(d) ==
  /\ con'[d].connected = con[d].connected
  /\ con'[d].tasks = con[d].tasks /\ con'[d].pending = con[d].pending

\* Connection::disconnect leaves the queue and the life of every connection.
LEMMA DisconnectEffect ==
  ASSUME Types, NEW c \in Connections, Disconnect(c)
  PROVE  ConType' /\ \A d \in Connections : Kept(d)
<1>1. con \in [Connections -> Con] /\ sock \in [Connections -> Sock]
  BY DEF Types, ConType
<1>2. CASE con[c].connected /\ ~con[c].disconnecting
  <2> DEFINE x == [[con[c] EXCEPT !.disconnecting = TRUE] EXCEPT !.pollIn = TRUE]
             y == [sock[c] EXCEPT !.shut = TRUE]
  <2>1. con' = [con EXCEPT ![c] = x]
    BY <1>1, <1>2 DEF Disconnect
  <2>2. sock' = [sock EXCEPT ![c] = y]
    BY <1>1, <1>2 DEF Disconnect
  <2>3. /\ x \in Con /\ x.connected = con[c].connected /\ x.tasks = con[c].tasks
        /\ x.pending = con[c].pending
    BY <1>1 DEF Con
  <2>4. y \in Sock
    BY <1>1 DEF Sock
  <2> HIDE DEF x, y
  <2>5. ConType'
    BY <1>1, <2>1, <2>2, <2>3, <2>4 DEF ConType
  <2> QED
    BY <1>1, <2>1, <2>3, <2>5 DEF Kept
<1>3. CASE ~ (con[c].connected /\ ~con[c].disconnecting)
  BY <1>1, <1>3 DEF Disconnect, Kept, ConType
<1> QED
  BY <1>2, <1>3

\* A transmission moves bytes from the queue to the wire, and counts them.
LEMMA TransmitEffect ==
  ASSUME Types, NEW c \in Connections, NEW ts \in Seq(Seq(Numbers)), ts # <<>>, NEW p \in Int,
         NEW whole \in BOOLEAN, Transmit(c, ts, p, whole)
  PROVE  /\ ConType' /\ wire' \in [Connections -> Seq(Numbers)]
         /\ crash' \in {crash, "SIGPIPE"}
         /\ \A d \in Connections \ {c} : con'[d] = con[d] /\ wire'[d] = wire[d]
         /\ con'[c].connected = con[c].connected
         /\ Cat(wire'[c], FlattenSeq(con'[c].tasks)) = Cat(wire[c], FlattenSeq(ts))
         /\ con'[c].pending - Len(FlattenSeq(con'[c].tasks)) = p - Len(FlattenSeq(ts))
         /\ ~whole => con'[c].tasks # <<>>
<1> DEFINE taken == Taken(c, Head(ts))
           rest == Rest(c, Head(ts))
<1>1. /\ con \in [Connections -> Con] /\ sock \in [Connections -> Sock]
      /\ wire \in [Connections -> Seq(Numbers)] /\ sock[c].room \in 0..Room
           /\ sock[c].room \in Nat
  BY BoundsNat DEF Types, ConType, BytesType, Sock
<1>2. Head(ts) \in Seq(Numbers) /\ Tail(ts) \in Seq(Seq(Numbers))
  BY HeadTailProperties
<1>3. /\ taken \in Seq(Numbers) /\ rest \in Seq(Numbers) /\ Cat(taken, rest) = Head(ts)
      /\ Len(taken) <= sock[c].room
  BY <1>1, <1>2, TakenRest DEF Cat
<1> HIDE DEF taken, rest
<1>4. CASE sock[c].error \/ sock[c].shut
  <2> DEFINE x == [[con[c] EXCEPT !.tasks = ts] EXCEPT !.pending = p]
             y == [sock[c] EXCEPT !.error = FALSE]
  <2>1. /\ con' = [con EXCEPT ![c] = x] /\ wire' = wire /\ crash' \in {crash, "SIGPIPE"}
    BY <1>1, <1>4 DEF Transmit
  <2>2. sock' = [sock EXCEPT ![c] = y]
    BY <1>1, <1>4 DEF Transmit
  <2>3. x \in Con /\ x.connected = con[c].connected /\ x.tasks = ts /\ x.pending = p
    BY <1>1 DEF Con
  <2>4. y \in Sock
    BY <1>1 DEF Sock
  <2> HIDE DEF x, y
  <2>5. ConType' /\ con'[c] = x /\ \A d \in Connections \ {c} : con'[d] = con[d]
    BY <1>1, <2>1, <2>2, <2>3, <2>4 DEF ConType
  <2> QED
    BY <1>1, <2>1, <2>3, <2>5
<1>5. CASE ~ (sock[c].error \/ sock[c].shut)
  <2> DEFINE us == IF whole /\ rest = <<>> THEN Tail(ts) ELSE Cat(<<rest>>, Tail(ts))
             polls == rest # <<>> \/ (con[c].pollOut /\ ~whole)
             x == [[[con[c] EXCEPT !.tasks = us] EXCEPT !.pending = p - Len(taken)]
                    EXCEPT !.pollOut = polls]
             y == [sock[c] EXCEPT !.room = sock[c].room - Len(taken)]
  <2>1. con' = [con EXCEPT ![c] = x]
    BY <1>1, <1>5 DEF Transmit, taken, rest, Cat
  <2>2. sock' = [sock EXCEPT ![c] = y]
    BY <1>1, <1>5 DEF Transmit, taken, rest, Cat
  <2>3. wire' = [wire EXCEPT ![c] = Cat(wire[c], taken)] /\ crash' = crash
    BY <1>5 DEF Transmit, taken, rest, Cat
  <2>4. us = Cat(<<rest>>, Tail(ts)) \/ (rest = <<>> /\ us = Tail(ts))
    OBVIOUS
  <2>5. ~whole => us = Cat(<<rest>>, Tail(ts))
    OBVIOUS
  <2>6. /\ polls \in BOOLEAN /\ Len(taken) \in Nat /\ p - Len(taken) \in Int
        /\ sock[c].room - Len(taken) \in 0..Room
    <3>1. Len(taken) \in Nat
      BY <1>3
    <3>2. sock[c].room - Len(taken) \in 0..Room
      BY <1>1, <1>3, <3>1, BoundsNat
    <3>3. polls \in BOOLEAN
      BY <1>1 DEF Con
    <3> QED
      BY <3>1, <3>2, <3>3
  <2> HIDE DEF us, polls
  <2>7. /\ us \in Seq(Seq(Numbers)) /\ (~whole => us # <<>>)
        /\ Cat(Cat(wire[c], taken), FlattenSeq(us)) = Cat(wire[c], FlattenSeq(ts))
        /\ Len(FlattenSeq(us)) \in Nat /\ Len(FlattenSeq(ts)) = Len(taken) + Len(FlattenSeq(us))
    <3>1. wire[c] \in Seq(Numbers)
      BY <1>1
    <3>2. /\ us \in Seq(Seq(Numbers)) /\ (us = Cat(<<rest>>, Tail(ts)) => us # <<>>)
          /\ Cat(Cat(wire[c], taken), FlattenSeq(us)) = Cat(wire[c], FlattenSeq(ts))
          /\ Len(FlattenSeq(us)) \in Nat
          /\ Len(FlattenSeq(ts)) = Len(taken) + Len(FlattenSeq(us))
      <4>1. us \in Left(ts, rest)
        BY <2>4 DEF Left
      <4> QED
        BY <1>3, <3>1, <4>1, FlattenMoves
    <3> QED
      BY <2>5, <3>2
  <2>8. x \in Con /\ x.connected = con[c].connected /\ x.tasks = us /\ x.pending = p - Len(taken)
    BY <1>1, <2>6, <2>7 DEF Con
  <2>9. y \in Sock
    BY <1>1, <2>6 DEF Sock
  <2> HIDE DEF x, y
  <2>10. ConType' /\ con'[c] = x /\ \A d \in Connections \ {c} : con'[d] = con[d]
    BY <1>1, <2>1, <2>2, <2>8, <2>9 DEF ConType
  <2>11. /\ Cat(wire[c], taken) \in Seq(Numbers) /\ wire' \in [Connections -> Seq(Numbers)]
         /\ wire'[c] = Cat(wire[c], taken) /\ \A d \in Connections \ {c} : wire'[d] = wire[d]
    <3>1. wire[c] \in Seq(Numbers)
      BY <1>1
    <3>2. Cat(wire[c], taken) \in Seq(Numbers)
      BY <1>3, <3>1, ConcatProperties DEF Cat
    <3> QED
      BY <1>1, <2>3, <3>2
  <2>12. (p - Len(taken)) - Len(FlattenSeq(us)) = p - Len(FlattenSeq(ts))
    BY <2>6, <2>7
  <2> QED
    BY <2>3, <2>7, <2>8, <2>10, <2>11, <2>12
<1> QED
  BY <1>4, <1>5

\* A step that changes the flags of one connection, and its socket.
LEMMA ConStep ==
  ASSUME Types, NEW c \in Connections, NEW x \in Con, con' = [con EXCEPT ![c] = x],
         x.connected = con[c].connected, x.tasks = con[c].tasks, x.pending = con[c].pending
  PROVE  con' \in [Connections -> Con] /\ \A d \in Connections : Kept(d)
<1>1. con \in [Connections -> Con]
  BY DEF Types, ConType
<1>2. con'[c] = x /\ \A d \in Connections \ {c} : con'[d] = con[d]
  BY <1>1
<1> QED
  BY <1>1, <1>2 DEF Kept

\* A step that changes one socket.
LEMMA SockStep ==
  ASSUME Types, NEW c \in Connections, NEW y \in Sock, sock' = [sock EXCEPT ![c] = y]
  PROVE  sock' \in [Connections -> Sock]
BY DEF Types, ConType

\* A step that leaves the connections.
LEMMA ConSame ==
  ASSUME Types, con' = con
  PROVE  con' \in [Connections -> Con] /\ \A d \in Connections : Kept(d)
BY DEF Types, ConType, Kept

\* A step that leaves the sockets.
LEMMA SockSame ==
  ASSUME Types, sock' = sock
  PROVE  sock' \in [Connections -> Sock]
BY DEF Types, ConType

\* recv0 changes only the socket.
LEMMA AfterRecvEffect ==
  ASSUME Types, NEW c \in Connections, sock' = AfterRecv(c)
  PROVE  sock' \in [Connections -> Sock]
<1>1. sock \in [Connections -> Sock]
  BY DEF Types, ConType
<1> DEFINE b == sock[c].error /\ sock[c].inbound
           y == [[sock[c] EXCEPT !.inbound = FALSE] EXCEPT !.error = b]
<1>2. sock[c] \in Sock /\ b \in BOOLEAN
  BY <1>1 DEF Sock
<1>3. sock' = [sock EXCEPT ![c] = y]
  BY <1>1 DEF AfterRecv
<1> HIDE DEF b
<1>4. y \in Sock
  BY <1>2 DEF Sock
<1> HIDE DEF y
<1> QED
  BY <1>3, <1>4, SockStep

\* Every step but those of Accept, SendBuffer, EventOut, EventPop and EventEnd keeps what a
\* connection has to send.
Flagging(c) ==
  MakeUserConnection(c) \/ FirstRecv(c) \/ FirstRecvFails(c) \/ EventIn(c) \/ EventInEnd(c)
  \/ EventErr(c) \/ EventOutEnd(c) \/ Reported(c) \/ HangUp(c) \/ Peer(c) \/ CloseConnection(c)

\* The flags have their types, the queues stay.
LEMMA FlaggingEffect ==
  ASSUME Types, NEW c \in Connections, Flagging(c)
  PROVE  ConType' /\ \A d \in Connections : Kept(d)
<1>1. con[c] \in Con /\ sock[c] \in Sock
  BY DEF Types, ConType
<1>2. CASE Disconnect(c)
  BY <1>2, DisconnectEffect
<1>3. CASE UNCHANGED <<con, sock>>
  BY <1>3, ConSame, SockSame DEF ConType
<1>4. CASE con' = con /\ sock' = AfterRecv(c)
  BY <1>4, ConSame, AfterRecvEffect DEF ConType
<1>5. CASE FirstRecv(c)
  <2>1. CASE con[c].connected
    <3> DEFINE x == [[con[c] EXCEPT !.reading = TRUE] EXCEPT !.pollIn = TRUE]
    <3>1. con' = [con EXCEPT ![c] = x]
      <4>1. con \in [Connections -> Con]
        BY DEF Types, ConType
      <4> QED
        BY <1>5, <2>1, <4>1 DEF FirstRecv
    <3>2. /\ x \in Con /\ x.connected = con[c].connected /\ x.tasks = con[c].tasks
          /\ x.pending = con[c].pending
      BY <1>1 DEF Con
    <3>3. sock' = AfterRecv(c)
      BY <1>5, <2>1 DEF FirstRecv
    <3> HIDE DEF x
    <3> QED
      BY <3>1, <3>2, <3>3, ConStep, AfterRecvEffect DEF ConType
  <2>2. CASE ~con[c].connected
    BY <1>3, <1>5, <2>2 DEF FirstRecv
  <2> QED
    BY <2>1, <2>2
<1>6. CASE EventInEnd(c) \/ EventOutEnd(c) \/ Reported(c)
  <2> DEFINE x == IF EventInEnd(c)
                  THEN [con[c] EXCEPT !.pollIn = con[c].pollIn /\ con[c].reading]
                  ELSE IF EventOutEnd(c)
                  THEN [con[c] EXCEPT !.pollOut = con[c].pollOut /\ con[c].tasks # <<>>]
                  ELSE [con[c] EXCEPT !.disconnecting = FALSE]
  <2>0. con \in [Connections -> Con]
    BY DEF Types, ConType
  <2>1. con' = [con EXCEPT ![c] = x]
    BY <1>6, <2>0 DEF EventInEnd, EventOutEnd, Reported
  <2>2. /\ x \in Con /\ x.connected = con[c].connected /\ x.tasks = con[c].tasks
        /\ x.pending = con[c].pending
    BY <1>1 DEF Con
  <2>3. sock' = sock
    BY <1>6 DEF EventInEnd, EventOutEnd, Reported
  <2> HIDE DEF x
  <2> QED
    BY <2>1, <2>2, <2>3, ConStep, SockSame DEF ConType
<1>7. CASE EventErr(c) \/ Peer(c)
  <2>0. sock \in [Connections -> Sock]
    BY DEF Types, ConType
  <2>1. PICK y : y \in Sock /\ sock' = [sock EXCEPT ![c] = y]
    <3> DEFINE y1 == [sock[c] EXCEPT !.error = FALSE]
               y2 == [sock[c] EXCEPT !.room = sock[c].room + 1]
               y3 == [sock[c] EXCEPT !.inbound = TRUE]
               y4 == [[sock[c] EXCEPT !.shut = TRUE] EXCEPT !.error = TRUE]
    <3>1. CASE EventErr(c)
      <4>1. y1 \in Sock /\ sock' = [sock EXCEPT ![c] = y1]
        BY <1>1, <2>0, <3>1 DEF EventErr, Sock
      <4> QED
        BY <4>1
    <3>2. CASE Peer(c)
      <4>1. CASE sock[c].room < Room /\ sock' = [sock EXCEPT ![c].room = @ + 1]
        <5>1. y2 \in Sock
          BY <1>1, <4>1, BoundsNat DEF Sock
        <5>2. sock' = [sock EXCEPT ![c] = y2]
          BY <2>0, <4>1
        <5> QED
          BY <5>1, <5>2
      <4>2. CASE sock' = [sock EXCEPT ![c].inbound = TRUE]
        <5>1. y3 \in Sock /\ sock' = [sock EXCEPT ![c] = y3]
          BY <1>1, <2>0, <4>2 DEF Sock
        <5> QED
          BY <5>1
      <4>3. CASE sock' = [sock EXCEPT ![c].shut = TRUE, ![c].error = TRUE]
        <5>1. y4 \in Sock /\ sock' = [sock EXCEPT ![c] = y4]
          BY <1>1, <2>0, <4>3 DEF Sock
        <5> QED
          BY <5>1
      <4> QED
        BY <3>2, <4>1, <4>2, <4>3 DEF Peer
    <3> QED
      BY <1>7, <3>1, <3>2
  <2>2. con' = con
    BY <1>7 DEF EventErr, Peer
  <2> QED
    BY <2>1, <2>2, ConSame, SockStep DEF ConType
<1>8. CASE EventIn(c)
  BY <1>3, <1>4, <1>8 DEF EventIn
<1> QED
  BY <1>2, <1>3, <1>5, <1>6, <1>7, <1>8 DEF Flagging, MakeUserConnection, FirstRecvFails, HangUp,
     CloseConnection

-----------------------------------------------------------------------------
(* What is sent. *)

\* What a connection has to send: all that was submitted is taken or waits, in this order.
Queue(c) ==
  /\ con[c].connected => Cat(wire[c], FlattenSeq(con[c].tasks)) = submitted[c]
  /\ IsPrefix(wire[c], submitted[c])
  /\ con[c].pending = Len(FlattenSeq(con[c].tasks))
  /\ ~con[c].connected => con[c].tasks = <<>>
  /\ stage[c] = "none" => ~con[c].connected /\ wire[c] = <<>> /\ submitted[c] = <<>>
  /\ loop[c].pc = "pop" => con[c].tasks # <<>> /\ Head(con[c].tasks) = <<>>
Queues == \A c \in Connections : Queue(c)

\* What a connection has to send depends on these only.
LEMMA QueueSame ==
  ASSUME NEW c \in Connections, Queue(c), Kept(c), wire'[c] = wire[c],
         submitted'[c] = submitted[c], stage'[c] = "none" => stage[c] = "none",
         loop'[c].pc = "pop" => loop[c].pc = "pop"
  PROVE  Queue(c)'
BY DEF Queue, Kept

\* What is extended is a prefix.
LEMMA PrefixCat ==
  \A a, b \in Seq(Numbers) : Cat(a, b) \in Seq(Numbers) /\ IsPrefix(a, Cat(a, b))
<1> TAKE a, b \in Seq(Numbers)
<1> DEFINE t == Cat(a, b)
<1>1. /\ t \in Seq(Numbers) /\ Len(t) = Len(a) + Len(b) /\ Len(a) \in Nat /\ Len(b) \in Nat
      /\ \A i \in 1..Len(a) : t[i] = a[i]
  <2>1. Len(a) \in Nat /\ Len(b) \in Nat
    OBVIOUS
  <2>2. /\ t \in Seq(Numbers) /\ Len(t) = Len(a) + Len(b)
        /\ \A i \in 1..(Len(a) + Len(b)) : t[i] = IF i <= Len(a) THEN a[i] ELSE b[i - Len(a)]
    BY ConcatProperties DEF Cat
  <2> HIDE DEF t
  <2>3. ASSUME NEW i \in 1..Len(a) PROVE t[i] = a[i]
    <3>1. i \in 1..(Len(a) + Len(b)) /\ i <= Len(a)
      BY <2>1
    <3> QED
      BY <2>2, <3>1
  <2> QED
    BY <2>1, <2>2, <2>3
<1> HIDE DEF t
<1>2. SubSeq(a, 1, Len(a)) = SubSeq(t, 1, Len(a))
  BY <1>1 DEF SubSeq
<1> QED
  BY <1>1, <1>2 DEF IsPrefix, t

\* One buffer.
LEMMA FlattenOne == \A b \in Seq(Numbers) : FlattenSeq(<<b>>) = b
<1> TAKE b \in Seq(Numbers)
<1> DEFINE T == Seq(Numbers)
<1>1. <<>> \in Seq(Seq(Numbers)) /\ <<b>> = Append(<<>>, b)
  OBVIOUS
<1>2. FlattenSeq(Append(<<>>, b)) = <<>> \o b
  BY <1>1, FlattenAppend, FlattenEmpty
<1>3. <<>> \o b = b
  BY ConcatEmptySeq
<1> QED
  BY <1>1, <1>2, <1>3

\* A connection without waiting buffers has sent everything.
LEMMA NothingWaits ==
  ASSUME Types, NEW c \in Connections, Queue(c), con[c].tasks = <<>>
  PROVE  /\ con[c].pending = 0 /\ loop[c].pc # "pop"
         /\ con[c].connected => wire[c] = submitted[c]
<1>1. wire[c] \in Seq(Numbers)
  BY DEF Types, BytesType
<1>2. FlattenSeq(con[c].tasks) = <<>>
  BY FlattenEmpty
<1>3. Cat(wire[c], <<>>) = wire[c]
  BY <1>1, ConcatEmptySeq DEF Cat
<1> QED
  BY <1>2, <1>3 DEF Queue

\* A new connection has nothing to send.
LEMMA AcceptEffect ==
  ASSUME Types, Queues, NEW c \in Connections, Accept(c)
  PROVE  /\ ConType' /\ Queues' /\ con'[c].connected
         /\ \A d \in Connections \ {c} : con'[d].connected = con[d].connected
<1> DEFINE x == [con[c] EXCEPT !.connected = TRUE]
<1>0. con[c] \in Con /\ con \in [Connections -> Con]
  BY DEF Types, ConType
<1>1. con' = [con EXCEPT ![c] = x] /\ stage[c] = "none" /\ stage' = [stage EXCEPT ![c] = "added"]
      /\ UNCHANGED <<sock, loop, submitted, wire>>
  BY <1>0 DEF Accept, history
<1>2. x \in Con /\ x.connected /\ x.tasks = con[c].tasks /\ x.pending = con[c].pending
  BY <1>0 DEF Con
<1> HIDE DEF x
<1>3. con' \in [Connections -> Con] /\ con'[c] = x
        /\ \A d \in Connections \ {c} : con'[d] = con[d]
  BY <1>0, <1>1, <1>2
<1>4. ASSUME NEW d \in Connections, d # c PROVE Queue(d)'
  <2>1. stage'[d] = stage[d]
    BY <1>1, <1>4 DEF Types, StageType
  <2> QED
    BY <1>1, <1>3, <1>4, <2>1, QueueSame DEF Kept, Queues
<1>5. Queue(c)'
  <2>1. Queue(c)
    BY DEF Queues
  <2>2. con[c].tasks = <<>> /\ wire[c] = <<>> /\ submitted[c] = <<>>
    BY <1>1, <2>1 DEF Queue
  <2>3. Cat(<<>>, FlattenSeq(<<>>)) = <<>>
    <3>1. <<>> \in Seq(Numbers)
      OBVIOUS
    <3> QED
      BY <3>1, FlattenEmpty, ConcatEmptySeq DEF Cat
  <2>4. stage'[c] = "added"
    BY <1>1 DEF Types, StageType
  <2> QED
    BY <1>1, <1>2, <1>3, <2>1, <2>2, <2>3, <2>4 DEF Queue
<1> QED
  BY <1>1, <1>2, <1>3, <1>4, <1>5, SockSame DEF ConType, Queues

\* A connection that ends drops what waits.
LEMMA EndEffect ==
  ASSUME Types, Queues, NEW c \in Connections, EventEnd(c)
  PROVE  /\ ConType' /\ Queues'
         /\ \A d \in Connections \ {c} : con'[d].connected = con[d].connected
         /\ \/ loop'[c].pc = "wait" /\ early' = early /\ con'[c].connected = con[c].connected
            \/ loop'[c].pc = "down" /\ (c \in users \/ c \in early') /\ ~con'[c].connected
<1>0. con[c] \in Con /\ con \in [Connections -> Con] /\ loop \in [Connections -> Loop]
  BY DEF Types, ConType, LoopType
<1>1. UNCHANGED <<sock, stage, submitted, wire>> /\ loop'[c].pc # "pop"
      /\ \A d \in Connections \ {c} : loop'[d] = loop[d]
  BY <1>0 DEF EventEnd
<1>2. CASE ~(con[c].disconnecting \/ loop[c].failed)
  <2>0. con' = con /\ early' = early /\ loop'[c].pc = "wait"
    BY <1>0, <1>2 DEF EventEnd
  <2>1. \A d \in Connections : Kept(d)
    BY <2>0 DEF Kept
  <2>2. ASSUME NEW d \in Connections PROVE Queue(d)'
    <3>1. Queue(d) /\ Kept(d) /\ (loop'[d].pc = "pop" => loop[d].pc = "pop")
      BY <1>1, <2>1 DEF Queues
    <3> QED
      BY <1>1, <3>1, QueueSame
  <2> QED
    BY <1>1, <2>0, <2>2, ConSame, SockSame DEF ConType, Queues
<1>3. CASE con[c].disconnecting \/ loop[c].failed
  <2>0. loop'[c].pc = "down" /\ (c \in users \/ c \in early')
    BY <1>0, <1>3 DEF EventEnd
  <2> DEFINE u == [[con[c] EXCEPT !.connected = FALSE] EXCEPT !.reading = FALSE]
             v == [u EXCEPT !.tasks = <<>>]
             x == [v EXCEPT !.pending = 0]
  <2>1. con' = [con EXCEPT ![c] = x]
    BY <1>0, <1>3 DEF EventEnd
  <2>2. x \in Con /\ x.connected = FALSE /\ x.tasks = <<>> /\ x.pending = 0
    <3>1. u \in Con /\ u.connected = FALSE
      BY <1>0 DEF Con
    <3> HIDE DEF u
    <3>2. v \in Con /\ v.connected = FALSE /\ v.tasks = <<>>
      <4>1. <<>> \in Seq(Seq(Numbers))
        OBVIOUS
      <4> QED
        BY <3>1, <4>1 DEF Con
    <3> HIDE DEF v
    <3> QED
      BY <3>2 DEF Con
  <2> HIDE DEF x, v, u
  <2>3. con' \in [Connections -> Con] /\ con'[c] = x
          /\ \A d \in Connections \ {c} : con'[d] = con[d]
    BY <1>0, <2>1, <2>2
  <2>4. ASSUME NEW d \in Connections, d # c PROVE Queue(d)'
    BY <1>1, <2>3, <2>4, QueueSame DEF Kept, Queues
  <2>5. Queue(c)'
    <3>1. Queue(c)
      BY DEF Queues
    <3>2. FlattenSeq(<<>>) = <<>> /\ Len(<<>>) = 0
      BY FlattenEmpty
    <3> QED
      BY <1>1, <2>2, <2>3, <3>1, <3>2 DEF Queue
  <2> QED
    BY <1>1, <2>0, <2>2, <2>3, <2>4, <2>5, SockSame DEF ConType, Queues
<1> QED
  BY <1>2, <1>3

\* The queue of a connection after a transmission.
LEMMA QueueTransmitted ==
  ASSUME Types, NEW c \in Connections, NEW ts \in Seq(Seq(Numbers)), NEW p \in Int, ConType',
         wire' \in [Connections -> Seq(Numbers)],
         Cat(wire'[c], FlattenSeq(con'[c].tasks)) = Cat(wire[c], FlattenSeq(ts)),
         Cat(wire[c], FlattenSeq(ts)) = submitted'[c],
         con'[c].pending - Len(FlattenSeq(con'[c].tasks)) = p - Len(FlattenSeq(ts)),
         p = Len(FlattenSeq(ts)), con'[c].connected, stage'[c] # "none",
         loop'[c].pc = "pop" => con'[c].tasks # <<>> /\ Head(con'[c].tasks) = <<>>
  PROVE  Queue(c)'
<1>1. con'[c].tasks \in Seq(Seq(Numbers)) /\ con'[c].pending \in Int /\ wire'[c] \in Seq(Numbers)
  BY DEF ConType, Con
<1>2. PICK f \in Seq(Numbers) : f = FlattenSeq(con'[c].tasks)
  BY <1>1, FlattenType
<1>3. IsPrefix(wire'[c], Cat(wire'[c], f))
  BY <1>1, <1>2, PrefixCat
<1>4. Cat(wire'[c], f) = submitted'[c]
  BY <1>2
<1>5. Len(f) \in Nat
  BY <1>2
<1>6. con'[c].pending = Len(f)
  BY <1>1, <1>2, <1>5
<1> QED
  BY <1>2, <1>3, <1>4, <1>6 DEF Queue

\* The event loop transmits.
LEMMA OutEffect ==
  ASSUME Types, Queues, NEW c \in Connections, EventOut(c)
  PROVE  /\ ConType' /\ wire' \in [Connections -> Seq(Numbers)]
         /\ crash' \in {crash, "SIGPIPE"} /\ Queues'
         /\ \A d \in Connections : con'[d].connected = con[d].connected
<1>0. con[c] \in Con /\ con \in [Connections -> Con] /\ loop \in [Connections -> Loop] /\ Queue(c)
      /\ wire \in [Connections -> Seq(Numbers)]
  BY DEF Types, ConType, LoopType, Queues, BytesType
<1>1. UNCHANGED <<stage, submitted>> /\ \A d \in Connections \ {c} : loop'[d] = loop[d]
  BY <1>0 DEF EventOut
<1>2. CASE con[c].tasks = <<>>
  <2>1. UNCHANGED <<con, sock, crash, wire>> /\ loop'[c].pc = "outEnd"
    <3>1. loop' = [loop EXCEPT ![c].pc = "outEnd"] /\ UNCHANGED <<con, sock, crash, wire>>
      BY <1>2, Zenon DEF EventOut
    <3> QED
      BY <1>0, <3>1
  <2>2. ASSUME NEW d \in Connections PROVE Queue(d)'
    BY <1>1, <2>1, QueueSame DEF Kept, Queues
  <2> QED
    BY <1>0, <2>1, <2>2, ConSame, SockSame DEF ConType, Queues
<1>3. CASE con[c].tasks # <<>>
  <2> DEFINE ts == con[c].tasks
             p == con[c].pending
  <2>1. /\ Transmit(c, ts, p, FALSE)
        /\ loop' = [loop EXCEPT ![c].failed = sock[c].error,
                        ![c].pc = CASE Head(con'[c].tasks) = <<>> -> "pop"
                                    [] sock[c].error -> "end" [] OTHER -> "outEnd"]
    BY <1>3 DEF EventOut
  <2>2. ts \in Seq(Seq(Numbers)) /\ ts # <<>> /\ p \in Int
    BY <1>0, <1>3 DEF Con
  <2>3. con[c].connected
    BY <1>0, <1>3 DEF Queue
  <2>4. Cat(wire[c], FlattenSeq(ts)) = submitted[c] /\ p = Len(FlattenSeq(ts))
          /\ stage[c] # "none"
    BY <1>0, <2>3 DEF Queue
  <2> HIDE DEF ts, p
  <2>5. /\ ConType' /\ wire' \in [Connections -> Seq(Numbers)] /\ crash' \in {crash, "SIGPIPE"}
        /\ \A d \in Connections \ {c} : con'[d] = con[d] /\ wire'[d] = wire[d]
        /\ con'[c].connected = con[c].connected
        /\ Cat(wire'[c], FlattenSeq(con'[c].tasks)) = Cat(wire[c], FlattenSeq(ts))
        /\ con'[c].pending - Len(FlattenSeq(con'[c].tasks)) = p - Len(FlattenSeq(ts))
        /\ con'[c].tasks # <<>>
    BY <2>1, <2>2, TransmitEffect
  <2>6. loop'[c].pc = "pop" => Head(con'[c].tasks) = <<>>
    BY <1>0, <2>1
  <2>7. Queue(c)'
    <3>1. Cat(wire[c], FlattenSeq(ts)) = submitted'[c] /\ stage'[c] # "none"
      BY <1>1, <2>4
    <3>2. loop'[c].pc = "pop" => con'[c].tasks # <<>> /\ Head(con'[c].tasks) = <<>>
      BY <2>5, <2>6
    <3>3. con'[c].connected
      BY <2>3, <2>5
    <3> QED
      BY <2>2, <2>4, <2>5, <3>1, <3>2, <3>3, QueueTransmitted
  <2>8. ASSUME NEW d \in Connections, d # c PROVE Queue(d)'
    BY <1>1, <2>5, <2>8, QueueSame DEF Kept, Queues
  <2> QED
    BY <2>5, <2>7, <2>8 DEF Queues
<1> QED
  BY <1>2, <1>3

\* A buffer that is empty is all of it transmitted.
LEMMA FlattenPopped ==
  ASSUME NEW ts \in Seq(Seq(Numbers)), ts # <<>>, Head(ts) = <<>>
  PROVE  Tail(ts) \in Seq(Seq(Numbers)) /\ FlattenSeq(Tail(ts)) = FlattenSeq(ts)
<1>1. Tail(ts) \in Seq(Seq(Numbers))
  BY HeadTailProperties
<1>2. FlattenSeq(Tail(ts)) \in Seq(Numbers)
  BY <1>1, FlattenType
<1>3. FlattenSeq(ts) = <<>> \o FlattenSeq(Tail(ts))
  BY FlattenTail
<1> QED
  BY <1>1, <1>2, <1>3, ConcatEmptySeq

\* A buffer that is transmitted is popped.
LEMMA PopEffect ==
  ASSUME Types, Queues, NEW c \in Connections, EventPop(c)
  PROVE  /\ ConType' /\ Queues'
         /\ \A d \in Connections : con'[d].connected = con[d].connected
<1>0. con[c] \in Con /\ con \in [Connections -> Con] /\ loop \in [Connections -> Loop] /\ Queue(c)
  BY DEF Types, ConType, LoopType, Queues
<1>1. /\ UNCHANGED <<sock, stage, submitted, wire>> /\ loop'[c].pc = "outEnd"
      /\ loop[c].pc = "pop" /\ \A d \in Connections \ {c} : loop'[d] = loop[d]
  BY <1>0 DEF EventPop, history
<1>2. con[c].tasks \in Seq(Seq(Numbers)) /\ con[c].tasks # <<>> /\ Head(con[c].tasks) = <<>>
  BY <1>0, <1>1 DEF Queue, Con
<1>3. PICK ts \in Seq(Seq(Numbers)) : ts = Tail(con[c].tasks)
        /\ FlattenSeq(ts) = FlattenSeq(con[c].tasks)
  BY <1>2, FlattenPopped
<1> DEFINE x == [con[c] EXCEPT !.tasks = ts]
<1>4. con' = [con EXCEPT ![c] = x]
  BY <1>0, <1>3 DEF EventPop
<1>5. x \in Con /\ x.connected = con[c].connected /\ x.pending = con[c].pending /\ x.tasks = ts
  BY <1>0, <1>3 DEF Con
<1> HIDE DEF x
<1>6. con' \in [Connections -> Con] /\ con'[c] = x
        /\ \A d \in Connections \ {c} : con'[d] = con[d]
  BY <1>0, <1>4, <1>5
<1>7. Queue(c)'
  <2>1. con[c].connected
    BY <1>0, <1>2 DEF Queue
  <2> QED
    BY <1>0, <1>1, <1>3, <1>5, <1>6, <2>1 DEF Queue
<1>8. ASSUME NEW d \in Connections, d # c PROVE Queue(d)'
  BY <1>1, <1>6, <1>8, QueueSame DEF Kept, Queues
<1> QED
  BY <1>1, <1>5, <1>6, <1>7, <1>8, SockSame DEF ConType, Queues

\* Cat is associative.
LEMMA CatAssoc ==
  \A s, t, u \in Seq(Numbers) : Cat(s, Cat(t, u)) = Cat(Cat(s, t), u)
BY Assoc DEF Cat

\* A buffer is a sequence of numbers, as long as it was asked for.
LEMMA BufferType ==
  ASSUME Types, NEW c \in Connections, Count(c) < MaxSends, NEW n \in Sizes
  PROVE  Buffer(c, n) \in Seq(Numbers) /\ Len(Buffer(c, n)) = n /\ n \in Nat
<1>1. submitted[c] \in Seq(Numbers) /\ n \in Nat /\ MaxSends \in Nat
  BY BoundsNat DEF Types, BytesType
<1>2. Count(c) \in 0..MaxSends
  <2>1. CASE submitted[c] = <<>>
    BY <1>1, <2>1 DEF Count
  <2>2. CASE submitted[c] # <<>>
    <3>1. Len(submitted[c]) \in 1..Len(submitted[c])
      BY <1>1, <2>2
    <3>2. submitted[c][Len(submitted[c])] \in Numbers
      BY <1>1, <3>1, ElementOfSeq
    <3>3. Count(c) \in Numbers
      BY <2>2, <3>2 DEF Count, Last
    <3> QED
      BY <1>1, <3>3 DEF Numbers
  <2> QED
    BY <2>1, <2>2
<1> DEFINE k == Count(c) + 1
<1>3. k \in Numbers
  BY <1>1, <1>2 DEF Numbers
<1> HIDE DEF k
<1>4. [i \in 1..n |-> k] \in Seq(Numbers) /\ Len([i \in 1..n |-> k]) = n
  BY <1>1, <1>3
<1> QED
  BY <1>1, <1>4 DEF Buffer, k

\* A buffer is transmitted or waits behind the others.
LEMMA SendEffect ==
  ASSUME Types, Queues, NEW s \in Senders, NEW c \in Connections, NEW n \in Sizes,
         Count(c) < MaxSends, SendBuffer(s, c, n)
  PROVE  /\ ConType' /\ BytesType' /\ crash' \in {crash, "SIGPIPE"} /\ Queues'
         /\ \A d \in Connections : con'[d].connected = con[d].connected
<1> DEFINE b == Buffer(c, n)
<1>0. /\ con[c] \in Con /\ con \in [Connections -> Con] /\ Queue(c) /\ con[c].connected
      /\ submitted \in [Connections -> Seq(Numbers)] /\ wire \in [Connections -> Seq(Numbers)]
      /\ UNCHANGED <<stage, loop>> /\ stage[c] = "served"
  BY DEF Types, ConType, Queues, BytesType, SendBuffer
<1>1. b \in Seq(Numbers) /\ Len(b) = n /\ n \in Nat
  BY BufferType
<1>2. submitted' = [submitted EXCEPT ![c] = Cat(submitted[c], b)]
  BY <1>0 DEF SendBuffer, Cat
<1>3. Cat(submitted[c], b) \in Seq(Numbers)
  BY <1>0, <1>1, PrefixCat
<1>4. /\ submitted' \in [Connections -> Seq(Numbers)] /\ submitted'[c] = Cat(submitted[c], b)
      /\ \A d \in Connections \ {c} : submitted'[d] = submitted[d]
  BY <1>0, <1>2, <1>3
<1>5. CASE con[c].tasks = <<>>
  <2> DEFINE p == con[c].pending + n
             ts == <<b>>
  <2>1. Transmit(c, ts, p, TRUE)
    BY <1>5 DEF SendBuffer
  <2>2. con[c].pending = 0 /\ loop[c].pc # "pop" /\ wire[c] = submitted[c]
    BY <1>0, <1>5, NothingWaits
  <2>3. ts \in Seq(Seq(Numbers)) /\ ts # <<>>
    BY <1>1
  <2>4. FlattenSeq(ts) = b
    BY <1>1, FlattenOne
  <2>5. p \in Int /\ p = n
    BY <1>1, <2>2
  <2> HIDE DEF p, ts, b
  <2>6. /\ ConType' /\ wire' \in [Connections -> Seq(Numbers)] /\ crash' \in {crash, "SIGPIPE"}
        /\ \A d \in Connections \ {c} : con'[d] = con[d] /\ wire'[d] = wire[d]
        /\ con'[c].connected = con[c].connected
        /\ Cat(wire'[c], FlattenSeq(con'[c].tasks)) = Cat(wire[c], FlattenSeq(ts))
        /\ con'[c].pending - Len(FlattenSeq(con'[c].tasks)) = p - Len(FlattenSeq(ts))
    BY <2>1, <2>3, <2>5, TransmitEffect
  <2>7. Queue(c)'
    <3>1. Cat(wire[c], FlattenSeq(ts)) = submitted'[c] /\ p = Len(FlattenSeq(ts))
      BY <1>1, <1>4, <2>2, <2>4, <2>5
    <3>2. con'[c].connected /\ stage'[c] # "none" /\ loop'[c].pc # "pop"
      BY <1>0, <2>2, <2>6
    <3> QED
      BY <2>3, <2>5, <2>6, <3>1, <3>2, QueueTransmitted
  <2>8. ASSUME NEW d \in Connections, d # c PROVE Queue(d)'
    BY <1>0, <1>4, <2>6, <2>8, QueueSame DEF Kept, Queues
  <2> QED
    BY <1>4, <2>6, <2>7, <2>8 DEF Queues, BytesType
<1>6. CASE con[c].tasks # <<>>
  <2> DEFINE ts == Append(con[c].tasks, b)
             p == con[c].pending + n
             x == [[con[c] EXCEPT !.tasks = ts] EXCEPT !.pending = p]
  <2>1. con' = [con EXCEPT ![c] = x] /\ UNCHANGED <<sock, crash, wire>>
    BY <1>0, <1>6 DEF SendBuffer
  <2>2. con[c].tasks \in Seq(Seq(Numbers)) /\ con[c].pending \in Int
    BY <1>0 DEF Con
  <2>3. ts \in Seq(Seq(Numbers)) /\ ts # <<>> /\ Head(ts) = Head(con[c].tasks)
    <3> DEFINE T == Seq(Numbers)
               q == con[c].tasks
    <3>1. q \in Seq(T) /\ b \in T /\ q # <<>>
      BY <1>1, <1>6, <2>2
    <3> HIDE DEF T, q, b
    <3>2. Append(q, b) \in Seq(T) /\ Append(q, b) # <<>> /\ Head(Append(q, b)) = Head(q)
      BY <3>1
    <3> QED
      BY <3>2 DEF T, q
  <2>4. FlattenSeq(ts) = Cat(FlattenSeq(con[c].tasks), b)
    BY <1>1, <2>2, FlattenAppend DEF Cat
  <2>9. p \in Int
    BY <1>1, <2>2
  <2> HIDE DEF ts, b, p
  <2>5. x \in Con /\ x.connected = con[c].connected /\ x.tasks = ts /\ x.pending = p
    BY <1>0, <2>3, <2>9 DEF Con
  <2> HIDE DEF x
  <2>6. con' \in [Connections -> Con] /\ con'[c] = x
          /\ \A d \in Connections \ {c} : con'[d] = con[d]
    BY <1>0, <2>1, <2>5
  <2>7. Queue(c)'
    <3>1. PICK f \in Seq(Numbers) : f = FlattenSeq(con[c].tasks)
      BY <2>2, FlattenType
    <3>2. /\ Cat(wire[c], f) = submitted[c] /\ con[c].pending = Len(f)
          /\ IsPrefix(wire[c], submitted[c])
          /\ loop[c].pc = "pop" => Head(con[c].tasks) = <<>>
      BY <1>0, <3>1 DEF Queue
    <3>3. wire[c] \in Seq(Numbers)
      BY <1>0
    <3>4. Cat(wire[c], Cat(f, b)) = Cat(Cat(wire[c], f), b)
      BY <1>1, <3>3, CatAssoc
    <3>5. Cat(f, b) \in Seq(Numbers)
      BY <1>1, PrefixCat
    <3>6. IsPrefix(wire[c], Cat(wire[c], Cat(f, b)))
      BY <3>3, <3>5, PrefixCat
    <3>7. Len(Cat(f, b)) = Len(f) + Len(b)
      BY <1>1, ConcatProperties DEF Cat
    <3>8. p = Len(FlattenSeq(ts)) /\ Cat(wire[c], FlattenSeq(ts)) = submitted'[c]
          /\ IsPrefix(wire[c], submitted'[c])
      BY <1>1, <1>4, <2>4, <3>1, <3>2, <3>4, <3>6, <3>7 DEF p
    <3> QED
      BY <1>0, <2>1, <2>3, <2>5, <2>6, <3>2, <3>8 DEF Queue
  <2>8. ASSUME NEW d \in Connections, d # c PROVE Queue(d)'
    BY <1>0, <1>4, <2>1, <2>6, <2>8, QueueSame DEF Kept, Queues
  <2> QED
    BY <1>0, <1>4, <2>1, <2>5, <2>6, <2>7, <2>8, SockSame DEF ConType, Queues, BytesType
<1> QED
  BY <1>5, <1>6

-----------------------------------------------------------------------------
(* Each variable has its type after every step. *)

\* No stage is left for "none".
LEMMA StageTypes ==
  ASSUME Types, Next
  PROVE  StageType' /\ \A c \in Connections : stage'[c] = "none" => stage[c] = "none"
<1>1. stage \in [Connections -> Stages]
  BY DEF Types, StageType
<1>2. CASE stage' = stage
  BY <1>1, <1>2 DEF StageType
<1>3. ASSUME NEW c \in Connections, NEW t \in Stages \ {"none"}, stage' = [stage EXCEPT ![c] = t]
      PROVE  StageType' /\ \A d \in Connections : stage'[d] = "none" => stage[d] = "none"
  BY <1>1, <1>3 DEF StageType, Stages
<1>4. ASSUME NEW c \in Connections, Accept(c) \/ AcceptorStep(c)
      PROVE  \E t \in Stages \ {"none"} : stage' = [stage EXCEPT ![c] = t]
  BY <1>4 DEF Stages, Accept, AcceptorStep, SetCallbacks, Insert, MakeUserConnection, AddUser,
     FirstRecv,
     FirstRecvFails
<1>5. ASSUME NEW c \in Connections, LoopStep(c) \/ HangUp(c) \/ Peer(c)
      PROVE  stage' = stage
  BY <1>5 DEF LoopStep, HangUp, Peer, Wake, EventIn, EventInEnd, EventErr, EventOut, EventPop,
     EventOutEnd,
     EventEnd, Report, RemoveUser, Erase, Reported
<1>6. ASSUME NEW s \in Senders, SenderStep(s) \/ \E c \in Connections : Send(s, c)
      PROVE  stage' = stage
  BY <1>6 DEF SenderStep, SendFails, CheckPending, GiveUp, Send, SendBuffer
<1>7. ASSUME Close \/ CloseStep
      PROVE  stage' = stage
  BY <1>7 DEF Close, CloseStep, Copy, Closed, CloseConnection
<1> QED
  BY <1>2, <1>3, <1>4, <1>5, <1>6, <1>7 DEF Next

\* A loop comes to "pop" from a transmission only.
LEMMA LoopTypes ==
  ASSUME Types, Next
  PROVE  /\ LoopType'
         /\ \A c \in Connections : loop'[c].pc = "pop" => loop[c].pc = "pop" \/ EventOut(c)
<1>0. loop \in [Connections -> Loop] /\ con \in [Connections -> Con]
        /\ sock \in [Connections -> Sock]
  BY DEF Types, LoopType, ConType
<1>1. CASE loop' = loop
  BY <1>0, <1>1 DEF LoopType
<1>2. ASSUME NEW c \in Connections, NEW l \in Loop, loop' = [loop EXCEPT ![c] = l],
             l.pc = "pop" => EventOut(c)
      PROVE  /\ LoopType'
             /\ \A d \in Connections : loop'[d].pc = "pop" => loop[d].pc = "pop" \/ EventOut(d)
  BY <1>0, <1>2 DEF LoopType
<1>3. ASSUME NEW c \in Connections, LoopStep(c)
      PROVE  \E l \in Loop : loop' = [loop EXCEPT ![c] = l] /\ (l.pc = "pop" => EventOut(c))
  <2>0. loop[c] \in Loop /\ con[c] \in Con /\ sock[c] \in Sock
    BY <1>0
  <2>1. CASE Wake(c)
    <3> DEFINE e == Happens(c)
               p == IF e.in THEN "in" ELSE AfterIn(e)
               l == [[loop[c] EXCEPT !.events = e] EXCEPT !.pc = p]
    <3>1. e \in [in : BOOLEAN, err : BOOLEAN, out : BOOLEAN] /\ p \in {"in", "err", "out", "end"}
      BY <2>0 DEF Happens, AfterIn, Con, Sock
    <3>2. loop' = [loop EXCEPT ![c] = l]
      BY <1>0, <2>1 DEF Wake
    <3> HIDE DEF e, p
    <3>3. l \in Loop /\ l.pc # "pop"
      BY <2>0, <3>1 DEF Loop, Working, Going
    <3> QED
      BY <3>2, <3>3
  <2>2. CASE EventIn(c)
    <3> DEFINE f == IF con[c].reading THEN RecvFails(c) ELSE loop[c].failed
               p == IF con[c].reading /\ RecvFails(c) THEN "end" ELSE "inEnd"
               l == [[loop[c] EXCEPT !.failed = f] EXCEPT !.pc = p]
    <3>1. f \in BOOLEAN /\ p \in {"end", "inEnd"}
      BY <2>0 DEF RecvFails, Sock, Loop
    <3>2. loop' = [loop EXCEPT ![c] = l]
      <4>1. CASE con[c].reading
        BY <1>0, <2>2, <4>1 DEF EventIn
      <4>2. CASE ~con[c].reading
        <5>1. loop' = [loop EXCEPT ![c].pc = "inEnd"]
          BY <2>2, <4>2 DEF EventIn
        <5>2. [loop[c] EXCEPT !.pc = "inEnd"] = l
          BY <2>0, <4>2 DEF Loop
        <5> QED
          BY <1>0, <5>1, <5>2
      <4> QED
        BY <4>1, <4>2
    <3> HIDE DEF f, p
    <3>3. l \in Loop /\ l.pc # "pop"
      BY <2>0, <3>1 DEF Loop, Working, Going
    <3> QED
      BY <3>2, <3>3
  <2>3. CASE EventErr(c)
    <3> DEFINE l == [[loop[c] EXCEPT !.pc = "end"] EXCEPT !.failed = sock[c].error]
    <3>1. sock[c].error \in BOOLEAN
      BY <2>0 DEF Sock
    <3>2. loop' = [loop EXCEPT ![c] = l]
      BY <1>0, <2>3 DEF EventErr
    <3>3. l \in Loop /\ l.pc # "pop"
      BY <2>0, <3>1 DEF Loop, Working, Going
    <3> QED
      BY <3>2, <3>3
  <2>4. CASE EventOut(c)
    <3>1. CASE con[c].tasks = <<>>
      <4>1. loop' = [loop EXCEPT ![c].pc = "outEnd"]
        BY <2>4, <3>1, Zenon DEF EventOut
      <4>2. [loop[c] EXCEPT !.pc = "outEnd"] \in Loop
        BY <2>0 DEF Loop, Working, Going
      <4> QED
        BY <1>0, <2>4, <4>1, <4>2
    <3>2. CASE con[c].tasks # <<>>
      <4>1. PICK p : p = CASE Head(con'[c].tasks) = <<>> -> "pop"
                                    [] sock[c].error -> "end" [] OTHER -> "outEnd"
        OBVIOUS
      <4> DEFINE l == [[loop[c] EXCEPT !.failed = sock[c].error] EXCEPT !.pc = p]
      <4>2. p \in {"pop", "end", "outEnd"} /\ sock[c].error \in BOOLEAN
        BY <2>0, <4>1 DEF Sock
      <4>3. loop' = [loop EXCEPT ![c].failed = sock[c].error, ![c].pc = p]
        BY <2>4, <3>2, <4>1 DEF EventOut
      <4>4. loop' = [loop EXCEPT ![c] = l]
        BY <1>0, <4>3
      <4>5. l \in Loop
        BY <2>0, <4>2 DEF Loop, Working, Going
      <4> QED
        BY <2>4, <4>4, <4>5
    <3> QED
      BY <3>1, <3>2
  <2>5. CASE EventEnd(c)
    <3>1. \E p \in {"down", "wait"} :
            loop' = [loop EXCEPT ![c] = [pc |-> p, events |-> NoEvents, failed |-> FALSE]]
      BY <2>5 DEF EventEnd
    <3>2. ASSUME NEW p \in {"down", "wait"}
          PROVE  [pc |-> p, events |-> NoEvents, failed |-> FALSE] \in Loop
      BY DEF Loop, Working, Going, NoEvents
    <3> QED
      BY <3>1, <3>2
  <2>6. CASE EventInEnd(c) \/ EventPop(c) \/ EventOutEnd(c) \/ Report(c) \/ RemoveUser(c)
             \/ Erase(c) \/ Reported(c)
    <3>1. \E p \in {"wait", "err", "out", "outEnd", "end", "reported", "forget", "erase"} :
            loop' = [loop EXCEPT ![c].pc = p]
      BY <2>6 DEF EventInEnd, AfterIn, EventPop, EventOutEnd, Report, RemoveUser, Erase, Reported
    <3>2. ASSUME NEW p \in {"wait", "err", "out", "outEnd", "end", "reported", "forget", "erase"}
          PROVE  /\ [loop[c] EXCEPT !.pc = p] \in Loop /\ [loop[c] EXCEPT !.pc = p].pc # "pop"
                 /\ [loop EXCEPT ![c].pc = p] = [loop EXCEPT ![c] = [loop[c] EXCEPT !.pc = p]]
      BY <1>0, <2>0 DEF Loop, Working, Going
    <3> QED
      BY <3>1, <3>2
  <2> QED
    BY <1>3, <2>1, <2>2, <2>3, <2>4, <2>5, <2>6 DEF LoopStep
<1>4. ASSUME NEW c \in Connections, Accept(c) \/ AcceptorStep(c) \/ HangUp(c) \/ Peer(c)
      PROVE  loop' = loop
  BY <1>4 DEF Accept, AcceptorStep, HangUp, Peer, SetCallbacks, Insert, MakeUserConnection,
     AddUser, FirstRecv,
     FirstRecvFails
<1>5. ASSUME NEW s \in Senders, SenderStep(s) \/ \E c \in Connections : Send(s, c)
      PROVE  loop' = loop
  BY <1>5 DEF SenderStep, SendFails, CheckPending, GiveUp, Send, SendBuffer
<1>6. ASSUME Close \/ CloseStep
      PROVE  loop' = loop
  BY <1>6 DEF Close, CloseStep, Copy, Closed, CloseConnection
<1>7. CASE \E c \in Connections : LoopStep(c)
  BY <1>2, <1>3, <1>7
<1> QED
  BY <1>1, <1>4, <1>5, <1>6, <1>7 DEF Next

\* The senders.
LEMMA SenderTypes ==
  ASSUME Types, Next
  PROVE  SenderType'
<1>0. sender \in [Senders -> Sending]
  BY DEF Types, SenderType
<1>1. CASE sender' = sender
  BY <1>0, <1>1 DEF SenderType
<1>2. ASSUME NEW s \in Senders, NEW r \in Sending, sender' = [sender EXCEPT ![s] = r]
      PROVE  SenderType'
  BY <1>0, <1>2 DEF SenderType
<1>3. ASSUME NEW s \in Senders, SenderStep(s)
      PROVE  \E r \in Sending : sender' = [sender EXCEPT ![s] = r]
  <2>0. sender[s] \in Sending
    BY <1>0
  <2>1. CASE SendFails(s)
    <3> DEFINE r == [sender[s] EXCEPT !.pc = "check"]
    <3>1. sender' = [sender EXCEPT ![s] = r] /\ r \in Sending
      BY <1>0, <2>0, <2>1 DEF SendFails, Sending
    <3> QED
      BY <3>1
  <2>2. CASE CheckPending(s)
    <3>1. PICK c \in sender[s].to :
            sender' = [sender EXCEPT ![s] = IF con[c].pending >= MaxPending
                                       THEN [pc |-> "over", to |-> {c}]
                                       ELSE [pc |-> "idle", to |-> {}]]
      BY <2>2 DEF CheckPending
    <3>2. c \in Connections
      BY <2>0 DEF Sending
    <3>3. [pc |-> "over", to |-> {c}] \in Sending /\ [pc |-> "idle", to |-> {}] \in Sending
      BY <3>2 DEF Sending
    <3>4. CASE con[c].pending >= MaxPending
      BY <3>1, <3>3, <3>4
    <3>5. CASE ~(con[c].pending >= MaxPending)
      BY <3>1, <3>3, <3>5
    <3> QED
      BY <3>4, <3>5
  <2>3. CASE GiveUp(s)
    <3>1. [pc |-> "idle", to |-> {}] \in Sending
      BY DEF Sending
    <3> QED
      BY <2>3, <3>1 DEF GiveUp
  <2> QED
    BY <1>3, <2>1, <2>2, <2>3 DEF SenderStep
<1>4. ASSUME NEW s \in Senders, NEW c \in Connections, Send(s, c)
      PROVE  \E r \in Sending : sender' = [sender EXCEPT ![s] = r]
  <2>1. \E p \in {"failed", "check"} : sender' = [sender EXCEPT ![s] = [pc |-> p, to |-> {c}]]
    BY <1>4 DEF Send, SendBuffer
  <2>2. ASSUME NEW p \in {"failed", "check"} PROVE [pc |-> p, to |-> {c}] \in Sending
    BY DEF Sending
  <2> QED
    BY <2>1, <2>2
<1>5. ASSUME NEW c \in Connections, Accept(c) \/ AcceptorStep(c) \/ HangUp(c) \/ Peer(c)
      PROVE  sender' = sender
  BY <1>5 DEF Accept, AcceptorStep, HangUp, Peer, SetCallbacks, Insert, MakeUserConnection,
     AddUser, FirstRecv,
     FirstRecvFails
<1>6. ASSUME NEW c \in Connections, LoopStep(c)
      PROVE  sender' = sender
  BY <1>6 DEF LoopStep, Wake, EventIn, EventInEnd, EventErr, EventOut, EventPop, EventOutEnd,
     EventEnd, Report, RemoveUser, Erase, Reported
<1>7. ASSUME Close \/ CloseStep
      PROVE  sender' = sender
  BY <1>7 DEF Close, CloseStep, Copy, Closed, CloseConnection
<1>8. CASE \E s \in Senders : SenderStep(s) \/ \E c \in Connections : Send(s, c)
  BY <1>2, <1>3, <1>4, <1>8
<1> QED
  BY <1>1, <1>5, <1>6, <1>7, <1>8 DEF Next

\* The tables.
LEMMA TableTypes ==
  ASSUME Types, Next
  PROVE  TableType'
<1>0. {connections, users, todo, early} \subseteq SUBSET Connections
  BY DEF Types, TableType
<1>1. CASE UNCHANGED <<connections, users, todo, early>>
  BY <1>0, <1>1 DEF TableType
<1>2. ASSUME NEW c \in Connections, Insert(c) \/ AddUser(c) \/ EventEnd(c) \/ RemoveUser(c)
               \/ Erase(c)
      PROVE  TableType'
  BY <1>0, <1>2 DEF TableType, Insert, AddUser, EventEnd, RemoveUser, Erase, table, closing,
     history
<1>3. ASSUME NEW c \in Connections,
             Accept(c) \/ SetCallbacks(c) \/ MakeUserConnection(c) \/ FirstRecv(c)
               \/ FirstRecvFails(c)
             \/ HangUp(c) \/ Peer(c)
      PROVE  UNCHANGED <<connections, users, todo, early>>
  BY <1>3 DEF Accept, SetCallbacks, MakeUserConnection, FirstRecv, FirstRecvFails, HangUp, Peer,
     table, closing, history
<1>4. ASSUME NEW c \in Connections,
             Wake(c) \/ EventIn(c) \/ EventInEnd(c) \/ EventErr(c) \/ EventOut(c) \/ EventPop(c)
             \/ EventOutEnd(c) \/ Report(c) \/ Reported(c)
      PROVE  UNCHANGED <<connections, users, todo, early>>
  BY <1>4 DEF Wake, EventIn, EventInEnd, EventErr, EventOut, EventPop, EventOutEnd, Report,
     Reported,
     table, closing, history
<1>5. ASSUME NEW s \in Senders, SenderStep(s) \/ \E c \in Connections : Send(s, c)
      PROVE  UNCHANGED <<connections, users, todo, early>>
  BY <1>5 DEF SenderStep, SendFails, CheckPending, GiveUp, Send, SendBuffer, table, closing,
     history
<1>6. ASSUME Close \/ CloseStep
      PROVE  TableType'
  BY <1>0, <1>6 DEF TableType, Close, CloseStep, Copy, Closed, CloseConnection, table, history
<1> QED
  BY <1>1, <1>2, <1>3, <1>4, <1>5, <1>6 DEF Next, AcceptorStep, LoopStep

\* The connections, the bytes, and what each connection has to send.
LEMMA ByteTypes ==
  ASSUME Types, Queues, Next
  PROVE  /\ ConType' /\ BytesType' /\ Queues'
<1>0. submitted \in [Connections -> Seq(Numbers)] /\ wire \in [Connections -> Seq(Numbers)]
  BY DEF Types, BytesType
<1>1. /\ \A c \in Connections : stage'[c] = "none" => stage[c] = "none"
      /\ \A c \in Connections : loop'[c].pc = "pop" => loop[c].pc = "pop" \/ EventOut(c)
  BY StageTypes, LoopTypes
<1>2. ASSUME ConType', \A d \in Connections : Kept(d), UNCHANGED <<submitted, wire>>
      PROVE  ConType' /\ BytesType' /\ Queues'
  <2>1. ASSUME NEW d \in Connections PROVE Queue(d)'
    <3>1. Queue(d)
      BY DEF Queues
    <3>2. CASE EventOut(d)
      BY OutEffect, <3>2 DEF Queues
    <3>3. CASE ~EventOut(d)
      <4>1. Kept(d) /\ wire'[d] = wire[d] /\ submitted'[d] = submitted[d]
            /\ (stage'[d] = "none" => stage[d] = "none")
            /\ (loop'[d].pc = "pop" => loop[d].pc = "pop")
        BY <1>1, <1>2, <3>3
      <4> QED
        BY <3>1, <4>1, QueueSame
    <3> QED
      BY <3>2, <3>3
  <2> QED
    BY <1>0, <1>2, <2>1 DEF Queues, BytesType
<1>3. ASSUME UNCHANGED <<con, sock, submitted, wire>>
      PROVE  ConType' /\ BytesType' /\ Queues'
  <2>1. ConType' /\ \A d \in Connections : Kept(d)
    BY <1>3, ConSame, SockSame DEF ConType
  <2> QED
    BY <1>2, <1>3, <2>1
<1>4. ASSUME NEW c \in Connections, Flagging(c)
      PROVE  ConType' /\ BytesType' /\ Queues'
  <2>1. ConType' /\ \A d \in Connections : Kept(d)
    BY <1>4, FlaggingEffect
  <2>2. UNCHANGED <<submitted, wire>>
    BY <1>4 DEF Flagging, MakeUserConnection, FirstRecv, FirstRecvFails, EventIn, EventInEnd,
       EventErr,
       EventOutEnd, Reported, HangUp, Peer, CloseConnection, history
  <2> QED
    BY <1>2, <2>1, <2>2
<1>5. ASSUME NEW c \in Connections, Accept(c) \/ EventPop(c) \/ EventEnd(c)
      PROVE  ConType' /\ BytesType' /\ Queues'
  <2>1. UNCHANGED <<submitted, wire>>
    BY <1>5 DEF Accept, EventPop, EventEnd, history
  <2>2. ConType' /\ Queues'
    BY <1>5, AcceptEffect, PopEffect, EndEffect
  <2> QED
    BY <1>0, <2>1, <2>2 DEF BytesType
<1>6. ASSUME NEW c \in Connections, EventOut(c)
      PROVE  ConType' /\ BytesType' /\ Queues'
  <2>1. submitted' = submitted
    BY <1>6 DEF EventOut
  <2>2. ConType' /\ wire' \in [Connections -> Seq(Numbers)] /\ Queues'
    BY <1>6, OutEffect
  <2> QED
    BY <1>0, <2>1, <2>2 DEF BytesType
<1>7. ASSUME NEW s \in Senders, NEW c \in Connections, Send(s, c)
      PROVE  ConType' /\ BytesType' /\ Queues'
  <2>1. PICK n \in Sizes : Count(c) < MaxSends /\ SendBuffer(s, c, n)
    BY <1>7 DEF Send
  <2> QED
    BY <2>1, SendEffect
<1>8. ASSUME NEW c \in Connections,
             SetCallbacks(c) \/ Insert(c) \/ AddUser(c) \/ Wake(c) \/ Report(c) \/ RemoveUser(c)
               \/ Erase(c)
      PROVE  UNCHANGED <<con, sock, submitted, wire>>
  BY <1>8 DEF SetCallbacks, Insert, AddUser, Wake, Report, RemoveUser, Erase, history
<1>9. ASSUME NEW s \in Senders, SenderStep(s)
      PROVE  ConType' /\ BytesType' /\ Queues'
  <2>1. UNCHANGED <<submitted, wire>>
    BY <1>9 DEF SenderStep, SendFails, CheckPending, GiveUp, history
  <2>2. CASE UNCHANGED <<con, sock>>
    BY <1>3, <2>1, <2>2
  <2>3. CASE \E c \in sender[s].to : Disconnect(c)
    <3>1. sender[s].to \subseteq Connections
      BY DEF Types, SenderType, Sending
    <3>2. PICK c \in Connections : Disconnect(c)
      BY <2>3, <3>1
    <3> QED
      BY <1>2, <2>1, <3>2, DisconnectEffect
  <2> QED
    BY <1>9, <2>2, <2>3 DEF SenderStep, SendFails, CheckPending, GiveUp
<1>10. ASSUME Close \/ Copy \/ Closed
      PROVE  UNCHANGED <<con, sock, submitted, wire>>
  BY <1>10 DEF Close, Copy, Closed, history
<1>11. CASE \E c \in Connections : Accept(c) \/ AcceptorStep(c) \/ LoopStep(c) \/ HangUp(c)
         \/ Peer(c)
  <2>1. PICK c \in Connections : Accept(c) \/ AcceptorStep(c) \/ LoopStep(c) \/ HangUp(c)
          \/ Peer(c)
    BY <1>11
  <2>2. \/ Flagging(c) \/ EventOut(c)
        \/ Accept(c) \/ EventPop(c) \/ EventEnd(c)
        \/ SetCallbacks(c) \/ Insert(c) \/ AddUser(c) \/ Wake(c) \/ Report(c) \/ RemoveUser(c)
             \/ Erase(c)
    BY <2>1, Zenon DEF AcceptorStep, LoopStep, Flagging
  <2> QED
    BY <1>3, <1>4, <1>5, <1>6, <1>8, <2>2
<1>12. CASE \E s \in Senders : SenderStep(s) \/ \E c \in Connections : Send(s, c)
  BY <1>7, <1>9, <1>12
<1>13. CASE Close \/ CloseStep
  <2>1. CASE \E c \in Connections : CloseConnection(c)
    BY <1>4, <2>1 DEF Flagging
  <2> QED
    BY <1>3, <1>10, <1>13, <2>1 DEF CloseStep
<1> QED
  BY <1>11, <1>12, <1>13 DEF Next

\* The server and the end of the process.
LEMMA EndTypes ==
  ASSUME Types, Queues, Next
  PROVE  EndType'
<1>0. EndType
  BY DEF Types
<1>1. crash' \in {"no", "no user", "not a user", "SIGPIPE", "race"}
  <2>1. ASSUME NEW c \in Connections, EventOut(c) PROVE crash' \in {crash, "SIGPIPE"}
    BY <2>1, OutEffect
  <2>2. ASSUME NEW s \in Senders, NEW c \in Connections, Send(s, c)
                 PROVE crash' \in {crash, "SIGPIPE"}
    BY <2>2, SendEffect DEF Send
  <2>3. ASSUME NEW c \in Connections, Accept(c) \/ AcceptorStep(c) \/ HangUp(c) \/ Peer(c)
        PROVE  crash' \in {crash, "race"}
    BY <2>3 DEF Accept, AcceptorStep, HangUp, Peer, SetCallbacks, Insert, MakeUserConnection,
       AddUser,
       FirstRecv, FirstRecvFails
  <2>4. ASSUME NEW c \in Connections, LoopStep(c), ~EventOut(c)
        PROVE  crash' \in {crash, "no user", "not a user", "race"}
    BY <2>4 DEF LoopStep, Wake, EventIn, EventInEnd, EventErr, EventPop, EventOutEnd,
       EventEnd, Report, RemoveUser, Erase, Reported
  <2>5. ASSUME NEW s \in Senders, SenderStep(s) PROVE crash' = crash
    BY <2>5 DEF SenderStep, SendFails, CheckPending, GiveUp
  <2>6. ASSUME Close \/ CloseStep PROVE crash' = crash
    BY <2>6 DEF Close, CloseStep, Copy, Closed, CloseConnection
  <2>7. crash' \in {crash, "no user", "not a user", "SIGPIPE", "race"}
    BY <2>1, <2>2, <2>3, <2>4, <2>5, <2>6 DEF Next
  <2> QED
    BY <1>0, <2>7 DEF EndType
<1>2. server' \in {"open", "joining", "disconnecting", "closed"}
  <2>1. ASSUME NEW c \in Connections, Accept(c) \/ AcceptorStep(c) \/ HangUp(c) \/ Peer(c)
        PROVE  server' = server
    BY <2>1 DEF Accept, AcceptorStep, HangUp, Peer, SetCallbacks, Insert, MakeUserConnection,
       AddUser,
       FirstRecv, FirstRecvFails, closing
  <2>2. ASSUME NEW c \in Connections, LoopStep(c) PROVE server' = server
    BY <2>2 DEF LoopStep, Wake, EventIn, EventInEnd, EventErr, EventOut, EventPop, EventOutEnd,
       EventEnd, Report, RemoveUser, Erase, Reported, closing
  <2>3. ASSUME NEW s \in Senders, SenderStep(s) \/ \E c \in Connections : Send(s, c)
        PROVE  server' = server
    BY <2>3 DEF SenderStep, SendFails, CheckPending, GiveUp, Send, SendBuffer, closing
  <2>4. CASE Close \/ CloseStep
    BY <1>0, <2>4 DEF Close, CloseStep, Copy, Closed, CloseConnection, EndType
  <2>5. CASE server' = server
    BY <1>0, <2>5 DEF EndType
  <2> QED
    BY <2>1, <2>2, <2>3, <2>4, <2>5 DEF Next
<1> QED
  BY <1>1, <1>2 DEF EndType

\* The inductive invariant of the bytes.
Stream == Types /\ Queues

\* Initially.
LEMMA StreamInit == ASSUME Init PROVE Stream
<1>1. <<>> \in Seq(Numbers) /\ <<>> \in Seq(Seq(Numbers))
  OBVIOUS
<1>2. StageType
  BY DEF Init, StageType, Stages
<1>3. ConType
  <2>1. [connected |-> FALSE, disconnecting |-> FALSE, pollIn |-> FALSE, pollOut |-> FALSE,
         reading |-> FALSE, tasks |-> <<>>, pending |-> 0] \in Con
    BY <1>1 DEF Con
  <2>2. [room |-> Room, inbound |-> FALSE, shut |-> FALSE, error |-> FALSE] \in Sock
    BY BoundsNat DEF Sock
  <2> QED
    BY <2>1, <2>2 DEF Init, ConType
<1>4. LoopType
  BY DEF Init, LoopType, Loop, Working, Going, NoEvents
<1>5. SenderType
  BY DEF Init, SenderType, Sending
<1>6. TableType /\ EndType
  BY DEF Init, TableType, EndType
<1>7. BytesType
  BY <1>1 DEF Init, BytesType
<1>8. ASSUME NEW c \in Connections PROVE Queue(c)
  <2>1. /\ stage[c] = "none" /\ ~con[c].connected /\ con[c].tasks = <<>> /\ con[c].pending = 0
        /\ wire[c] = <<>> /\ submitted[c] = <<>> /\ loop[c].pc = "wait"
    BY DEF Init
  <2>2. FlattenSeq(<<>>) = <<>> /\ Len(<<>>) = 0
    BY FlattenEmpty
  <2>3. IsPrefix(<<>>, <<>>)
    BY DEF IsPrefix
  <2> QED
    BY <2>1, <2>2, <2>3 DEF Queue
<1> QED
  BY <1>2, <1>3, <1>4, <1>5, <1>6, <1>7, <1>8 DEF Stream, Types, Queues

\* Every step keeps it.
LEMMA StreamStep == ASSUME Stream, [Next]_vars PROVE Stream'
<1>1. CASE Next
  BY <1>1, StageTypes, LoopTypes, SenderTypes, TableTypes, ByteTypes, EndTypes DEF Stream, Types
<1>2. CASE UNCHANGED vars
  BY <1>2 DEF vars, table, closing, history, Stream, Types, StageType, ConType, LoopType,
     SenderType,
     TableType, EndType, BytesType, Queues, Queue
<1> QED
  BY <1>1, <1>2

\* It is an invariant.
LEMMA StreamAlways == Spec => []Stream
BY StreamInit, StreamStep, PTL DEF Spec

\* Every variable has its type, and m_numBytesPending is never negative.
THEOREM TypeCorrect == Spec => []TypeOK
<1>1. ASSUME Stream PROVE TypeOK
  <2>1. ASSUME NEW c \in Connections
        PROVE  /\ con[c] \in [connected : BOOLEAN, disconnecting : BOOLEAN, pollIn : BOOLEAN,
                      pollOut : BOOLEAN, reading : BOOLEAN, tasks : Seq(Seq(1..MaxSends)),
                      pending : Nat]
               /\ sock[c] \in [room : 0..Room, inbound : BOOLEAN, shut : BOOLEAN, error : BOOLEAN]
               /\ loop[c].pc \in {"wait", "in", "inEnd", "err", "out", "pop", "outEnd", "end",
                    "down",
                          "forget", "erase", "reported"}
               /\ submitted[c] \in Seq(1..MaxSends) /\ wire[c] \in Seq(1..MaxSends)
    <3>1. con[c] \in Con /\ sock[c] \in Sock /\ loop[c] \in Loop
          /\ submitted[c] \in Seq(Numbers) /\ wire[c] \in Seq(Numbers) /\ Queue(c)
      BY <1>1 DEF Stream, Types, ConType, LoopType, BytesType, Queues
    <3>2. con[c].pending \in Nat
      <4>1. PICK f \in Seq(Numbers) : f = FlattenSeq(con[c].tasks)
        BY <3>1, FlattenType DEF Con
      <4> QED
        BY <3>1, <4>1 DEF Queue
    <3>3. con[c] \in [connected : BOOLEAN, disconnecting : BOOLEAN, pollIn : BOOLEAN,
                      pollOut : BOOLEAN, reading : BOOLEAN, tasks : Seq(Seq(Numbers)),
                      pending : Nat]
      BY <3>1, <3>2 DEF Con
    <3>4. sock[c] \in [room : 0..Room, inbound : BOOLEAN, shut : BOOLEAN, error : BOOLEAN]
      BY <3>1 DEF Sock
    <3>5. loop[c].pc \in {"wait", "in", "inEnd", "err", "out", "pop", "outEnd", "end", "down",
                          "forget", "erase", "reported"}
      BY <3>1 DEF Loop, Working, Going
    <3> QED
      BY <3>1, <3>3, <3>4, <3>5 DEF Numbers
  <2> QED
    BY <1>1, <2>1 DEF TypeOK, Stream, Types, StageType, Stages, TableType, EndType
<1> QED
  BY <1>1, StreamAlways, PTL

\* The peer gets the bytes in the order of the calls of send, none twice; what it has not got
\* waits in the queue of a connection that is still there, and is counted.
THEOREM StreamStaysIntact == Spec => []StreamIntact
<1>1. ASSUME Stream PROVE StreamIntact
  BY <1>1 DEF Stream, Queues, Queue, StreamIntact, Cat
<1> QED
  BY <1>1, StreamAlways, PTL

-----------------------------------------------------------------------------
(* The tables. *)

\* Unless a connection is lost early, a connection is connected until the loop ends it, and
\* the loop ends only connections that ServerBase has in its table.
Tabled(c) ==
  /\ loop[c].pc \in Working => con[c].connected
  /\ loop[c].pc \in Going => ~con[c].connected
  /\ stage[c] = "none" => ~con[c].connected /\ loop[c].pc = "wait"
  /\ stage[c] \in {"added", "callbacks", "listed", "bound", "refused"} => con[c].connected
  /\ c \in connections => con[c].connected \/ loop[c].pc \in {"down", "forget", "erase"}
  /\ stage[c] \in {"user", "failed", "served"} /\ con[c].connected => c \in users
  /\ loop[c].pc \in {"down", "forget"} => c \in users
  /\ c \in users => stage[c] \in {"user", "failed", "served"}
\* The tables as long as nobody was lost early.
NobodyEarly ==
  /\ crash \notin {"no user", "not a user"}
  /\ \A c \in Connections : Tabled(c)
Tables == early = {} => NobodyEarly

\* What Tabled is about stays as it is.
Same(d) ==
  /\ stage'[d] = stage[d] /\ con'[d].connected = con[d].connected /\ loop'[d].pc = loop[d].pc
  /\ (d \in users' <=> d \in users) /\ (d \in connections' <=> d \in connections)

\* Tabled depends on these only.
LEMMA TabledSame ==
  ASSUME NEW d \in Connections, Tabled(d), Same(d)
  PROVE  Tabled(d)'
BY DEF Tabled, Same

\* Only an event handled to its end, of a connection that is not in the table, is an early loss.
LEMMA EarlyGrows ==
  ASSUME Types, Next
  PROVE  early \subseteq early'
<1>1. ASSUME NEW c \in Connections, Accept(c) \/ AcceptorStep(c) \/ HangUp(c) \/ Peer(c)
      PROVE  early' = early
  BY <1>1 DEF Accept, AcceptorStep, HangUp, Peer, SetCallbacks, Insert, MakeUserConnection,
     AddUser,
     FirstRecv, FirstRecvFails, history
<1>2. ASSUME NEW c \in Connections, LoopStep(c) PROVE early \subseteq early'
  BY <1>2 DEF LoopStep, Wake, EventIn, EventInEnd, EventErr, EventOut, EventPop, EventOutEnd,
     EventEnd, Report, RemoveUser, Erase, Reported, history
<1>3. ASSUME NEW s \in Senders, SenderStep(s) \/ \E c \in Connections : Send(s, c)
      PROVE  early' = early
  BY <1>3 DEF SenderStep, SendFails, CheckPending, GiveUp, Send, SendBuffer, history
<1>4. ASSUME Close \/ CloseStep PROVE early' = early
  BY <1>4 DEF Close, CloseStep, Copy, Closed, CloseConnection, history
<1> QED
  BY <1>1, <1>2, <1>3, <1>4 DEF Next

\* Only Accept and EventEnd change m_connected.
LEMMA ConnectedKept ==
  ASSUME Types, Queues, NEW c \in Connections,
         AcceptorStep(c) \/ (LoopStep(c) /\ ~EventEnd(c)) \/ HangUp(c) \/ Peer(c)
           \/ CloseConnection(c)
  PROVE  \A d \in Connections : con'[d].connected = con[d].connected
<1>1. CASE Flagging(c)
  BY <1>1, FlaggingEffect DEF Kept
<1>2. CASE EventOut(c)
  BY <1>2, OutEffect
<1>3. CASE EventPop(c)
  BY <1>3, PopEffect
<1>4. CASE SetCallbacks(c) \/ Insert(c) \/ AddUser(c) \/ Wake(c) \/ Report(c) \/ RemoveUser(c)
        \/ Erase(c)
  <2>1. con' = con
    BY <1>4 DEF SetCallbacks, Insert, AddUser, Wake, Report, RemoveUser, Erase
  <2> QED
    BY <2>1
<1> QED
  BY <1>1, <1>2, <1>3, <1>4, Zenon DEF AcceptorStep, LoopStep, Flagging

\* Nobody but the acceptor and the loop of a connection touches what Tabled is about.
LEMMA OthersLeave ==
  ASSUME Types, Queues,
         \/ \E c \in Connections : HangUp(c) \/ Peer(c)
         \/ \E s \in Senders : SenderStep(s) \/ \E c \in Connections : Send(s, c)
         \/ Close \/ CloseStep
  PROVE  /\ crash' = crash \/ crash' = "SIGPIPE"
         /\ \A d \in Connections : Same(d)
<1>1. ASSUME NEW c \in Connections, HangUp(c) \/ Peer(c) \/ CloseConnection(c)
      PROVE  crash' = crash /\ \A d \in Connections : Same(d)
  <2>1. UNCHANGED <<stage, loop, users, connections, crash>>
    BY <1>1 DEF HangUp, Peer, CloseConnection, table
  <2>2. \A d \in Connections : con'[d].connected = con[d].connected
    BY <1>1, ConnectedKept
  <2> QED
    BY <2>1, <2>2 DEF Same
<1>2. ASSUME NEW s \in Senders, SenderStep(s)
      PROVE  crash' = crash /\ \A d \in Connections : Same(d)
  <2>1. UNCHANGED <<stage, loop, users, connections, crash>>
    BY <1>2 DEF SenderStep, SendFails, CheckPending, GiveUp, table
  <2>2. \A d \in Connections : con'[d].connected = con[d].connected
    <3>1. CASE UNCHANGED con
      BY <3>1
    <3>2. CASE \E c \in sender[s].to : Disconnect(c)
      <4>1. sender[s].to \subseteq Connections
        BY DEF Types, SenderType, Sending
      <4>2. PICK c \in Connections : Disconnect(c)
        BY <3>2, <4>1
      <4> QED
        BY <4>2, DisconnectEffect DEF Kept
    <3> QED
      BY <1>2, <3>1, <3>2 DEF SenderStep, SendFails, CheckPending, GiveUp
  <2> QED
    BY <2>1, <2>2 DEF Same
<1>3. ASSUME NEW s \in Senders, NEW c \in Connections, Send(s, c)
      PROVE  crash' \in {crash, "SIGPIPE"} /\ \A d \in Connections : Same(d)
  <2>1. PICK n \in Sizes : Count(c) < MaxSends /\ SendBuffer(s, c, n)
    BY <1>3 DEF Send
  <2>2. UNCHANGED <<stage, loop, users, connections>>
    BY <2>1 DEF SendBuffer, table
  <2> QED
    BY <2>1, <2>2, SendEffect DEF Same
<1>4. ASSUME Close \/ Copy \/ Closed
      PROVE  crash' = crash /\ \A d \in Connections : Same(d)
  BY <1>4 DEF Close, Copy, Closed, table, Same
<1> QED
  BY <1>1, <1>2, <1>3, <1>4 DEF CloseStep

\* The acceptor enters a connection in both tables before it is served.
LEMMA AcceptorKeeps ==
  ASSUME Types, Queues, NobodyEarly, NEW c \in Connections, Accept(c) \/ AcceptorStep(c)
  PROVE  NobodyEarly'
<1>1. /\ crash' \in {crash, "race"} /\ loop' = loop
      /\ \A d \in Connections \ {c} : /\ stage'[d] = stage[d] /\ (d \in users' <=> d \in users)
                                      /\ (d \in connections' <=> d \in connections)
  BY DEF Accept, AcceptorStep, SetCallbacks, Insert, MakeUserConnection, AddUser, FirstRecv,
     FirstRecvFails,
     table, Types, StageType
<1>2. \A d \in Connections \ {c} : con'[d].connected = con[d].connected
  BY AcceptEffect, ConnectedKept
<1>3. ASSUME NEW d \in Connections, d # c PROVE Tabled(d)'
  BY <1>1, <1>2, <1>3, TabledSame DEF Same, NobodyEarly
<1>4. Tabled(c)'
  <2>0. Tabled(c) /\ stage \in [Connections -> Stages]
    BY DEF NobodyEarly, Types, StageType
  <2>1. CASE Accept(c)
    <3>1. con'[c].connected
      BY <2>1, AcceptEffect
    <3>2. stage[c] = "none" /\ stage'[c] = "added" /\ UNCHANGED <<connections, users>>
      BY <2>0, <2>1 DEF Accept, table
    <3> QED
      BY <1>1, <2>0, <3>1, <3>2 DEF Tabled, Going
  <2>2. CASE AcceptorStep(c)
    <3>1. con'[c].connected = con[c].connected
      BY <2>2, ConnectedKept
    <3>2. \/ stage[c] = "added" /\ stage'[c] = "callbacks" /\ UNCHANGED <<connections, users>>
          \/ stage[c] = "callbacks" /\ stage'[c] = "listed" /\ connections' = connections \cup {c}
             /\ users' = users
          \/ stage[c] = "listed" /\ stage'[c] \in {"bound", "refused"}
               /\ UNCHANGED <<connections, users>>
          \/ stage[c] = "bound" /\ stage'[c] = "user" /\ connections' = connections
             /\ users' = users \cup {c}
          \/ stage[c] \in {"user", "failed"} /\ stage'[c] \in {"failed", "served"}
             /\ UNCHANGED <<connections, users>>
      BY <2>0, <2>2 DEF AcceptorStep, SetCallbacks, Insert, MakeUserConnection, AddUser,
         FirstRecv,
         FirstRecvFails, table
    <3> QED
      BY <1>1, <2>0, <3>1, <3>2 DEF Tabled
  <2> QED
    BY <2>1, <2>2
<1> QED
  BY <1>1, <1>3, <1>4 DEF NobodyEarly

\* The end of handleEvents: nothing, or the connection ends.
LEMMA EndCases ==
  ASSUME Types, Queues, NEW c \in Connections, EventEnd(c)
  PROVE  \/ loop'[c].pc = "wait" /\ con'[c].connected = con[c].connected
         \/ loop'[c].pc = "down" /\ (c \in users \/ c \in early') /\ ~con'[c].connected
<1>1. \A d \in Connections : con[d].connected \in BOOLEAN
  BY DEF Types, ConType, Con
<1> QED
  BY <1>1, EndEffect

\* The loop reports a connection that is in the table, and takes it out of both.
LEMMA LoopKeeps ==
  ASSUME Types, Queues, NobodyEarly, NEW c \in Connections, LoopStep(c), early = {}, early' = {}
  PROVE  NobodyEarly'
<1>0. Tabled(c) /\ loop \in [Connections -> Loop] /\ "pc" \in DOMAIN loop[c]
      /\ crash \notin {"no user", "not a user"}
  BY DEF NobodyEarly, Types, LoopType, Loop
<1>1. /\ stage' = stage
      /\ \A d \in Connections \ {c} : loop'[d] = loop[d] /\ (d \in users' <=> d \in users)
                                      /\ (d \in connections' <=> d \in connections)
  BY <1>0 DEF LoopStep, Wake, EventIn, EventInEnd, EventErr, EventOut, EventPop, EventOutEnd,
     EventEnd, Report, RemoveUser, Erase, Reported, table
<1>2. \A d \in Connections \ {c} : con'[d].connected = con[d].connected
  BY EndEffect, ConnectedKept
<1>3. ASSUME NEW d \in Connections, d # c PROVE Tabled(d)'
  BY <1>1, <1>2, <1>3, TabledSame DEF Same, NobodyEarly
<1>4. CASE EventEnd(c)
  <2>1. loop[c].pc = "end" /\ UNCHANGED <<users, connections, crash>>
    BY <1>4 DEF EventEnd, table
  <2>2. \/ loop'[c].pc = "wait" /\ con'[c].connected = con[c].connected
        \/ loop'[c].pc = "down" /\ c \in users /\ ~con'[c].connected
    <3>1. \/ loop'[c].pc = "wait" /\ con'[c].connected = con[c].connected
          \/ loop'[c].pc = "down" /\ (c \in users \/ c \in early') /\ ~con'[c].connected
      BY <1>4, EndCases
    <3> QED
      BY <3>1
  <2>3. Tabled(c)'
    BY <1>0, <1>1, <2>1, <2>2 DEF Tabled, Working, Going
  <2> QED
    BY <1>0, <1>3, <2>1, <2>3 DEF NobodyEarly
<1>5. CASE ~EventEnd(c)
  <2>1. con'[c].connected = con[c].connected
    BY <1>5, ConnectedKept
  <2>2. CASE Wake(c)
    <3>1. loop'[c].pc \in {"in", "err", "out", "end"} /\ con[c].connected
          /\ UNCHANGED <<users, connections, crash>>
      <4>1. PICK p : p = IF Happens(c).in THEN "in" ELSE AfterIn(Happens(c))
        OBVIOUS
      <4>2. loop' = [loop EXCEPT ![c].events = Happens(c), ![c].pc = p]
        BY <2>2, <4>1 DEF Wake
      <4>3. p \in {"in", "err", "out", "end"}
        BY <4>1 DEF AfterIn
      <4>4. loop'[c].pc = p
        BY <1>0, <4>2
      <4>5. con[c].connected /\ UNCHANGED <<users, connections, crash>>
        BY <2>2 DEF Wake, table
      <4> QED
        BY <4>3, <4>4, <4>5
    <3>2. Tabled(c)'
      BY <1>0, <1>1, <2>1, <3>1 DEF Tabled, Working, Going
    <3> QED
      BY <1>0, <1>3, <3>1, <3>2 DEF NobodyEarly
  <2>3. CASE EventIn(c) \/ EventInEnd(c) \/ EventErr(c) \/ EventPop(c) \/ EventOutEnd(c)
    <3>1. loop[c].pc \in Working /\ loop'[c].pc \in {"inEnd", "err", "out", "outEnd", "end"}
          /\ UNCHANGED <<users, connections, crash>>
      <4>1. \E p \in {"inEnd", "err", "out", "outEnd", "end"}, f \in {RecvFails(c),
              sock[c].error} :
              \/ loop' = [loop EXCEPT ![c].pc = p]
              \/ loop' = [loop EXCEPT ![c].failed = f, ![c].pc = p]
              \/ loop' = [loop EXCEPT ![c].pc = p, ![c].failed = f]
        BY <2>3 DEF EventIn, EventInEnd, EventErr, EventPop, EventOutEnd, AfterIn
      <4>2. loop'[c].pc \in {"inEnd", "err", "out", "outEnd", "end"}
        <5>1. PICK p \in {"inEnd", "err", "out", "outEnd", "end"},
                   f \in {RecvFails(c), sock[c].error} :
              \/ loop' = [loop EXCEPT ![c].pc = p]
              \/ loop' = [loop EXCEPT ![c].failed = f, ![c].pc = p]
              \/ loop' = [loop EXCEPT ![c].pc = p, ![c].failed = f]
          BY <4>1
        <5>2. CASE loop' = [loop EXCEPT ![c].pc = p]
          BY <1>0, <5>2
        <5>3. CASE loop' = [loop EXCEPT ![c].failed = f, ![c].pc = p]
          BY <1>0, <5>3
        <5>4. CASE loop' = [loop EXCEPT ![c].pc = p, ![c].failed = f]
          BY <1>0, <5>4
        <5> QED
          BY <5>1, <5>2, <5>3, <5>4
      <4>3. loop[c].pc \in Working /\ UNCHANGED <<users, connections, crash>>
        BY <2>3 DEF EventIn, EventInEnd, EventErr, EventPop, EventOutEnd, Working, table
      <4> QED
        BY <4>2, <4>3
    <3>2. Tabled(c)'
      BY <1>0, <1>1, <2>1, <3>1 DEF Tabled, Working, Going
    <3> QED
      BY <1>0, <1>3, <3>1, <3>2 DEF NobodyEarly
  <2>4. CASE EventOut(c)
    <3>1. loop[c].pc \in Working /\ UNCHANGED <<users, connections>>
      BY <2>4 DEF EventOut, Working, table
    <3>2. loop'[c].pc \in {"pop", "outEnd", "end"}
      <4>1. CASE con[c].tasks = <<>>
        <5>1. loop' = [loop EXCEPT ![c].pc = "outEnd"]
          BY <2>4, <4>1, Zenon DEF EventOut
        <5> QED
          BY <1>0, <5>1
      <4>2. CASE con[c].tasks # <<>>
        <5>1. PICK p : p = CASE Head(con'[c].tasks) = <<>> -> "pop"
                             [] sock[c].error -> "end" [] OTHER -> "outEnd"
          OBVIOUS
        <5>2. loop' = [loop EXCEPT ![c].failed = sock[c].error, ![c].pc = p]
          BY <2>4, <4>2, <5>1 DEF EventOut
        <5>3. p \in {"pop", "outEnd", "end"}
          BY <5>1
        <5> QED
          BY <1>0, <5>2, <5>3
      <4> QED
        BY <4>1, <4>2
    <3>3. crash' \in {crash, "SIGPIPE"}
      BY <2>4, OutEffect
    <3>4. Tabled(c)'
      BY <1>0, <1>1, <2>1, <3>1, <3>2 DEF Tabled, Working, Going
    <3> QED
      BY <1>0, <1>3, <3>3, <3>4 DEF NobodyEarly
  <2>5. CASE Report(c)
    <3>1. loop[c].pc = "down" /\ loop'[c].pc \in {"reported", "forget"}
          /\ (loop'[c].pc = "reported" => stage[c] = "added")
          /\ crash' \in {crash, "no user"}
          /\ (crash' # crash => stage[c] \in {"callbacks", "listed", "refused"})
          /\ UNCHANGED <<users, connections>>
      <4>1. PICK p : p = IF stage[c] = "added" THEN "reported" ELSE "forget"
        OBVIOUS
      <4>2. loop' = [loop EXCEPT ![c].pc = p]
        BY <2>5, <4>1 DEF Report
      <4>3. loop'[c].pc = p
        BY <1>0, <4>2
      <4> QED
        BY <2>5, <4>1, <4>3 DEF Report, table
    <3>2. c \in users /\ stage[c] \in {"user", "failed", "served"}
      BY <1>0, <3>1 DEF Tabled
    <3>3. Tabled(c)'
      BY <1>0, <1>1, <2>1, <3>1, <3>2 DEF Tabled, Working, Going
    <3> QED
      BY <1>0, <1>3, <3>1, <3>2, <3>3 DEF NobodyEarly
  <2>6. CASE RemoveUser(c)
    <3>1. loop[c].pc = "forget" /\ loop'[c].pc = "erase" /\ users' = users \ {c}
          /\ connections' = connections /\ (c \in users => crash' \in {crash, "race"})
      <4>1. loop' = [loop EXCEPT ![c].pc = "erase"]
        BY <2>6 DEF RemoveUser
      <4>2. loop'[c].pc = "erase"
        BY <1>0, <4>1
      <4> QED
        BY <2>6, <4>2 DEF RemoveUser
    <3>2. c \in users
      BY <1>0, <3>1 DEF Tabled
    <3>3. Tabled(c)'
      BY <1>0, <1>1, <2>1, <3>1, <3>2 DEF Tabled, Working, Going
    <3> QED
      BY <1>0, <1>3, <3>1, <3>2, <3>3 DEF NobodyEarly
  <2>7. CASE Erase(c)
    <3>1. loop[c].pc = "erase" /\ loop'[c].pc = "reported" /\ users' = users
          /\ connections' = connections \ {c} /\ crash' = crash
      <4>1. loop' = [loop EXCEPT ![c].pc = "reported"]
        BY <2>7 DEF Erase
      <4>2. loop'[c].pc = "reported"
        BY <1>0, <4>1
      <4> QED
        BY <2>7, <4>2 DEF Erase
    <3>2. Tabled(c)'
      BY <1>0, <1>1, <2>1, <3>1 DEF Tabled, Working, Going
    <3> QED
      BY <1>0, <1>3, <3>1, <3>2 DEF NobodyEarly
  <2>8. CASE Reported(c)
    <3>1. loop[c].pc = "reported" /\ loop'[c].pc = "wait"
            /\ UNCHANGED <<users, connections, crash>>
      <4>1. loop' = [loop EXCEPT ![c].pc = "wait"]
        BY <2>8 DEF Reported
      <4>2. loop'[c].pc = "wait"
        BY <1>0, <4>1
      <4> QED
        BY <2>8, <4>2 DEF Reported, table
    <3>2. Tabled(c)'
      BY <1>0, <1>1, <2>1, <3>1 DEF Tabled, Working, Going
    <3> QED
      BY <1>0, <1>3, <3>1, <3>2 DEF NobodyEarly
  <2> QED
    BY <1>5, <2>2, <2>3, <2>4, <2>5, <2>6, <2>7, <2>8 DEF LoopStep
<1> QED
  BY <1>4, <1>5

\* Every step keeps the tables in order.
LEMMA TablesStep == ASSUME Stream, Tables, [Next]_vars PROVE Tables'
<1> SUFFICES ASSUME early' = {} PROVE NobodyEarly'
  BY DEF Tables
<1>0. Types /\ Queues
  BY DEF Stream
<1>1. CASE Next
  <2>1. early = {} /\ NobodyEarly
    BY <1>0, <1>1, EarlyGrows DEF Tables
  <2>2. ASSUME NEW c \in Connections, Accept(c) \/ AcceptorStep(c) PROVE NobodyEarly'
    BY <1>0, <2>1, <2>2, AcceptorKeeps
  <2>3. ASSUME NEW c \in Connections, LoopStep(c) PROVE NobodyEarly'
    BY <1>0, <2>1, <2>3, LoopKeeps
  <2>4. CASE \/ \E c \in Connections : HangUp(c) \/ Peer(c)
             \/ \E s \in Senders : SenderStep(s) \/ \E c \in Connections : Send(s, c)
             \/ Close \/ CloseStep
    <3>1. crash' \in {crash, "SIGPIPE"} /\ \A d \in Connections : Same(d)
      BY <1>0, <2>4, OthersLeave
    <3>2. ASSUME NEW d \in Connections PROVE Tabled(d)'
      BY <2>1, <3>1, TabledSame DEF NobodyEarly
    <3> QED
      BY <2>1, <3>1, <3>2 DEF NobodyEarly
  <2> QED
    BY <1>1, <2>2, <2>3, <2>4 DEF Next
<1>2. CASE UNCHANGED vars
  BY <1>2 DEF vars, table, closing, history, Tables, NobodyEarly, Tabled
<1> QED
  BY <1>1, <1>2

\* Initially.
LEMMA TablesInit == ASSUME Init PROVE Tables
BY DEF Init, Tables, NobodyEarly, Tabled, Working, Going

\* Without an early loss the asserts of onDisconnected and removeConnection hold, and no
\* connection that is gone stays in Server::m_connections.
THEOREM EarlyLossAloneHurts == Spec => []OnlyEarlyLossHurts
<1>1. ASSUME Stream, Tables PROVE OnlyEarlyLossHurts
  <2>1. connections \subseteq Connections
    BY <1>1 DEF Stream, Types, TableType
  <2> QED
    BY <1>1, <2>1 DEF Tables, NobodyEarly, Tabled, OnlyEarlyLossHurts
<1>2. Stream /\ Tables /\ [Next]_vars => Tables'
  BY TablesStep
<1> QED
  BY <1>1, <1>2, TablesInit, StreamAlways, PTL DEF Spec
=============================================================================
