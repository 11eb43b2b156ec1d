---------------------------- MODULE SequenceFacts ---------------------------
(***************************************************************************)
(* What is in a sequence from the middle of which an element was taken, or *)
(* into the middle of which one was put: the vectors and linked queues of  *)
(* the kernel are changed in these two ways.  The first place where        *)
(* something is found is there because every set of numbers has a least;   *)
(* so is what a loop computes, and induction along its turns.              *)
(***************************************************************************)
EXTENDS Integers, Sequences, SequenceTheorems, WellFoundedInduction, TLAPS

\* A non-empty set of naturals has a least element.
LEMMA LeastNat == ASSUME NEW S \in SUBSET Nat, S # {} PROVE \E m \in S : \A k \in S : m <= k
<1> DEFINE R == OpToRel(<, Nat)
<1>1. IsWellFoundedOn(R, Nat)
  BY NatLessThanWellFounded
<1>2. PICK m \in S : \A k \in S : <<k, m>> \notin R
  BY <1>1, WFMin
<1>3. \A k \in S : ~(k < m)
  BY <1>2 DEF OpToRel
<1>. QED BY <1>3

\* Induction over the naturals, for a set of them.
LEMMA NatInd == ASSUME NEW P \in SUBSET Nat, 0 \in P, \A n \in P : n + 1 \in P PROVE P = Nat
<1> SUFFICES ASSUME Nat \ P # {} PROVE FALSE
  OBVIOUS
<1>1. PICK m \in Nat \ P : \A k \in Nat \ P : m <= k
  BY LeastNat
<1>2. m # 0 /\ m \in Nat
  OBVIOUS
<1>3. m - 1 \in Nat /\ ~(m <= m - 1) /\ (m - 1) + 1 = m
  BY <1>2
<1>4. m - 1 \in P
  BY <1>1, <1>3
<1>. QED BY <1>3, <1>4

\* g is what a loop of n turns computes: it starts from b, turn i applies h[i] to it.
IsLoop(g, n, b, h) == g = [i \in 0..n |-> IF i = 0 THEN b ELSE h[<<i, g[i - 1]>>]]

\* A loop whose turns keep to S computes something, and all of it is in S.
LEMMA LoopExists ==
    \A S : \A b \in S, n \in Nat : \A h \in [(1..n) \X S -> S] :
        \E g \in [0..n -> S] : IsLoop(g, n, b, h)
<1> TAKE S
<1> TAKE b \in S, n \in Nat
<1> TAKE h \in [(1..n) \X S -> S]
<1> DEFINE P == {m \in Nat : m <= n => \E g \in [0..m -> S] : IsLoop(g, m, b, h)}
<1>1. 0 \in P
  <2> DEFINE g == [i \in 0..0 |-> b]
  <2>1. g \in [0..0 -> S] /\ g = [i \in 0..0 |-> IF i = 0 THEN b ELSE h[<<i, g[i - 1]>>]]
    OBVIOUS
  <2>. QED BY <2>1 DEF IsLoop
<1>2. ASSUME NEW m \in P PROVE m + 1 \in P
  <2> SUFFICES ASSUME m + 1 <= n PROVE \E g \in [0..(m + 1) -> S] : IsLoop(g, m + 1, b, h)
    OBVIOUS
  <2>1. m \in Nat /\ m <= n
    OBVIOUS
  <2>2. PICK f \in [0..m -> S] : IsLoop(f, m, b, h)
    BY <2>1
  <2> DEFINE g == [i \in 0..(m + 1) |-> IF i = m + 1 THEN h[<<m + 1, f[m]>>] ELSE f[i]]
  <2>3. m \in 0..m /\ m + 1 \in 1..n /\ f[m] \in S
    BY <2>1
  <2>4. h[<<m + 1, f[m]>>] \in S
    BY <2>3
  <2>5. \A i \in 0..(m + 1) : i = m + 1 \/ i \in 0..m
    BY <2>1
  <2>6. g \in [0..(m + 1) -> S]
    BY <2>4, <2>5
  <2>7. ASSUME NEW i \in 0..(m + 1) PROVE g[i] = IF i = 0 THEN b ELSE h[<<i, g[i - 1]>>]
    <3>1. CASE i = m + 1
      <4>1. i # 0 /\ i - 1 = m /\ m \in 0..(m + 1) /\ m # m + 1
        BY <3>1, <2>1
      <4>2. g[i - 1] = f[m] /\ g[i] = h[<<m + 1, f[m]>>]
        BY <4>1, <3>1
      <4>. QED BY <3>1, <4>1, <4>2
    <3>2. CASE i # m + 1
      <4>1. i \in 0..m /\ (i # 0 => i - 1 \in 0..(m + 1) /\ i - 1 # m + 1)
        BY <3>2, <2>1
      <4>2. f[i] = IF i = 0 THEN b ELSE h[<<i, f[i - 1]>>]
        BY <4>1, <2>2 DEF IsLoop
      <4>3. g[i] = f[i] /\ (i # 0 => g[i - 1] = f[i - 1])
        BY <4>1, <3>2
      <4>. QED BY <4>2, <4>3
    <3>. QED BY <3>1, <3>2
  <2>8. IsLoop(g, m + 1, b, h)
    BY <2>6, <2>7 DEF IsLoop
  <2>. QED BY <2>6, <2>8
<1>3. P = Nat
  <2> HIDE DEF P
  <2>1. P \in SUBSET Nat
    BY DEF P
  <2>. QED BY <1>1, <1>2, <2>1, NatInd
<1>. QED BY <1>3

\* Induction along the places of a loop.
LEMMA UpTo ==
    ASSUME NEW n \in Nat, NEW P \in SUBSET (0..n), 0 \in P,
           \A i \in 1..n : i - 1 \in P => i \in P
    PROVE  P = 0..n
<1> DEFINE Q == {i \in Nat : i <= n => i \in P}
<1>1. 0 \in Q
  OBVIOUS
<1>2. ASSUME NEW i \in Q PROVE i + 1 \in Q
  <2> SUFFICES ASSUME i + 1 <= n PROVE i + 1 \in P
    OBVIOUS
  <2>1. i \in Nat /\ i <= n /\ i + 1 \in 1..n /\ (i + 1) - 1 = i
    OBVIOUS
  <2>. QED BY <2>1
<1>3. Q = Nat
  <2> HIDE DEF Q
  <2>1. Q \in SUBSET Nat
    BY DEF Q
  <2>. QED BY <1>1, <1>2, <2>1, NatInd
<1>4. ASSUME NEW i \in 0..n PROVE i \in P
  <2>1. i \in Q /\ i <= n
    BY <1>3
  <2>. QED BY <2>1
<1>. QED BY <1>4

Removal(q, i) == SubSeq(q, 1, i - 1) \o SubSeq(q, i + 1, Len(q))
Insertion(q, i, e) == SubSeq(q, 1, i) \o <<e>> \o SubSeq(q, i + 1, Len(q))

\* The elements behind the one that was taken out move up by one place.
LEMMA RemovedAt ==
    \A S : \A q \in Seq(S) : \A i \in 1..Len(q) :
        /\ Removal(q, i) \in Seq(S) /\ Len(Removal(q, i)) = Len(q) - 1
        /\ DOMAIN Removal(q, i) = 1..(Len(q) - 1)
        /\ \A j \in 1..(Len(q) - 1) : Removal(q, i)[j] = IF j < i THEN q[j] ELSE q[j + 1]
<1> TAKE S
<1> TAKE q \in Seq(S)
<1> TAKE i \in 1..Len(q)
<1>n. PICK n \in Nat : n = Len(q) /\ i \in 1..n
  OBVIOUS
<1>c. PICK c : c = Removal(q, i)
  OBVIOUS
<1> USE <1>n, <1>c
<1>0. PICK a, b : a = SubSeq(q, 1, i - 1) /\ b = SubSeq(q, i + 1, n)
  OBVIOUS
<1>1. \A j \in 1..n : q[j] \in S
  OBVIOUS
<1>2. a \in Seq(S) /\ Len(a) = i - 1 /\ \A j \in 1..(i - 1) : a[j] = q[j]
  BY <1>0, <1>1
<1>3. b \in Seq(S) /\ Len(b) = n - i /\ \A j \in 1..(n - i) : b[j] = q[i + j]
  <2>1. \A j \in (i + 1)..n : q[j] \in S
    BY <1>1
  <2>2. i + 1 \in Int /\ n \in Int
    OBVIOUS
  <2>3. /\ b \in Seq(S) /\ Len(b) = IF i + 1 <= n THEN n - (i + 1) + 1 ELSE 0
        /\ \A j \in 1..(n - (i + 1) + 1) : b[j] = q[(i + 1) + j - 1]
    BY <1>0, <2>1, <2>2, SubSeqProperties
  <2>4. n - (i + 1) + 1 = n - i /\ (i + 1 <= n \/ n - i = 0)
    OBVIOUS
  <2>5. \A j \in 1..(n - i) : (i + 1) + j - 1 = i + j
    OBVIOUS
  <2>6. Len(b) = n - i
    BY <2>3, <2>4
  <2>. QED BY <2>3, <2>4, <2>5, <2>6
<1>4. c = a \o b
  BY <1>0 DEF Removal
<1>5. /\ c \in Seq(S) /\ Len(c) = Len(a) + Len(b)
      /\ \A j \in 1..(Len(a) + Len(b)) : c[j] = IF j <= Len(a) THEN a[j] ELSE b[j - Len(a)]
  <2>1. a \in Seq(S) /\ b \in Seq(S)
    BY <1>2, <1>3
  <2>2. /\ a \o b \in Seq(S) /\ Len(a \o b) = Len(a) + Len(b)
        /\ \A j \in 1..(Len(a) + Len(b)) : (a \o b)[j] = IF j <= Len(a) THEN a[j] ELSE b[j - Len(a)]
    BY <2>1, ConcatProperties, Zenon
  <2>. QED BY <1>4, <2>2, Zenon
<1>6. Len(a) + Len(b) = n - 1 /\ DOMAIN c = 1..Len(c)
  <2>1. Len(a) + Len(b) = n - 1
    BY <1>2, <1>3
  <2>2. DOMAIN c = 1..Len(c)
    BY <1>5
  <2>. QED BY <2>1, <2>2
<1>7. ASSUME NEW j \in 1..(n - 1) PROVE c[j] = IF j < i THEN q[j] ELSE q[j + 1]
  <2>0. c[j] = IF j <= i - 1 THEN a[j] ELSE b[j - (i - 1)]
    BY <1>2, <1>5, <1>6
  <2>1. CASE j < i
    <3>1. j \in 1..(i - 1) /\ j <= i - 1
      BY <2>1
    <3>. QED BY <2>0, <2>1, <3>1, <1>2
  <2>2. CASE ~(j < i)
    <3>1. ~(j <= i - 1) /\ j - (i - 1) \in 1..(n - i) /\ i + (j - (i - 1)) = j + 1
      BY <2>2
    <3>2. c[j] = b[j - (i - 1)]
      BY <2>0, <3>1
    <3>. QED BY <2>2, <3>1, <3>2, <1>3
  <2>. QED BY <2>1, <2>2
<1>. QED BY <1>5, <1>6, <1>7

\* c is q with e put behind place i: what was behind it moves down by one.
Inserted(c, S, q, i, e) ==
    /\ c \in Seq(S) /\ Len(c) = Len(q) + 1 /\ DOMAIN c = 1..(Len(q) + 1)
    /\ \A j \in 1..(Len(q) + 1) : c[j] = IF j <= i THEN q[j] ELSE IF j = i + 1 THEN e ELSE q[j - 1]

LEMMA InsertionIs ==
    \A S : \A q \in Seq(S) : \A i \in 0..Len(q) : \A e \in S : Inserted(Insertion(q, i, e), S, q, i, e)
<1> TAKE S
<1> TAKE q \in Seq(S)
<1> TAKE i \in 0..Len(q)
<1> TAKE e \in S
<1>n. PICK n \in Nat : n = Len(q) /\ i \in 0..n
  OBVIOUS
<1>c. PICK c : c = Insertion(q, i, e)
  OBVIOUS
<1> USE <1>n, <1>c
<1>0. PICK a, b, d : a = SubSeq(q, 1, i) /\ b = SubSeq(q, i + 1, n) /\ d = a \o <<e>>
  OBVIOUS
<1>1. \A j \in 1..n : q[j] \in S
  OBVIOUS
<1>2. a \in Seq(S) /\ Len(a) = i /\ \A j \in 1..i : a[j] = q[j]
  <2>1. \A j \in 1..i : q[j] \in S
    BY <1>1
  <2>2. i \in Int /\ 1 \in Int
    OBVIOUS
  <2>3. /\ a \in Seq(S) /\ Len(a) = IF 1 <= i THEN i - 1 + 1 ELSE 0
        /\ \A j \in 1..(i - 1 + 1) : a[j] = q[1 + j - 1]
    BY <1>0, <2>1, <2>2, SubSeqProperties
  <2>4. i - 1 + 1 = i /\ (1 <= i \/ i = 0) /\ \A j \in 1..i : 1 + j - 1 = j
    OBVIOUS
  <2>. QED BY <2>3, <2>4
<1>3. b \in Seq(S) /\ Len(b) = n - i /\ \A j \in 1..(n - i) : b[j] = q[i + j]
  <2>1. \A j \in (i + 1)..n : q[j] \in S
    BY <1>1
  <2>2. i + 1 \in Int /\ n \in Int
    OBVIOUS
  <2>3. /\ b \in Seq(S) /\ Len(b) = IF i + 1 <= n THEN n - (i + 1) + 1 ELSE 0
        /\ \A j \in 1..(n - (i + 1) + 1) : b[j] = q[(i + 1) + j - 1]
    BY <1>0, <2>1, <2>2, SubSeqProperties
  <2>4. n - (i + 1) + 1 = n - i /\ (i + 1 <= n \/ n - i = 0)
    OBVIOUS
  <2>5. \A j \in 1..(n - i) : (i + 1) + j - 1 = i + j
    OBVIOUS
  <2>6. Len(b) = n - i
    BY <2>3, <2>4
  <2>. QED BY <2>3, <2>4, <2>5, <2>6
<1>4. d \in Seq(S) /\ Len(d) = i + 1 /\ \A j \in 1..(i + 1) : d[j] = IF j <= i THEN q[j] ELSE e
  <2>1. <<e>> \in Seq(S) /\ Len(<<e>>) = 1 /\ <<e>>[1] = e
    OBVIOUS
  <2>2. /\ a \o <<e>> \in Seq(S) /\ Len(a \o <<e>>) = Len(a) + Len(<<e>>)
        /\ \A j \in 1..(Len(a) + Len(<<e>>)) : (a \o <<e>>)[j] = IF j <= Len(a) THEN a[j] ELSE <<e>>[j - Len(a)]
    BY <1>2, <2>1, ConcatProperties, Zenon
  <2>3. /\ d \in Seq(S) /\ Len(d) = i + 1
        /\ \A j \in 1..(i + 1) : d[j] = IF j <= i THEN a[j] ELSE <<e>>[j - i]
    BY <1>0, <1>2, <2>1, <2>2
  <2>4. \A j \in 1..(i + 1) : (j <= i => j \in 1..i) /\ (~(j <= i) => j - i = 1)
    OBVIOUS
  <2>. QED BY <1>2, <2>1, <2>3, <2>4
<1>5. c = d \o b
  BY <1>0 DEF Insertion
<1>6. /\ c \in Seq(S) /\ Len(c) = Len(d) + Len(b)
      /\ \A j \in 1..(Len(d) + Len(b)) : c[j] = IF j <= Len(d) THEN d[j] ELSE b[j - Len(d)]
  <2>1. d \in Seq(S) /\ b \in Seq(S)
    BY <1>3, <1>4
  <2>2. /\ d \o b \in Seq(S) /\ Len(d \o b) = Len(d) + Len(b)
        /\ \A j \in 1..(Len(d) + Len(b)) : (d \o b)[j] = IF j <= Len(d) THEN d[j] ELSE b[j - Len(d)]
    BY <2>1, ConcatProperties, Zenon
  <2>. QED BY <1>5, <2>2, Zenon
<1>7. Len(d) + Len(b) = n + 1 /\ DOMAIN c = 1..Len(c)
  <2>1. Len(d) + Len(b) = n + 1
    BY <1>3, <1>4
  <2>2. DOMAIN c = 1..Len(c)
    BY <1>6
  <2>. QED BY <2>1, <2>2
<1>8. ASSUME NEW j \in 1..(n + 1) PROVE c[j] = IF j <= i THEN q[j] ELSE IF j = i + 1 THEN e ELSE q[j - 1]
  <2>0. c[j] = IF j <= i + 1 THEN d[j] ELSE b[j - (i + 1)]
    BY <1>4, <1>6, <1>7
  <2>1. CASE j <= i + 1
    <3>1. j \in 1..(i + 1)
      BY <2>1
    <3>2. c[j] = IF j <= i THEN q[j] ELSE e
      BY <2>0, <2>1, <3>1, <1>4
    <3>3. ~(j <= i) => j = i + 1
      BY <3>1
    <3>. QED BY <3>2, <3>3
  <2>2. CASE ~(j <= i + 1)
    <3>1. /\ ~(j <= i) /\ j # i + 1 /\ j - (i + 1) \in 1..(n - i) /\ i + (j - (i + 1)) = j - 1
      BY <2>2
    <3>2. c[j] = b[j - (i + 1)]
      BY <2>0, <2>2
    <3>. QED BY <3>1, <3>2, <1>3
  <2>. QED BY <2>1, <2>2
<1>. QED BY <1>6, <1>7, <1>8 DEF Inserted
=============================================================================
