------------------------------- MODULE Lemmas -------------------------------
(***************************************************************************)
(* What the proofs of several components need to know of numbers and of    *)
(* sequences that is not among the library's theorems.                     *)
(***************************************************************************)
EXTENDS Integers, Sequences, FiniteSets, SequenceTheorems, FiniteSetTheorems,
        WellFoundedInduction, TLAPS

-----------------------------------------------------------------------------
(* Numbers *)

(* The relation of the standard order on the natural numbers *)
LEMMA PairInLess ==
  ASSUME NEW x \in Nat, NEW y \in Nat
  PROVE  <<y, x>> \in OpToRel(<, Nat) <=> y < x
BY Zenon DEF OpToRel

(* Some natural numbers have a least one. *)
LEMMA LeastExists ==
  ASSUME NEW S, S \subseteq Nat, S # {}
  PROVE  \E x \in S : \A y \in S : x =< y
<1>1. \E x \in S : \A y \in S : ~(<<y, x>> \in OpToRel(<, Nat))
  BY NatLessThanWellFounded, WFMin, Zenon
<1>2. PICK x \in S : \A y \in S : ~(<<y, x>> \in OpToRel(<, Nat))
  BY <1>1
<1>3. \A y \in S : ~(y < x)
  BY <1>2, PairInLess
<1> QED BY <1>3

(* The remainder of what is less than twice the divisor *)
LEMMA Around ==
  ASSUME NEW n \in Nat, NEW x \in Nat, x < n + n
  PROVE  x % n = IF x < n THEN x ELSE x - n
<1> n > 0
  OBVIOUS
<1>1. CASE x < n
  BY <1>1
<1>2. CASE x >= n
  BY <1>2
<1> QED BY <1>1, <1>2

-----------------------------------------------------------------------------
(* Counting *)

(* A function of n arguments has n values at most. *)
LEMMA FewValues ==
  ASSUME NEW n \in Nat, NEW g, NEW T, T = {g[k] : k \in 1 .. n}
  PROVE  IsFiniteSet(T) /\ Cardinality(T) <= n
<1> DEFINE f == [k \in 1 .. n |-> g[k]]
<1>1. f \in Surjection(1 .. n, T)
  BY DEF Surjection
<1>2. IsFiniteSet(1 .. n) /\ Cardinality(1 .. n) = n
  BY FS_Interval
<1> HIDE DEF f
<1> QED BY <1>1, <1>2, FS_Surjection

(* Where fewer than m numbers are taken, one of the first m is free. *)
LEMMA SomeFree ==
  ASSUME NEW m \in Nat, NEW U, IsFiniteSet(U), Cardinality(U) < m
  PROVE  (1 .. m) \ U # {}
<1> SUFFICES ASSUME 1 .. m \subseteq U PROVE FALSE
  OBVIOUS
<1>1. IsFiniteSet(1 .. m) /\ Cardinality(1 .. m) = m
  BY FS_Interval
<1>2. Cardinality(1 .. m) <= Cardinality(U) /\ Cardinality(U) \in Nat
  BY FS_Subset, FS_CardinalityType
<1> QED BY <1>1, <1>2

(* With n more, n are. *)
LEMMA EnoughFree ==
  ASSUME NEW m \in Nat, NEW n \in Nat, NEW U, IsFiniteSet(U), Cardinality(U) + n <= m
  PROVE  \E q \in [1 .. n -> (1 .. m) \ U] : \A k, l \in 1 .. n : q[k] = q[l] => k = l
<1> DEFINE D == (1 .. m) \ U
           c == Cardinality(D)
<1>1. IsFiniteSet(1 .. m) /\ Cardinality(1 .. m) = m
  BY FS_Interval
<1>2. /\ IsFiniteSet(D) /\ c = m - Cardinality((1 .. m) \cap U)
      /\ Cardinality((1 .. m) \cap U) <= Cardinality(U)
  BY <1>1, FS_Difference, FS_Intersection
<1>3. /\ Cardinality(U) \in Nat /\ Cardinality((1 .. m) \cap U) \in Nat
      /\ c \in Nat /\ ExistsBijection(1 .. c, D)
  BY <1>1, <1>2, FS_CardinalityType, FS_Intersection
<1>4. n <= c
  BY <1>2, <1>3
<1>5. PICK b \in Bijection(1 .. c, D) : TRUE
  BY <1>3 DEF ExistsBijection
<1> HIDE DEF c, D
<1>6. b \in [1 .. c -> D] /\ \A k, l \in 1 .. c : b[k] = b[l] => k = l
  <2>1. b \in Injection(1 .. c, D)
    BY <1>5 DEF Bijection
  <2> QED BY <2>1 DEF Injection, IsInjective
<1> DEFINE q == [k \in 1 .. n |-> b[k]]
<1>7. q \in [1 .. n -> D] /\ \A k, l \in 1 .. n : q[k] = q[l] => k = l
  BY <1>3, <1>4, <1>6
<1> QED BY <1>7 DEF D

-----------------------------------------------------------------------------
(* Sequences *)

Without(s, i) == SubSeq(s, 1, i - 1) \o SubSeq(s, i + 1, Len(s))

With(s, i, e) == SubSeq(s, 1, i - 1) \o <<e>> \o SubSeq(s, i, Len(s))

(* The sequence without its element at i *)
LEMMA RemovedAt ==
  ASSUME NEW S, NEW s \in Seq(S), NEW i \in 1 .. Len(s)
  PROVE  /\ Without(s, i) \in Seq(S) /\ Len(Without(s, i)) = Len(s) - 1
         /\ \A j \in 1 .. Len(s) - 1 :
              Without(s, i)[j] = IF j < i THEN s[j] ELSE s[j + 1]
<1> DEFINE a == SubSeq(s, 1, i - 1)
           b == SubSeq(s, i + 1, Len(s))
<1>1. a \in Seq(S) /\ Len(a) = i - 1 /\ \A j \in 1 .. i - 1 : a[j] = s[j]
  OBVIOUS
<1>2. b \in Seq(S) /\ Len(b) = Len(s) - i /\ \A j \in 1 .. Len(s) - i : b[j] = s[i + j]
  OBVIOUS
<1> HIDE DEF a, b
<1>3. /\ a \o b \in Seq(S) /\ Len(a \o b) = Len(s) - 1
      /\ \A j \in 1 .. Len(s) - 1 : (a \o b)[j] = IF j < i THEN a[j] ELSE b[j - (i - 1)]
  <2>1. /\ a \o b \in Seq(S) /\ Len(a \o b) = Len(a) + Len(b)
        /\ \A j \in 1 .. Len(a) + Len(b) :
             (a \o b)[j] = IF j <= Len(a) THEN a[j] ELSE b[j - Len(a)]
    BY <1>1, <1>2, ConcatProperties
  <2> QED BY <1>1, <1>2, <2>1
<1>4. \A j \in 1 .. Len(s) - 1 : (a \o b)[j] = IF j < i THEN s[j] ELSE s[j + 1]
  <2> SUFFICES ASSUME NEW j \in 1 .. Len(s) - 1
               PROVE  (a \o b)[j] = IF j < i THEN s[j] ELSE s[j + 1]
    OBVIOUS
  <2>1. CASE j < i
    BY <1>1, <1>3, <2>1
  <2>2. CASE j >= i
    <3>1. j - (i - 1) \in 1 .. Len(s) - i /\ i + (j - (i - 1)) = j + 1
      BY <2>2
    <3>2. b[j - (i - 1)] = s[j + 1]
      BY <1>2, <3>1
    <3>3. ~(j < i)
      BY <2>2
    <3>4. (a \o b)[j] = IF j < i THEN a[j] ELSE b[j - (i - 1)]
      BY <1>3
    <3>5. (a \o b)[j] = b[j - (i - 1)]
      BY <3>3, <3>4, Zenon
    <3> QED BY <3>2, <3>3, <3>5
  <2>3. j < i \/ j >= i
    OBVIOUS
  <2> QED BY <2>1, <2>2, <2>3, Zenon
<1> QED BY <1>3, <1>4, Zenon DEF a, b, Without

(* The sequence with e before its element at i, or at its end *)
LEMMA InsertedAt ==
  ASSUME NEW S, NEW s \in Seq(S), NEW i \in 1 .. Len(s) + 1, NEW e \in S
  PROVE  /\ With(s, i, e) \in Seq(S) /\ Len(With(s, i, e)) = Len(s) + 1
         /\ \A j \in 1 .. Len(s) + 1 :
              With(s, i, e)[j] = IF j < i THEN s[j] ELSE IF j = i THEN e ELSE s[j - 1]
<1> DEFINE a == SubSeq(s, 1, i - 1)
           b == SubSeq(s, i, Len(s))
           c == a \o <<e>>
<1>1. a \in Seq(S) /\ Len(a) = i - 1 /\ \A j \in 1 .. i - 1 : a[j] = s[j]
  OBVIOUS
<1>2. b \in Seq(S) /\ Len(b) = Len(s) - i + 1 /\ \A j \in 1 .. Len(s) - i + 1 : b[j] = s[i + j - 1]
  OBVIOUS
<1> HIDE DEF a, b
<1>3. c \in Seq(S) /\ Len(c) = i /\ c[i] = e /\ \A j \in 1 .. i - 1 : c[j] = s[j]
  BY <1>1
<1> HIDE DEF c
<1>4. /\ c \o b \in Seq(S) /\ Len(c \o b) = Len(s) + 1
      /\ \A j \in 1 .. Len(s) + 1 : (c \o b)[j] = IF j <= i THEN c[j] ELSE b[j - i]
  <2>1. /\ c \o b \in Seq(S) /\ Len(c \o b) = Len(c) + Len(b)
        /\ \A j \in 1 .. Len(c) + Len(b) :
             (c \o b)[j] = IF j <= Len(c) THEN c[j] ELSE b[j - Len(c)]
    BY <1>2, <1>3, ConcatProperties
  <2> QED BY <1>2, <1>3, <2>1
<1>5. \A j \in 1 .. Len(s) + 1 :
        (c \o b)[j] = IF j < i THEN s[j] ELSE IF j = i THEN e ELSE s[j - 1]
  <2> SUFFICES ASSUME NEW j \in 1 .. Len(s) + 1
               PROVE  (c \o b)[j] = IF j < i THEN s[j] ELSE IF j = i THEN e ELSE s[j - 1]
    OBVIOUS
  <2>1. CASE j <= i
    BY <1>3, <1>4, <2>1
  <2>2. CASE j > i
    <3>1. j - i \in 1 .. Len(s) - i + 1 /\ i + (j - i) - 1 = j - 1
      BY <2>2
    <3>2. b[j - i] = s[j - 1]
      BY <1>2, <3>1
    <3>3. ~(j <= i)
      BY <2>2
    <3>4. (c \o b)[j] = IF j <= i THEN c[j] ELSE b[j - i]
      BY <1>4
    <3>5. (c \o b)[j] = b[j - i]
      BY <3>3, <3>4, Zenon
    <3> QED BY <2>2, <3>2, <3>5
  <2>3. j <= i \/ j > i
    OBVIOUS
  <2> QED BY <2>1, <2>2, <2>3, Zenon
<1> QED BY <1>4, <1>5, Zenon DEF a, b, c, With

(* Appending a batch is appending its elements. *)
LEMMA PairAppended ==
  ASSUME NEW S, NEW s \in Seq(S), NEW a \in S, NEW b \in S
  PROVE  s \o <<a, b>> = Append(Append(s, a), b)
OBVIOUS

(* The last of the batch is the last of the whole. *)
LEMMA OneMoreAppended ==
  ASSUME NEW S, NEW s \in Seq(S), NEW b \in Seq(S), NEW a \in S
  PROVE  s \o (b \o <<a>>) = Append(s \o b, a)
OBVIOUS

(* A sequence, whatever is in it *)
IsSeq(s) == s \in Seq({s[i] : i \in DOMAIN s})

(* The sequences of a set are sequences, whatever the set. *)
LEMMA SeqIsSeq ==
  ASSUME NEW S, NEW s \in Seq(S)
  PROVE  IsSeq(s) /\ Len(s) \in Nat /\ DOMAIN s = 1 .. Len(s)
<1>1. Len(s) \in Nat /\ DOMAIN s = 1 .. Len(s) /\ s = [i \in 1 .. Len(s) |-> s[i]]
  OBVIOUS
<1>2. s \in [1 .. Len(s) -> {s[i] : i \in DOMAIN s}]
  BY <1>1
<1> QED BY <1>1, <1>2 DEF IsSeq

(* What is left of a sequence are other elements of it, each from a place  *)
(* of its own.                                                             *)
LEMMA WithoutPlaces ==
  ASSUME NEW s, IsSeq(s), NEW i \in DOMAIN s
  PROVE  /\ IsSeq(Without(s, i)) /\ Len(s) \in Nat /\ Len(Without(s, i)) = Len(s) - 1
         /\ DOMAIN s = 1 .. Len(s) /\ DOMAIN Without(s, i) = 1 .. Len(s) - 1
         /\ \E f : \A j \in DOMAIN Without(s, i) :
              /\ f[j] \in DOMAIN s /\ f[j] # i /\ Without(s, i)[j] = s[f[j]]
              /\ \A k \in DOMAIN Without(s, i) : f[j] = f[k] => j = k
         /\ \A k \in DOMAIN s : k # i => \E j \in DOMAIN Without(s, i) : Without(s, i)[j] = s[k]
<1> DEFINE S == {s[k] : k \in DOMAIN s}
           t == Without(s, i)
           f == [j \in DOMAIN t |-> IF j < i THEN j ELSE j + 1]
<1>1. s \in Seq(S) /\ DOMAIN s = 1 .. Len(s) /\ Len(s) \in Nat
  BY SeqIsSeq DEF IsSeq
<1> HIDE DEF S
<1>2. /\ t \in Seq(S) /\ Len(t) = Len(s) - 1
      /\ \A j \in 1 .. Len(s) - 1 : t[j] = IF j < i THEN s[j] ELSE s[j + 1]
  BY <1>1, RemovedAt
<1> HIDE DEF t
<1>3. DOMAIN t = 1 .. Len(s) - 1
  BY <1>2
<1>4. IsSeq(t)
  BY <1>2, SeqIsSeq
<1>5. ASSUME NEW j \in DOMAIN t
      PROVE  /\ f[j] \in DOMAIN s /\ f[j] # i /\ t[j] = s[f[j]]
             /\ \A k \in DOMAIN t : f[j] = f[k] => j = k
  BY <1>1, <1>2, <1>3
<1>6. ASSUME NEW k \in DOMAIN s, k # i
      PROVE  \E j \in DOMAIN t : t[j] = s[k]
  <2>1. CASE k < i
    <3>1. k \in DOMAIN t /\ t[k] = s[k]
      BY <1>1, <1>2, <1>3, <2>1
    <3> QED BY <3>1
  <2>2. CASE k > i
    <3>1. k - 1 \in DOMAIN t /\ ~(k - 1 < i) /\ (k - 1) + 1 = k
      BY <1>1, <1>3, <2>2
    <3>2. t[k - 1] = s[k]
      BY <1>2, <1>3, <3>1
    <3> QED BY <3>1, <3>2
  <2> QED BY <1>1, <1>6, <2>1, <2>2
<1> HIDE DEF f
<1>7. \E g : \A j \in DOMAIN t :
        /\ g[j] \in DOMAIN s /\ g[j] # i /\ t[j] = s[g[j]]
        /\ \A k \in DOMAIN t : g[j] = g[k] => j = k
  BY <1>5
<1> QED BY <1>1, <1>2, <1>3, <1>4, <1>6, <1>7 DEF t

(* A sequence with e at i has the others at places of their own. *)
LEMMA WithPlaces ==
  ASSUME NEW s, IsSeq(s), NEW i \in 1 .. Len(s) + 1, NEW e
  PROVE  /\ IsSeq(With(s, i, e))
         /\ i \in DOMAIN With(s, i, e) /\ With(s, i, e)[i] = e
         /\ \E f : \A j \in DOMAIN With(s, i, e) : j # i =>
              /\ f[j] \in DOMAIN s /\ With(s, i, e)[j] = s[f[j]]
              /\ \A k \in DOMAIN With(s, i, e) : k # i /\ f[j] = f[k] => j = k
         /\ \A k \in DOMAIN s : \E j \in DOMAIN With(s, i, e) : j # i /\ With(s, i, e)[j] = s[k]
<1> DEFINE S == {s[k] : k \in DOMAIN s} \cup {e}
           t == With(s, i, e)
           f == [j \in DOMAIN t |-> IF j < i THEN j ELSE j - 1]
<1>1. s \in Seq(S) /\ e \in S /\ DOMAIN s = 1 .. Len(s) /\ Len(s) \in Nat
  <2>1. s \in Seq({s[k] : k \in DOMAIN s})
    BY DEF IsSeq
  <2> QED BY <2>1
<1> HIDE DEF S
<1>2. /\ t \in Seq(S) /\ Len(t) = Len(s) + 1
      /\ \A j \in 1 .. Len(s) + 1 :
           t[j] = IF j < i THEN s[j] ELSE IF j = i THEN e ELSE s[j - 1]
  <2>1. t \in Seq(S) /\ Len(t) = Len(s) + 1
    BY <1>1, InsertedAt
  <2>2. ASSUME NEW j \in 1 .. Len(s) + 1
        PROVE  t[j] = IF j < i THEN s[j] ELSE IF j = i THEN e ELSE s[j - 1]
    BY <1>1, InsertedAt
  <2> HIDE DEF t
  <2> QED BY <2>1, <2>2
<1> HIDE DEF t
<1>3. DOMAIN t = 1 .. Len(s) + 1 /\ i \in DOMAIN t /\ t[i] = e
  BY <1>1, <1>2
<1>4. IsSeq(t)
  BY <1>2, SeqIsSeq
<1>5. ASSUME NEW j \in DOMAIN t, j # i
      PROVE  /\ f[j] \in DOMAIN s /\ t[j] = s[f[j]]
             /\ \A k \in DOMAIN t : k # i /\ f[j] = f[k] => j = k
  <2>1. f[j] \in DOMAIN s /\ t[j] = s[f[j]]
    BY <1>1, <1>2, <1>3, <1>5
  <2>2. ASSUME NEW k \in DOMAIN t, k # i, f[j] = f[k] PROVE j = k
    BY <1>1, <1>3, <1>5, <2>2
  <2> QED BY <2>1, <2>2
<1>6. ASSUME NEW k \in DOMAIN s
      PROVE  \E j \in DOMAIN t : j # i /\ t[j] = s[k]
  <2>1. CASE k < i
    <3>1. k \in DOMAIN t /\ t[k] = s[k] /\ k # i
      BY <1>1, <1>2, <1>3, <2>1
    <3> QED BY <3>1
  <2>2. CASE ~(k < i)
    <3>1. k + 1 \in DOMAIN t /\ ~(k + 1 < i) /\ k + 1 # i /\ (k + 1) - 1 = k
      BY <1>1, <1>3, <2>2
    <3>2. t[k + 1] = s[k]
      BY <1>2, <1>3, <3>1
    <3> QED BY <3>1, <3>2
  <2> QED BY <2>1, <2>2
<1> HIDE DEF f
<1>7. \E g : \A j \in DOMAIN t : j # i =>
        /\ g[j] \in DOMAIN s /\ t[j] = s[g[j]]
        /\ \A k \in DOMAIN t : k # i /\ g[j] = g[k] => j = k
  BY <1>5
<1> QED BY <1>3, <1>4, <1>6, <1>7 DEF t

(* An element at the end is one at the place after the last. *)
LEMMA AppendIsWith ==
  ASSUME NEW s, IsSeq(s), NEW e
  PROVE  Append(s, e) = With(s, Len(s) + 1, e) /\ Len(s) + 1 \in 1 .. Len(s) + 1
<1> DEFINE S == {s[k] : k \in DOMAIN s} \cup {e}
           i == Len(s) + 1
           t == With(s, i, e)
<1>1. s \in Seq(S) /\ e \in S /\ DOMAIN s = 1 .. Len(s) /\ Len(s) \in Nat
  <2>1. s \in Seq({s[k] : k \in DOMAIN s})
    BY DEF IsSeq
  <2> QED BY <2>1
<1> HIDE DEF S
<1>2. i \in 1 .. Len(s) + 1
  BY <1>1
<1>3. /\ t \in Seq(S) /\ Len(t) = Len(s) + 1
      /\ \A j \in 1 .. Len(s) + 1 :
           t[j] = IF j < i THEN s[j] ELSE IF j = i THEN e ELSE s[j - 1]
  <2> HIDE DEF i
  <2> QED BY <1>1, <1>2, InsertedAt
<1> HIDE DEF t
<1>4. /\ Append(s, e) \in Seq(S) /\ Len(Append(s, e)) = Len(s) + 1
      /\ \A j \in 1 .. Len(s) + 1 : Append(s, e)[j] = IF j < i THEN s[j] ELSE e
  BY <1>1
<1>5. \A j \in 1 .. Len(s) + 1 : Append(s, e)[j] = t[j]
  BY <1>1, <1>3, <1>4
<1>6. Append(s, e) = t
  <2> DEFINE u == Append(s, e)
  <2> HIDE DEF u
  <2>1. u = [j \in 1 .. Len(s) + 1 |-> u[j]] /\ t = [j \in 1 .. Len(s) + 1 |-> t[j]]
    <3>1. u \in Seq(S) /\ Len(u) = Len(s) + 1
      BY <1>4 DEF u
    <3> QED BY <1>1, <1>3, <3>1
  <2>2. \A j \in 1 .. Len(s) + 1 : u[j] = t[j]
    BY <1>5 DEF u
  <2>3. u = t
    BY <2>1, <2>2
  <2> QED BY <2>3 DEF u
<1> QED BY <1>2, <1>6 DEF t, i

(* A sequence that has lost, got or changed an element has the others still. *)
LEMMA WithoutElement ==
  ASSUME NEW s, IsSeq(s), NEW i \in DOMAIN s
  PROVE  /\ IsSeq(Without(s, i))
         /\ \A j \in DOMAIN Without(s, i) : \E k \in DOMAIN s : Without(s, i)[j] = s[k]
<1> DEFINE t == Without(s, i)
<1>1. IsSeq(t) /\ \E f : \A j \in DOMAIN t : f[j] \in DOMAIN s /\ t[j] = s[f[j]]
  BY WithoutPlaces
<1> HIDE DEF t
<1> QED BY <1>1 DEF t

(* What is in a sequence with one more element at i *)
LEMMA WithElement ==
  ASSUME NEW s, IsSeq(s), NEW i \in 1 .. Len(s) + 1, NEW e
  PROVE  /\ IsSeq(With(s, i, e))
         /\ \A j \in DOMAIN With(s, i, e) :
              With(s, i, e)[j] = e \/ \E k \in DOMAIN s : With(s, i, e)[j] = s[k]
<1> DEFINE t == With(s, i, e)
<1>1. /\ IsSeq(t) /\ t[i] = e
      /\ \E f : \A j \in DOMAIN t : j # i => f[j] \in DOMAIN s /\ t[j] = s[f[j]]
  BY WithPlaces
<1> HIDE DEF t
<1> QED BY <1>1 DEF t

(* What is in a sequence with one more element at its end *)
LEMMA AppendedElement ==
  ASSUME NEW s, IsSeq(s), NEW e
  PROVE  /\ IsSeq(Append(s, e))
         /\ \A j \in DOMAIN Append(s, e) :
              Append(s, e)[j] = e \/ \E k \in DOMAIN s : Append(s, e)[j] = s[k]
<1> DEFINE S == {s[k] : k \in DOMAIN s} \cup {e}
           t == Append(s, e)
<1>1. s \in Seq(S) /\ e \in S
  <2>1. s \in Seq({s[k] : k \in DOMAIN s})
    BY DEF IsSeq
  <2> QED BY <2>1
<1> HIDE DEF S
<1>2. t \in Seq(S)
  BY <1>1
<1> HIDE DEF t
<1>3. \A j \in DOMAIN t : t[j] \in S
  BY <1>2
<1>4. IsSeq(t)
  BY <1>2, SeqIsSeq
<1> QED BY <1>3, <1>4 DEF S, t

(* What is in a sequence with another element at i *)
LEMMA ChangedElement ==
  ASSUME NEW s, IsSeq(s), NEW i \in DOMAIN s, NEW e
  PROVE  /\ IsSeq([s EXCEPT ![i] = e]) /\ DOMAIN [s EXCEPT ![i] = e] = DOMAIN s
         /\ \A j \in DOMAIN s : [s EXCEPT ![i] = e][j] = IF j = i THEN e ELSE s[j]
<1> DEFINE S == {s[k] : k \in DOMAIN s} \cup {e}
           t == [s EXCEPT ![i] = e]
<1>1. s \in Seq(S) /\ e \in S
  <2>1. s \in Seq({s[k] : k \in DOMAIN s})
    BY DEF IsSeq
  <2> QED BY <2>1
<1> HIDE DEF S
<1>2. /\ t \in Seq(S) /\ DOMAIN t = DOMAIN s
      /\ \A j \in DOMAIN s : t[j] = IF j = i THEN e ELSE s[j]
  BY <1>1
<1> HIDE DEF t
<1>3. IsSeq(t)
  BY <1>2, SeqIsSeq
<1> QED BY <1>2, <1>3 DEF t

(* No two elements of a sequence are the same. *)
Distinct(s) == IsSeq(s) /\ \A i, j \in DOMAIN s : s[i] = s[j] => i = j

(* A list gets an element it does not have at its end. *)
LEMMA AppendedDistinct ==
  ASSUME NEW s, Distinct(s), NEW e, \A j \in DOMAIN s : s[j] # e
  PROVE  Distinct(Append(s, e))
<1> DEFINE S == {s[k] : k \in DOMAIN s} \cup {e}
<1>1. s \in Seq(S) /\ e \in S
  <2>1. s \in Seq({s[k] : k \in DOMAIN s})
    BY DEF Distinct, IsSeq
  <2> QED BY <2>1
<1> HIDE DEF S
<1>2. /\ Len(s) \in Nat /\ DOMAIN s = 1 .. Len(s) /\ DOMAIN Append(s, e) = 1 .. Len(s) + 1
      /\ \A j \in 1 .. Len(s) + 1 : Append(s, e)[j] = IF j <= Len(s) THEN s[j] ELSE e
  BY <1>1
<1>3. IsSeq(Append(s, e))
  BY AppendedElement DEF Distinct
<1>4. ASSUME NEW i \in 1 .. Len(s) + 1, NEW j \in 1 .. Len(s) + 1,
             Append(s, e)[i] = Append(s, e)[j]
      PROVE  i = j
  BY <1>2, <1>4 DEF Distinct
<1> QED BY <1>2, <1>3, <1>4 DEF Distinct

(* What is left of elements that differ *)
LEMMA DistinctWithout ==
  ASSUME NEW s, Distinct(s), NEW i \in DOMAIN s
  PROVE  /\ Distinct(Without(s, i))
         /\ \A j \in DOMAIN Without(s, i) : Without(s, i)[j] # s[i]
<1> DEFINE t == Without(s, i)
<1>1. /\ IsSeq(t)
      /\ \E f : \A j \in DOMAIN t :
           /\ f[j] \in DOMAIN s /\ f[j] # i /\ t[j] = s[f[j]]
           /\ \A k \in DOMAIN t : f[j] = f[k] => j = k
  BY WithoutPlaces DEF Distinct
<1> HIDE DEF t
<1>2. PICK f : \A j \in DOMAIN t :
        /\ f[j] \in DOMAIN s /\ f[j] # i /\ t[j] = s[f[j]]
        /\ \A k \in DOMAIN t : f[j] = f[k] => j = k
  BY <1>1
<1>3. ASSUME NEW j \in DOMAIN t, NEW k \in DOMAIN t, t[j] = t[k] PROVE j = k
  <2>1. f[j] = f[k]
    BY <1>2, <1>3 DEF Distinct
  <2> QED BY <1>2, <2>1
<1>4. \A j \in DOMAIN t : t[j] # s[i]
  BY <1>2 DEF Distinct
<1> QED BY <1>1, <1>3, <1>4 DEF Distinct, t

(* An element that differs from the others, somewhere among them *)
LEMMA DistinctWith ==
  ASSUME NEW s, Distinct(s), NEW i \in 1 .. Len(s) + 1, NEW e, \A j \in DOMAIN s : s[j] # e
  PROVE  Distinct(With(s, i, e))
<1> DEFINE t == With(s, i, e)
<1>1. /\ IsSeq(t) /\ i \in DOMAIN t /\ t[i] = e
      /\ \E f : \A j \in DOMAIN t : j # i =>
           /\ f[j] \in DOMAIN s /\ t[j] = s[f[j]]
           /\ \A k \in DOMAIN t : k # i /\ f[j] = f[k] => j = k
  BY WithPlaces DEF Distinct
<1> HIDE DEF t
<1>2. PICK f : \A j \in DOMAIN t : j # i =>
        /\ f[j] \in DOMAIN s /\ t[j] = s[f[j]]
        /\ \A k \in DOMAIN t : k # i /\ f[j] = f[k] => j = k
  BY <1>1
<1>3. ASSUME NEW j \in DOMAIN t, NEW k \in DOMAIN t, t[j] = t[k] PROVE j = k
  <2>1. CASE j # i /\ k # i
    <3>1. f[j] = f[k]
      BY <1>2, <1>3, <2>1 DEF Distinct
    <3> QED BY <1>2, <2>1, <3>1
  <2>2. CASE j = i \/ k = i
    BY <1>1, <1>2, <1>3, <2>2
  <2> QED BY <2>1, <2>2
<1> QED BY <1>1, <1>3 DEF Distinct, t

(* Two lists that have nothing in common *)
LEMMA JoinedDistinct ==
  ASSUME NEW s, Distinct(s), NEW t, Distinct(t),
         \A i \in DOMAIN s, j \in DOMAIN t : s[i] # t[j]
  PROVE  /\ Distinct(s \o t)
         /\ \A i \in DOMAIN (s \o t) :
              \/ \E k \in DOMAIN s : (s \o t)[i] = s[k]
              \/ \E k \in DOMAIN t : (s \o t)[i] = t[k]
<1> DEFINE S == {s[k] : k \in DOMAIN s} \cup {t[k] : k \in DOMAIN t}
           u == s \o t
<1>1. s \in Seq(S) /\ t \in Seq(S)
  <2>1. s \in Seq({s[k] : k \in DOMAIN s}) /\ t \in Seq({t[k] : k \in DOMAIN t})
    BY DEF Distinct, IsSeq
  <2> QED BY <2>1
<1> HIDE DEF S
<1>2. /\ Len(s) \in Nat /\ DOMAIN s = 1 .. Len(s)
      /\ Len(t) \in Nat /\ DOMAIN t = 1 .. Len(t)
      /\ u \in Seq(S) /\ DOMAIN u = 1 .. Len(s) + Len(t)
      /\ \A j \in 1 .. Len(s) + Len(t) : u[j] = IF j <= Len(s) THEN s[j] ELSE t[j - Len(s)]
  BY <1>1, ConcatProperties
<1> HIDE DEF u
<1>3. IsSeq(u)
  BY <1>2, SeqIsSeq
<1>4. ASSUME NEW j \in DOMAIN u
      PROVE  \/ j \in DOMAIN s /\ u[j] = s[j]
             \/ j > Len(s) /\ j - Len(s) \in DOMAIN t /\ u[j] = t[j - Len(s)]
  BY <1>2
<1>5. ASSUME NEW i \in DOMAIN u, NEW j \in DOMAIN u, u[i] = u[j]
      PROVE  i = j
  <2>1. CASE i \in DOMAIN s /\ u[i] = s[i]
    <3>1. CASE j \in DOMAIN s /\ u[j] = s[j]
      BY <1>5, <2>1, <3>1 DEF Distinct
    <3>2. CASE j > Len(s) /\ j - Len(s) \in DOMAIN t /\ u[j] = t[j - Len(s)]
      BY <1>5, <2>1, <3>2
    <3> QED BY <1>4, <3>1, <3>2
  <2>2. CASE i > Len(s) /\ i - Len(s) \in DOMAIN t /\ u[i] = t[i - Len(s)]
    <3>1. CASE j \in DOMAIN s /\ u[j] = s[j]
      BY <1>5, <2>2, <3>1
    <3>2. CASE j > Len(s) /\ j - Len(s) \in DOMAIN t /\ u[j] = t[j - Len(s)]
      <4>1. i - Len(s) = j - Len(s)
        BY <1>5, <2>2, <3>2 DEF Distinct
      <4> QED BY <1>2, <4>1
    <3> QED BY <1>4, <3>1, <3>2
  <2> QED BY <1>4, <2>1, <2>2
<1>6. \A j \in DOMAIN u : (\E k \in DOMAIN s : u[j] = s[k]) \/ (\E k \in DOMAIN t : u[j] = t[k])
  BY <1>4
<1> QED BY <1>3, <1>5, <1>6 DEF Distinct, u

=============================================================================
