----------------------------- MODULE DataLemmas -----------------------------
(***************************************************************************)
(* Facts about lists, selections from lists, sums over finite sets and     *)
(* remainders that the other proof modules cite.                           *)
(***************************************************************************)
EXTENDS Lists, Functions, FiniteSetTheorems, NaturalsInduction,
        WellFoundedInduction, TLAPS

-----------------------------------------------------------------------------
(***************************************************************************)
(* What Append and Tail do to the domain, the elements and the range.      *)
(***************************************************************************)
LEMMA AppendFacts ==
    ASSUME NEW S, NEW s \in Seq(S), NEW e \in S
    PROVE  /\ Append(s, e) \in Seq(S)
           /\ Len(s) \in Nat /\ Len(Append(s, e)) = Len(s) + 1
           /\ DOMAIN s = 1..Len(s) /\ DOMAIN Append(s, e) = 1..(Len(s) + 1)
           /\ \A i \in 1..Len(s) : Append(s, e)[i] = s[i]
           /\ Append(s, e)[Len(s) + 1] = e
           /\ Range(Append(s, e)) = Range(s) \cup {e}
<1>1. /\ Append(s, e) \in Seq(S)
      /\ Len(s) \in Nat /\ Len(Append(s, e)) = Len(s) + 1
      /\ DOMAIN s = 1..Len(s) /\ DOMAIN Append(s, e) = 1..(Len(s) + 1)
      /\ \A i \in 1..Len(s) : Append(s, e)[i] = s[i]
      /\ Append(s, e)[Len(s) + 1] = e
  OBVIOUS
<1> DEFINE t == Append(s, e)
<1> HIDE DEF t
<1>2. Range(t) = Range(s) \cup {e}
  <2>1. /\ Len(s) \in Nat
        /\ DOMAIN s = 1..Len(s) /\ DOMAIN t = 1..(Len(s) + 1)
        /\ \A i \in 1..Len(s) : t[i] = s[i]
        /\ t[Len(s) + 1] = e
    BY <1>1 DEF t
  <2>2. ASSUME NEW x \in Range(t) PROVE x \in Range(s) \cup {e}
    <3>1. PICK i \in 1..(Len(s) + 1) : x = t[i]
      BY <2>1, <2>2 DEF Range
    <3> QED
      BY <2>1, <3>1 DEF Range
  <2>3. ASSUME NEW x \in Range(s) PROVE x \in Range(t)
    <3>1. PICK i \in 1..Len(s) : x = s[i]
      BY <2>1, <2>3 DEF Range
    <3>2. i \in DOMAIN t /\ t[i] = x
      BY <2>1, <3>1
    <3> QED
      BY <3>2 DEF Range
  <2>4. e \in Range(t)
    BY <2>1 DEF Range
  <2> QED
    BY <2>2, <2>3, <2>4
<1> QED
  BY <1>1, <1>2 DEF t

(* The head and the tail of a list. *)
LEMMA TailFacts ==
    ASSUME NEW S, NEW s \in Seq(S), s # <<>>
    PROVE  /\ Tail(s) \in Seq(S)
           /\ Head(s) = s[1] /\ Head(s) \in S /\ 1 \in DOMAIN s
           /\ Len(s) \in Nat /\ DOMAIN s = 1..Len(s)
           /\ DOMAIN Tail(s) = 1..(Len(s) - 1)
           /\ \A i \in DOMAIN Tail(s) : i + 1 \in DOMAIN s /\ Tail(s)[i] = s[i + 1]
           /\ Head(s) \in Range(s) /\ Range(Tail(s)) \subseteq Range(s)
<1>1. /\ Tail(s) \in Seq(S)
      /\ Head(s) = s[1] /\ Head(s) \in S /\ 1 \in DOMAIN s
      /\ Len(s) \in Nat /\ DOMAIN s = 1..Len(s)
      /\ DOMAIN Tail(s) = 1..(Len(s) - 1)
      /\ \A i \in DOMAIN Tail(s) : i + 1 \in DOMAIN s /\ Tail(s)[i] = s[i + 1]
  OBVIOUS
<1> DEFINE t == Tail(s)
           h == Head(s)
<1> HIDE DEF t, h
<1>2. h = s[1] /\ \A i \in DOMAIN t : i + 1 \in DOMAIN s /\ t[i] = s[i + 1]
  BY <1>1 DEF t, h
<1>3. h \in Range(s) /\ Range(t) \subseteq Range(s)
  BY <1>1, <1>2 DEF Range
<1> QED
  BY <1>1, <1>3 DEF t, h

-----------------------------------------------------------------------------
(***************************************************************************)
(* Selections.                                                             *)
(***************************************************************************)
(* A set of naturals has a least element: the induction the provers take.  *)
LEMMA LeastNat ==
    ASSUME NEW T, T \subseteq Nat, T # {}
    PROVE  \E x \in T : \A y \in T : x <= y
<1>1. IsWellFoundedOn(OpToRel(<, Nat), Nat)
  BY NatLessThanWellFounded
<1>2. PICK x \in T : \A y \in T : ~(<<y, x>> \in OpToRel(<, Nat))
  BY <1>1, WFMin
<1>3. ASSUME NEW y \in T PROVE x <= y
  <2>1. ~(y < x)
    BY <1>2 DEF OpToRel
  <2> QED
    BY <2>1
<1> QED
  BY <1>3

(* Counting the kept positions up to each numbers them without a gap. *)
RankIn(K, i) == Cardinality({j \in K : j <= i})

(* Ranks number the positions of a selection without a gap. *)
LEMMA RankFacts ==
    ASSUME NEW n \in Nat, NEW K \in SUBSET (1..n)
    PROVE  /\ Cardinality(K) \in Nat
           /\ \A i \in K : RankIn(K, i) \in 1..Cardinality(K)
           /\ \A i, j \in K : RankIn(K, i) = RankIn(K, j) => i = j
           /\ \A k \in 1..Cardinality(K) : \E i \in K : RankIn(K, i) = k
<1> DEFINE U(i) == {j \in K : j <= i}
           c == Cardinality(K)
           Rank == [i \in K |-> RankIn(K, i)]
<1>1. IsFiniteSet(1..n)
  BY FS_Interval
<1>2. IsFiniteSet(K) /\ c \in Nat
  BY <1>1, FS_Subset, FS_CardinalityType
<1>3. ASSUME NEW i \in K
      PROVE  /\ IsFiniteSet(U(i)) /\ Cardinality(U(i)) \in Nat
             /\ Cardinality(U(i)) <= c /\ Cardinality(U(i)) # 0
  <2>1. U(i) \in SUBSET K
    OBVIOUS
  <2>2. IsFiniteSet(U(i)) /\ Cardinality(U(i)) <= c
    BY <1>2, <2>1, FS_Subset
  <2>3. Cardinality(U(i)) \in Nat
    BY <2>2, FS_CardinalityType
  <2>4. i \in U(i)
    OBVIOUS
  <2>5. U(i) # {}
    BY <2>4
  <2> HIDE DEF U
  <2>6. Cardinality(U(i)) # 0
    BY <2>2, <2>5, FS_EmptySet
  <2> QED
    BY <2>2, <2>3, <2>6
<1>4. ASSUME NEW i \in K PROVE Rank[i] = Cardinality(U(i)) /\ Rank[i] \in 1..c
  <2>1. Rank[i] = Cardinality(U(i))
    BY DEF RankIn
  <2> HIDE DEF U, c
  <2> QED
    BY <1>2, <1>3, <2>1
<1>5. ASSUME NEW i \in K, NEW j \in K, i < j PROVE Rank[i] # Rank[j]
  <2>1. U(i) \in SUBSET U(j)
    <3>1. i \in Nat /\ j \in Nat /\ \A x \in K : x \in Nat
      OBVIOUS
    <3>2. \A x \in K : x <= i => x <= j
      BY <1>5, <3>1
    <3> QED
      BY <3>2
  <2>2. j \in U(j) /\ j \notin U(i)
    <3>1. i \in Nat /\ j \in Nat
      OBVIOUS
    <3>2. j <= j /\ ~(j <= i)
      BY <1>5, <3>1
    <3> QED
      BY <3>2
  <2>3. U(i) # U(j)
    BY <2>2
  <2>4. IsFiniteSet(U(j))
    BY <1>3
  <2> HIDE DEF U
  <2>5. Cardinality(U(i)) # Cardinality(U(j))
    BY <2>1, <2>3, <2>4, FS_Subset
  <2> QED
    BY <1>4, <2>5
<1>6. ASSUME NEW i \in K, NEW j \in K, Rank[i] = Rank[j] PROVE i = j
  <2>1. i \in Nat /\ j \in Nat
    OBVIOUS
  <2> QED
    BY <1>5, <1>6, <2>1
<1>7. \A k \in 1..c : \E i \in K : Rank[i] = k
  <2>1. Rank \in Injection(K, 1..c)
    <3>1. Rank \in [K -> 1..c]
      BY <1>4
    <3> QED
      BY <1>6, <3>1 DEF Injection, IsInjective
  <2>2. IsFiniteSet(1..c) /\ Cardinality(1..c) = c
    <3> HIDE DEF c
    <3>1. IsFiniteSet(1..c) /\ Cardinality(1..c) = IF 1 > c THEN 0 ELSE c - 1 + 1
      BY <1>2, FS_Interval
    <3> QED
      BY <1>2, <3>1
  <2>3. Rank \in Surjection(K, 1..c)
    BY <2>1, <2>2, FS_Injection
  <2> QED
    BY <2>3 DEF Surjection
<1>8. \A i \in K : Rank[i] = RankIn(K, i)
  OBVIOUS
<1> HIDE DEF Rank
<1> QED
  BY ZenonT(60), <1>2, <1>4, <1>6, <1>7, <1>8

(* Ranks keep the order of the positions. *)
LEMMA RankOrder ==
    ASSUME NEW n \in Nat, NEW K \in SUBSET (1..n)
    PROVE  \A i, j \in K : RankIn(K, i) <= RankIn(K, j) <=> i <= j
<1> DEFINE r(i) == RankIn(K, i)
<1>1. /\ \A i \in K : r(i) \in Nat
      /\ \A i, j \in K : r(i) = r(j) => i = j
  <2>1. /\ Cardinality(K) \in Nat
        /\ \A i \in K : RankIn(K, i) \in 1..Cardinality(K)
        /\ \A i, j \in K : RankIn(K, i) = RankIn(K, j) => i = j
    BY RankFacts
  <2> QED
    BY <2>1
<1>2. IsFiniteSet(K) /\ \A x \in K : x \in Nat
  <2>1. IsFiniteSet(1..n)
    BY FS_Interval
  <2>2. IsFiniteSet(K)
    BY <2>1, FS_Subset
  <2> QED
    BY <2>2
<1>3. ASSUME NEW i \in K, NEW j \in K, i <= j PROVE r(i) <= r(j)
  <2> DEFINE U(x) == {k \in K : k <= x}
  <2>1. U(i) \in SUBSET U(j) /\ U(j) \in SUBSET K
    <3>1. \A x \in K : x <= i => x <= j
      BY <1>2, <1>3
    <3> QED
      BY <3>1
  <2>2. IsFiniteSet(U(j))
    BY <1>2, <2>1, FS_Subset
  <2> HIDE DEF U
  <2>3. Cardinality(U(i)) <= Cardinality(U(j))
    BY <2>1, <2>2, FS_Subset
  <2> QED
    BY <2>3 DEF U, RankIn
<1> HIDE DEF r
<1>4. ASSUME NEW i \in K, NEW j \in K PROVE r(i) <= r(j) <=> i <= j
  <2>1. i \in Nat /\ j \in Nat /\ r(i) \in Nat /\ r(j) \in Nat
    BY <1>1, <1>2
  <2>2. r(j) <= r(i) /\ r(i) <= r(j) => i = j
    BY <1>1, <2>1
  <2> QED
    BY <1>3, <2>1, <2>2
<1> QED
  BY <1>4 DEF r

(* What is picked stands at its rank. *)
LEMMA PickedAt ==
    ASSUME NEW n \in Nat, NEW K \in SUBSET (1..n), NEW s
    PROVE  LET p == Picked(s, K)
           IN  /\ Cardinality(K) \in Nat
               /\ p = [k \in 1..Cardinality(K) |-> p[k]]
               /\ \A i \in K : RankIn(K, i) \in 1..Cardinality(K) /\ p[RankIn(K, i)] = s[i]
               /\ \A k \in 1..Cardinality(K) : \E i \in K : RankIn(K, i) = k
<1> DEFINE c == Cardinality(K)
           at(k) == CHOOSE i \in K : Cardinality({j \in K : j <= i}) = k
           p == Picked(s, K)
<1>1. /\ c \in Nat
      /\ \A i \in K : RankIn(K, i) \in 1..c
      /\ \A i, j \in K : RankIn(K, i) = RankIn(K, j) => i = j
      /\ \A k \in 1..c : \E i \in K : RankIn(K, i) = k
  BY RankFacts
<1>2. ASSUME NEW i \in K PROVE at(RankIn(K, i)) = i
  <2> DEFINE k == RankIn(K, i)
  <2>1. i \in K /\ Cardinality({j \in K : j <= i}) = k
    BY DEF RankIn
  <2>2. at(k) \in K /\ Cardinality({j \in K : j <= at(k)}) = k
    BY <2>1
  <2>3. RankIn(K, at(k)) = RankIn(K, i)
    BY <2>2 DEF RankIn
  <2> QED
    BY <1>1, <2>2, <2>3
<1>3. p = [k \in 1..c |-> s[at(k)]]
  BY DEF Picked
<1> HIDE DEF at, p, c
<1>4. \A i \in K : p[RankIn(K, i)] = s[i]
  BY <1>1, <1>2, <1>3
<1>5. p = [k \in 1..c |-> p[k]]
  BY <1>3
<1> QED
  BY <1>1, <1>4, <1>5 DEF p, c

(* Picking from a selection picks from the list. *)
LEMMA PickedTwice ==
    ASSUME NEW S, NEW s \in Seq(S), NEW J \in SUBSET (1..Len(s)), NEW K \in SUBSET J
    PROVE  Picked(Picked(s, J), {RankIn(J, i) : i \in K}) = Picked(s, K)
<1> DEFINE n == Len(s)
           c == Cardinality(J)
           r(i) == RankIn(J, i)
           L == {r(i) : i \in K}
           p == Picked(s, J)
           Below(i) == {j \in K : j <= i}
<1>1. /\ n \in Nat /\ J \in SUBSET (1..n) /\ K \in SUBSET (1..n)
      /\ IsFiniteSet(J) /\ IsFiniteSet(K) /\ J \subseteq Nat
  <2>1. n \in Nat
    OBVIOUS
  <2>2. IsFiniteSet(1..n)
    BY <2>1, FS_Interval
  <2>3. J \in SUBSET (1..n) /\ K \in SUBSET (1..n) /\ J \subseteq Nat
    OBVIOUS
  <2> HIDE DEF n
  <2>4. IsFiniteSet(J) /\ IsFiniteSet(K)
    BY <2>2, <2>3, FS_Subset
  <2> QED
    BY <2>1, <2>3, <2>4
<1>2. /\ c \in Nat
      /\ \A i \in J : r(i) \in 1..c /\ p[r(i)] = s[i]
      /\ \A i, j \in J : r(i) = r(j) => i = j
  <2>1. /\ c \in Nat
        /\ \A i \in J : RankIn(J, i) \in 1..c
        /\ \A i, j \in J : RankIn(J, i) = RankIn(J, j) => i = j
    BY <1>1, RankFacts
  <2>2. \A i \in J : p[RankIn(J, i)] = s[i]
    BY <1>1, PickedAt
  <2> QED
    BY <2>1, <2>2
<1>3. \A i, j \in J : r(i) <= r(j) <=> i <= j
  BY <1>1, RankOrder
<1> HIDE DEF r
<1>4. ASSUME NEW T \in SUBSET K PROVE Cardinality({r(i) : i \in T}) = Cardinality(T)
  <2> DEFINE f == [i \in T |-> r(i)]
             R == {r(i) : i \in T}
  <2>1. f \in [T -> R] /\ \A i, j \in T : f[i] = f[j] => i = j
    <3>1. T \subseteq J /\ \A i \in T : f[i] = r(i)
      OBVIOUS
    <3>2. \A i, j \in T : f[i] = f[j] => i = j
      BY <1>2, <3>1
    <3> QED
      BY <3>2
  <2>2. f \in Injection(T, R)
    BY <2>1 DEF Injection, IsInjective
  <2>3. f \in Surjection(T, R)
    BY <2>1 DEF Surjection
  <2>4. ExistsBijection(T, R)
    BY <2>2, <2>3 DEF ExistsBijection, Bijection
  <2>5. IsFiniteSet(T)
    BY <1>1, FS_Subset
  <2> HIDE DEF R
  <2>6. Cardinality(R) = Cardinality(T)
    BY <2>4, <2>5, FS_Bijection
  <2> QED
    BY <2>6 DEF R
<1>5. ASSUME NEW i \in K PROVE RankIn(L, r(i)) = RankIn(K, i)
  <2>1. {l \in L : l <= r(i)} = {r(j) : j \in Below(i)}
    BY <1>3
  <2>2. Below(i) \in SUBSET K
    OBVIOUS
  <2>3. Cardinality({r(j) : j \in Below(i)}) = Cardinality(Below(i))
    BY <1>4, <2>2
  <2> QED
    BY <2>1, <2>3 DEF RankIn
<1>6. Cardinality(L) = Cardinality(K) /\ L \in SUBSET (1..c)
  BY <1>2, <1>4
<1> DEFINE q == Picked(p, L)
           t == Picked(s, K)
           m == Cardinality(K)
<1>7. /\ q = [k \in 1..m |-> q[k]]
      /\ \A l \in L : q[RankIn(L, l)] = p[l]
  <2> HIDE DEF L, p, c
  <2> QED
    BY <1>2, <1>6, PickedAt
<1>8. /\ t = [k \in 1..m |-> t[k]]
      /\ \A i \in K : t[RankIn(K, i)] = s[i]
      /\ \A k \in 1..m : \E i \in K : RankIn(K, i) = k
  BY <1>1, PickedAt
<1>9. ASSUME NEW k \in 1..m PROVE q[k] = t[k]
  <2>1. PICK i \in K : RankIn(K, i) = k
    BY <1>8
  <2>2. r(i) \in L /\ i \in J
    OBVIOUS
  <2> HIDE DEF L, p, q, t
  <2> QED
    BY <1>2, <1>5, <1>7, <1>8, <2>1, <2>2
<1> HIDE DEF q, t
<1>10. q = t
  BY <1>7, <1>8, <1>9
<1> QED
  BY <1>10 DEF q, t, L, p, r

(* What is picked of a list is a list of what stands there. *)
LEMMA PickedFacts ==
    ASSUME NEW S, NEW s \in Seq(S), NEW K \in SUBSET (1..Len(s))
    PROVE  Picked(s, K) \in Seq(S) /\ Range(Picked(s, K)) = {s[i] : i \in K}
<1> DEFINE c == Cardinality(K)
           at(k) == CHOOSE i \in K : Cardinality({j \in K : j <= i}) = k
           p == Picked(s, K)
<1>1. Len(s) \in Nat /\ \A i \in 1..Len(s) : s[i] \in S
  OBVIOUS
<1>2. /\ c \in Nat
      /\ \A i \in K : RankIn(K, i) \in 1..c
      /\ \A i, j \in K : RankIn(K, i) = RankIn(K, j) => i = j
      /\ \A k \in 1..c : \E i \in K : RankIn(K, i) = k
  BY <1>1, RankFacts
<1>4. ASSUME NEW k \in 1..c PROVE at(k) \in K /\ RankIn(K, at(k)) = k
  <2>1. PICK i \in K : Cardinality({j \in K : j <= i}) = k
    BY <1>2 DEF RankIn
  <2>2. at(k) \in K /\ Cardinality({j \in K : j <= at(k)}) = k
    BY <2>1
  <2> QED
    BY <2>2 DEF RankIn
<1>5. p = [k \in 1..c |-> s[at(k)]]
  BY DEF Picked
<1> HIDE DEF at, p, c
<1>6. \A k \in 1..c : s[at(k)] \in S
  BY <1>1, <1>4
<1>7. p \in Seq(S) /\ DOMAIN p = 1..c
  BY <1>2, <1>5, <1>6
<1>8. ASSUME NEW i \in K PROVE \E k \in DOMAIN p : p[k] = s[i]
  <2>1. RankIn(K, i) \in 1..c /\ at(RankIn(K, i)) = i
    BY <1>2, <1>4
  <2> QED
    BY <1>5, <1>7, <2>1
<1>9. ASSUME NEW k \in DOMAIN p PROVE \E i \in K : p[k] = s[i]
  BY <1>4, <1>5, <1>7
<1>10. Range(p) = {s[i] : i \in K}
  BY <1>8, <1>9 DEF Range
<1> QED
  BY <1>7, <1>10 DEF p

(* A selection without repeated elements has none twice. *)
LEMMA PickedOnce ==
    ASSUME NEW S, NEW s \in Seq(S), NEW K \in SUBSET (1..Len(s)),
           \A i, j \in K : s[i] = s[j] => i = j
    PROVE  /\ Len(Picked(s, K)) = Cardinality(K)
           /\ \A k, l \in DOMAIN Picked(s, K) :
                 Picked(s, K)[k] = Picked(s, K)[l] => k = l
<1> DEFINE c == Cardinality(K)
           at(k) == CHOOSE i \in K : Cardinality({j \in K : j <= i}) = k
           p == Picked(s, K)
<1>1. c \in Nat /\ \A k \in 1..c : \E i \in K : RankIn(K, i) = k
  <2>1. Len(s) \in Nat
    OBVIOUS
  <2> QED
    BY <2>1, RankFacts
<1>2. ASSUME NEW k \in 1..c PROVE at(k) \in K /\ RankIn(K, at(k)) = k
  <2>1. PICK i \in K : Cardinality({j \in K : j <= i}) = k
    BY <1>1 DEF RankIn
  <2>2. at(k) \in K /\ Cardinality({j \in K : j <= at(k)}) = k
    BY <2>1
  <2> QED
    BY <2>2 DEF RankIn
<1>3. p = [k \in 1..c |-> s[at(k)]]
  BY DEF Picked
<1> HIDE DEF at, p, c
<1>4. DOMAIN p = 1..c /\ Len(p) = c
  BY <1>1, <1>3
<1>5. ASSUME NEW k \in 1..c, NEW l \in 1..c, p[k] = p[l] PROVE k = l
  <2>1. s[at(k)] = s[at(l)]
    BY <1>3, <1>5
  <2>2. at(k) = at(l)
    BY <1>2, <2>1
  <2> QED
    BY <1>2, <2>2
<1> QED
  BY <1>4, <1>5 DEF p, c

(* A list without repeats is a line-up of the set of its elements. *)
LEMMA OnceFacts ==
    ASSUME NEW S, NEW s \in Seq(S), IsInjective(s)
    PROVE  /\ IsFiniteSet(Range(s)) /\ Cardinality(Range(s)) = Len(s)
           /\ s \in Bijection(1..Cardinality(Range(s)), Range(s))
           /\ Range(s) \subseteq S
<1>1. Len(s) \in Nat /\ DOMAIN s = 1..Len(s) /\ s \in [1..Len(s) -> S]
  OBVIOUS
<1>2. s \in [1..Len(s) -> Range(s)] /\ Range(s) \subseteq S
  <2>1. s = [i \in 1..Len(s) |-> s[i]]
    BY <1>1
  <2>2. \A i \in 1..Len(s) : s[i] \in Range(s)
    BY <1>1 DEF Range
  <2>3. Range(s) \subseteq S
    BY <1>1 DEF Range
  <2> QED
    BY <2>1, <2>2, <2>3
<1>3. s \in Bijection(1..Len(s), Range(s))
  <2>1. s \in Injection(1..Len(s), Range(s))
    BY <1>1, <1>2 DEF IsInjective, Injection
  <2>2. s \in Surjection(1..Len(s), Range(s))
    BY <1>1, <1>2 DEF Range, Surjection
  <2> QED
    BY <2>1, <2>2 DEF Bijection
<1>4. IsFiniteSet(1..Len(s)) /\ Cardinality(1..Len(s)) = Len(s)
  <2>1. IsFiniteSet(1..Len(s)) /\ Cardinality(1..Len(s)) = IF 1 > Len(s) THEN 0 ELSE Len(s) - 1 + 1
    BY <1>1, FS_Interval
  <2> QED
    BY <1>1, <2>1
<1>5. ExistsBijection(1..Len(s), Range(s))
  BY <1>3 DEF ExistsBijection
<1>6. IsFiniteSet(Range(s)) /\ Cardinality(Range(s)) = Len(s)
  BY <1>4, <1>5, FS_Bijection
<1> QED
  BY <1>2, <1>3, <1>6

(* One more element that the list does not hold. *)
LEMMA AppendOnce ==
    ASSUME NEW S, NEW s \in Seq(S), IsInjective(s), NEW e \in S, e \notin Range(s)
    PROVE  /\ Append(s, e) \in Seq(S) /\ IsInjective(Append(s, e))
           /\ Range(Append(s, e)) = Range(s) \cup {e}
           /\ Len(Append(s, e)) = Len(s) + 1
<1> DEFINE t == Append(s, e)
<1>1. /\ t \in Seq(S) /\ Len(s) \in Nat /\ Len(t) = Len(s) + 1
      /\ DOMAIN s = 1..Len(s) /\ DOMAIN t = 1..(Len(s) + 1)
      /\ \A i \in 1..Len(s) : t[i] = s[i]
      /\ t[Len(s) + 1] = e
      /\ Range(t) = Range(s) \cup {e}
  BY AppendFacts
<1> HIDE DEF t
<1>2. \A i \in 1..Len(s) : s[i] # e
  BY <1>1 DEF Range
<1>3. IsInjective(t)
  <2> SUFFICES ASSUME NEW i \in DOMAIN t, NEW j \in DOMAIN t, t[i] = t[j]
               PROVE  i = j
    BY DEF IsInjective
  <2>1. i \in 1..Len(s) \/ i = Len(s) + 1
    BY <1>1
  <2>2. j \in 1..Len(s) \/ j = Len(s) + 1
    BY <1>1
  <2> QED
    BY <1>1, <1>2, <2>1, <2>2 DEF IsInjective
<1> QED
  BY <1>1, <1>3 DEF t

-----------------------------------------------------------------------------
(***************************************************************************)
(* Sums over finite sets.  SumFunctionOnSet takes the elements in an order *)
(* CHOOSE fixes; what is proved is that the order does not matter.         *)
(***************************************************************************)
(* Of some finite sets, one is the smallest: the induction over sets. *)
LEMMA SmallestSet ==
    ASSUME NEW S, IsFiniteSet(S), NEW Q \in SUBSET (SUBSET S), Q # {}
    PROVE  \E T \in Q : /\ IsFiniteSet(T) /\ T \subseteq S
                        /\ \A x \in T : T \ {x} \notin Q
<1> DEFINE Sizes == {Cardinality(T) : T \in Q}
<1>1. \A T \in Q : IsFiniteSet(T) /\ Cardinality(T) \in Nat /\ T \subseteq S
  BY FS_Subset, FS_CardinalityType
<1>2. Sizes \subseteq Nat /\ Sizes # {}
  BY <1>1
<1>3. PICK n \in Sizes : \A k \in Sizes : n <= k
  <2> HIDE DEF Sizes
  <2> QED
    BY <1>2, LeastNat
<1>4. PICK T \in Q : n = Cardinality(T)
  OBVIOUS
<1>5. ASSUME NEW x \in T, T \ {x} \in Q PROVE FALSE
  <2>1. Cardinality(T \ {x}) = Cardinality(T) - 1
    BY <1>1, FS_RemoveElement
  <2>2. n <= Cardinality(T \ {x})
    BY <1>3, <1>5
  <2> QED
    BY <1>1, <1>4, <2>1, <2>2
<1> QED
  BY <1>1, <1>5

Chosen(s) == CHOOSE x \in s : TRUE
SumsUp(f, S, g) ==
    g = [s \in SUBSET S |-> IF s = {} THEN 0 ELSE f[Chosen(s)] + g[s \ {Chosen(s)}]]

(* The operator's own definition, with the recursion named. *)
LEMMA SumIsChosen ==
    ASSUME NEW f, NEW S
    PROVE  SumFunctionOnSet(f, S) = (CHOOSE r : SumsUp(f, S, r))[S]
BY Zenon DEF SumFunctionOnSet, FoldFunctionOnSet, MapThenFoldSet, SumsUp, Chosen

(* Sums of sets up to one size extend to those of the next. *)
LEMMA SumExists ==
    ASSUME NEW f, NEW S, IsFiniteSet(S)
    PROVE  \E g : SumsUp(f, S, g)
<1> DEFINE D(n) == {T \in SUBSET S : Cardinality(T) <= n}
           Good(n, g) == \A T \in D(n) :
                            g[T] = IF T = {} THEN 0 ELSE f[Chosen(T)] + g[T \ {Chosen(T)}]
           Bad == {n \in Nat : ~\E g : Good(n, g)}
<1>1. \A T \in SUBSET S : IsFiniteSet(T) /\ Cardinality(T) \in Nat
                             /\ Cardinality(T) <= Cardinality(S)
  BY FS_Subset, FS_CardinalityType
<1>2. ASSUME NEW T \in SUBSET S, T # {}
      PROVE  /\ Chosen(T) \in T /\ T \ {Chosen(T)} \in SUBSET S
             /\ Cardinality(T \ {Chosen(T)}) = Cardinality(T) - 1
  <2>1. Chosen(T) \in T
    BY <1>2 DEF Chosen
  <2> QED
    BY <1>1, <2>1, FS_RemoveElement
<1>3. ASSUME NEW T \in SUBSET S, Cardinality(T) = 0 PROVE T = {}
  BY <1>1, <1>3, FS_EmptySet
<1>4. \E g : Good(0, g)
  <2> DEFINE g == [T \in SUBSET S |-> 0]
  <2>1. \A T \in D(0) : T = {}
    BY <1>1, <1>3
  <2>2. Good(0, g)
    BY <2>1
  <2> QED
    BY <2>2
<1>5. ASSUME NEW n \in Nat, NEW g, Good(n, g) PROVE \E h : Good(n + 1, h)
  <2> DEFINE h == [T \in SUBSET S |-> IF Cardinality(T) <= n THEN g[T]
                                       ELSE f[Chosen(T)] + g[T \ {Chosen(T)}]]
  <2>1. ASSUME NEW T \in D(n + 1)
        PROVE  h[T] = IF T = {} THEN 0 ELSE f[Chosen(T)] + h[T \ {Chosen(T)}]
    <3>1. CASE T = {}
      <4>1. T \in D(n)
        BY <3>1, FS_EmptySet
      <4> QED
        BY <1>5, <3>1, <4>1
    <3>2. CASE T # {}
      <4> DEFINE U == T \ {Chosen(T)}
      <4>1. U \in SUBSET S /\ Cardinality(U) = Cardinality(T) - 1
        BY <1>2, <3>2
      <4>2. Cardinality(U) <= n
        BY <1>1, <4>1
      <4>3. h[U] = g[U]
        BY <4>1, <4>2
      <4>4. CASE Cardinality(T) <= n
        <5>1. g[T] = f[Chosen(T)] + g[U]
          BY <1>5, <3>2, <4>4
        <5> QED
          BY <3>2, <4>3, <4>4, <5>1
      <4>5. CASE ~(Cardinality(T) <= n)
        BY <3>2, <4>3, <4>5
      <4> QED
        BY <4>4, <4>5
    <3> QED
      BY <3>1, <3>2
  <2> HIDE DEF h
  <2> QED
    BY <2>1
<1>6. Bad = {}
  <2> SUFFICES ASSUME Bad # {} PROVE FALSE
    OBVIOUS
  <2>1. PICK n \in Bad : \A k \in Bad : n <= k
    <3>1. Bad \subseteq Nat
      OBVIOUS
    <3> HIDE DEF Bad
    <3> QED
      BY <3>1, LeastNat
  <2>2. n \in Nat /\ ~\E g : Good(n, g)
    OBVIOUS
  <2> HIDE DEF Good
  <2>3. n # 0
    BY <1>4, <2>2
  <2>4. n - 1 \in Nat /\ n - 1 \notin Bad
    BY <2>1, <2>2, <2>3
  <2>5. PICK g : Good(n - 1, g)
    BY <2>4
  <2>6. \E h : Good((n - 1) + 1, h)
    BY <1>5, <2>4, <2>5
  <2>7. (n - 1) + 1 = n
    BY <2>2
  <2> QED
    BY <2>2, <2>6, <2>7
<1>7. PICK g : Good(Cardinality(S), g)
  <2>1. Cardinality(S) \in Nat
    BY <1>1
  <2> HIDE DEF Good
  <2> QED
    BY <1>6, <2>1
<1> DEFINE k == [T \in SUBSET S |-> g[T]]
<1>8. ASSUME NEW T \in SUBSET S
      PROVE  k[T] = IF T = {} THEN 0 ELSE f[Chosen(T)] + k[T \ {Chosen(T)}]
  <2>1. T \in D(Cardinality(S))
    BY <1>1
  <2>2. g[T] = IF T = {} THEN 0 ELSE f[Chosen(T)] + g[T \ {Chosen(T)}]
    BY <1>7, <2>1
  <2> QED
    BY <1>2, <2>2
<1>9. k = [T \in SUBSET S |-> k[T]]
  OBVIOUS
<1> HIDE DEF k
<1>10. SumsUp(f, S, k)
  BY <1>8, <1>9 DEF SumsUp
<1> QED
  BY <1>10

(* Only the values on the set matter. *)
LEMMA SumsAgree ==
    ASSUME NEW f, NEW S, NEW g, SumsUp(f, S, g),
           NEW h, NEW R, NEW k, SumsUp(h, R, k),
           NEW T, IsFiniteSet(T), T \subseteq S, T \subseteq R,
           \A x \in T : f[x] = h[x]
    PROVE  g[T] = k[T]
<1> DEFINE Q == {U \in SUBSET T : g[U] # k[U]}
<1>1. \A U \in SUBSET S : g[U] = IF U = {} THEN 0 ELSE f[Chosen(U)] + g[U \ {Chosen(U)}]
  BY DEF SumsUp
<1>2. \A U \in SUBSET R : k[U] = IF U = {} THEN 0 ELSE h[Chosen(U)] + k[U \ {Chosen(U)}]
  BY DEF SumsUp
<1>3. Q = {}
  <2> SUFFICES ASSUME Q # {} PROVE FALSE
    OBVIOUS
  <2>1. PICK U \in Q : IsFiniteSet(U) /\ U \subseteq T /\ \A x \in U : U \ {x} \notin Q
    <3>1. Q \in SUBSET (SUBSET T)
      OBVIOUS
    <3> HIDE DEF Q
    <3> QED
      BY <3>1, SmallestSet
  <2>2. g[U] # k[U]
    OBVIOUS
  <2>3. U # {}
    BY <1>1, <1>2, <2>1, <2>2
  <2>4. Chosen(U) \in U
    BY <2>3 DEF Chosen
  <2> DEFINE V == U \ {Chosen(U)}
  <2>5. g[V] = k[V]
    BY <2>1, <2>4
  <2>6. f[Chosen(U)] = h[Chosen(U)]
    BY <2>1, <2>4
  <2>7. g[U] = f[Chosen(U)] + g[V] /\ k[U] = h[Chosen(U)] + k[V]
    BY <1>1, <1>2, <2>1, <2>3
  <2> QED
    BY <2>2, <2>5, <2>6, <2>7
<1> QED
  BY <1>3

(* A sum is the chosen element's value and the sum of the others. *)
LEMMA SumUnfolds ==
    ASSUME NEW f, NEW S, IsFiniteSet(S)
    PROVE  /\ S = {} => SumFunctionOnSet(f, S) = 0
           /\ S # {} => /\ Chosen(S) \in S
                        /\ SumFunctionOnSet(f, S)
                             = f[Chosen(S)] + SumFunctionOnSet(f, S \ {Chosen(S)})
<1> DEFINE R == S \ {Chosen(S)}
           g == CHOOSE r : SumsUp(f, S, r)
           k == CHOOSE r : SumsUp(f, R, r)
<1>1. IsFiniteSet(R) /\ R \subseteq S
  BY FS_Subset
<1>2. SumsUp(f, S, g)
  BY SumExists
<1>3. SumsUp(f, R, k)
  BY <1>1, SumExists
<1>4. SumFunctionOnSet(f, S) = g[S] /\ SumFunctionOnSet(f, R) = k[R]
  BY SumIsChosen
<1> HIDE DEF g, k
<1>5. g[R] = k[R]
  BY <1>1, <1>2, <1>3, SumsAgree
<1>6. g[S] = IF S = {} THEN 0 ELSE f[Chosen(S)] + g[R]
  BY <1>2 DEF SumsUp
<1> QED
  BY <1>4, <1>5, <1>6 DEF Chosen

(* Equal values on the set have equal sums. *)
LEMMA SumSame ==
    ASSUME NEW f, NEW h, NEW S, IsFiniteSet(S), \A x \in S : f[x] = h[x]
    PROVE  SumFunctionOnSet(f, S) = SumFunctionOnSet(h, S)
<1> DEFINE g == CHOOSE r : SumsUp(f, S, r)
           k == CHOOSE r : SumsUp(h, S, r)
<1>1. SumsUp(f, S, g) /\ SumsUp(h, S, k)
  BY SumExists
<1>2. SumFunctionOnSet(f, S) = g[S] /\ SumFunctionOnSet(h, S) = k[S]
  BY SumIsChosen
<1> HIDE DEF g, k
<1> QED
  BY <1>1, <1>2, SumsAgree

(* The sum is an integer and any element can be taken out first. *)
LEMMA SumInt ==
    ASSUME NEW f, NEW S, IsFiniteSet(S), \A x \in S : f[x] \in Int
    PROVE  SumFunctionOnSet(f, S) \in Int
<1> DEFINE Q == {T \in SUBSET S : SumFunctionOnSet(f, T) \notin Int}
<1>1. Q = {}
  <2> SUFFICES ASSUME Q # {} PROVE FALSE
    OBVIOUS
  <2>1. PICK T \in Q : IsFiniteSet(T) /\ T \subseteq S /\ \A x \in T : T \ {x} \notin Q
    <3>1. Q \in SUBSET (SUBSET S)
      OBVIOUS
    <3> HIDE DEF Q
    <3> QED
      BY <3>1, SmallestSet
  <2>2. SumFunctionOnSet(f, T) \notin Int
    OBVIOUS
  <2>3. T # {}
    <3>1. T = {} => SumFunctionOnSet(f, T) = 0
      BY <2>1, SumUnfolds
    <3> HIDE DEF Q
    <3> QED
      BY <2>2, <3>1
  <2>4. Chosen(T) \in T /\ SumFunctionOnSet(f, T) = f[Chosen(T)] + SumFunctionOnSet(f, T \ {Chosen(T)})
    BY <2>1, <2>3, SumUnfolds
  <2>5. SumFunctionOnSet(f, T \ {Chosen(T)}) \in Int
    BY <2>1, <2>4
  <2>6. f[Chosen(T)] \in Int
    BY <2>1, <2>4
  <2> QED
    BY <2>2, <2>4, <2>5, <2>6
<1> QED
  BY <1>1

(* Any element's value can be taken out of the sum. *)
LEMMA SumTakesOut ==
    ASSUME NEW f, NEW S, IsFiniteSet(S), \A x \in S : f[x] \in Int, NEW e \in S
    PROVE  SumFunctionOnSet(f, S) = f[e] + SumFunctionOnSet(f, S \ {e})
<1> DEFINE Sum(T) == SumFunctionOnSet(f, T)
           Q == {T \in SUBSET S : \E x \in T : Sum(T) # f[x] + Sum(T \ {x})}
<1>1. Q = {}
  <2> SUFFICES ASSUME Q # {} PROVE FALSE
    OBVIOUS
  <2>1. PICK T \in Q : IsFiniteSet(T) /\ T \subseteq S /\ \A x \in T : T \ {x} \notin Q
    <3>1. Q \in SUBSET (SUBSET S)
      OBVIOUS
    <3> HIDE DEF Q
    <3> QED
      BY <3>1, SmallestSet
  <2>2. PICK x \in T : Sum(T) # f[x] + Sum(T \ {x})
    OBVIOUS
  <2> DEFINE c == Chosen(T)
             A == T \ {c}
             B == T \ {x}
             C == (T \ {c}) \ {x}
  <2>3. c \in T /\ Sum(T) = f[c] + Sum(A)
    BY <2>1, SumUnfolds
  <2> HIDE DEF Sum, c
  <2>4. c # x
    BY <2>2, <2>3
  <2>5. x \in A /\ c \in B /\ C = B \ {c} /\ A \subseteq S /\ B \subseteq S
        /\ A \notin Q /\ B \notin Q
    BY <2>1, <2>3, <2>4
  <2>6. Sum(A) = f[x] + Sum(C)
    BY <2>5
  <2>7. Sum(B) = f[c] + Sum(C)
    BY <2>5
  <2>8. IsFiniteSet(C) /\ C \subseteq S
    BY <2>1, FS_Subset
  <2>9. Sum(C) \in Int /\ f[x] \in Int /\ f[c] \in Int
    BY <2>1, <2>3, <2>8, SumInt DEF Sum
  <2> HIDE DEF A, B, C
  <2>10. Sum(T) = f[x] + Sum(B)
    BY <2>3, <2>6, <2>7, <2>9
  <2> QED
    BY <2>2, <2>10 DEF B
<1>2. S \notin Q
  BY <1>1
<1> QED
  BY <1>2

(* More elements, none of them negative, make no smaller sum. *)
LEMMA SumGrows ==
    ASSUME NEW f, NEW S, IsFiniteSet(S), \A x \in S : f[x] \in Nat,
           NEW R \in SUBSET S
    PROVE  SumFunctionOnSet(f, R) <= SumFunctionOnSet(f, S)
<1> DEFINE Sum(T) == SumFunctionOnSet(f, T)
           Q == {T \in SUBSET S : R \subseteq T /\ ~(Sum(R) <= Sum(T))}
<1>1. \A T \in SUBSET S : IsFiniteSet(T) /\ Sum(T) \in Int
  BY FS_Subset, SumInt
<1>2. Q = {}
  <2> SUFFICES ASSUME Q # {} PROVE FALSE
    OBVIOUS
  <2>1. PICK T \in Q : IsFiniteSet(T) /\ T \subseteq S /\ \A x \in T : T \ {x} \notin Q
    <3>1. Q \in SUBSET (SUBSET S)
      OBVIOUS
    <3> HIDE DEF Q
    <3> QED
      BY <3>1, SmallestSet
  <2>2. R \subseteq T /\ ~(Sum(R) <= Sum(T))
    OBVIOUS
  <2>3. T # R
    BY <1>1, <2>2
  <2>4. PICK x \in T : x \notin R
    BY <2>2, <2>3
  <2>5. Sum(T) = f[x] + Sum(T \ {x})
    BY <2>1, SumTakesOut
  <2>6. T \ {x} \in SUBSET S /\ R \subseteq T \ {x}
    BY <2>1, <2>2, <2>4
  <2> HIDE DEF Sum
  <2>7. Sum(R) <= Sum(T \ {x})
    BY <2>1, <2>6
  <2>8. f[x] \in Nat /\ Sum(T \ {x}) \in Int /\ Sum(R) \in Int
    BY <1>1, <2>1, <2>6
  <2> QED
    BY <2>2, <2>5, <2>7, <2>8
<1> QED
  BY <1>2

-----------------------------------------------------------------------------
(***************************************************************************)
(* Stretches of lists and lists in a row.                                  *)
(***************************************************************************)
(* A stretch of a list, and two lists in a row. *)
LEMMA StretchFacts ==
    ASSUME NEW S, NEW s \in Seq(S), NEW m \in Nat \ {0}, NEW k \in Nat, m <= k + 1, k <= Len(s)
    PROVE  /\ SubSeq(s, m, k) \in Seq(S) /\ Len(SubSeq(s, m, k)) = k - m + 1
           /\ \A j \in 1 .. k - m + 1 : SubSeq(s, m, k)[j] = s[m + j - 1]
OBVIOUS

InARow(s, t) == s \o t
LEMMA InARowFacts ==
    ASSUME NEW S, NEW s \in Seq(S), NEW t \in Seq(S)
    PROVE  /\ InARow(s, t) \in Seq(S) /\ Len(InARow(s, t)) = Len(s) + Len(t)
           /\ \A j \in 1 .. Len(s) : InARow(s, t)[j] = s[j]
           /\ \A j \in Len(s) + 1 .. Len(s) + Len(t) : InARow(s, t)[j] = t[j - Len(s)]
BY DEF InARow

(* Two lists with one element between them. *)
Three(a, c, b) == a \o <<c>> \o b
LEMMA InARowThree ==
    ASSUME NEW S, NEW a \in Seq(S), NEW b \in Seq(S), NEW c \in S
    PROVE  /\ Three(a, c, b) \in Seq(S)
           /\ Len(Three(a, c, b)) = Len(a) + 1 + Len(b)
           /\ \A j \in 1 .. Len(a) : Three(a, c, b)[j] = a[j]
           /\ Three(a, c, b)[Len(a) + 1] = c
           /\ \A j \in Len(a) + 2 .. Len(a) + 1 + Len(b) :
                 Three(a, c, b)[j] = b[j - Len(a) - 1]
<1> DEFINE d == <<c>>
           h == InARow(a, d)
           m == InARow(h, b)
<1>1. d \in Seq(S) /\ Len(d) = 1 /\ d[1] = c /\ Len(a) \in Nat /\ Len(b) \in Nat
  OBVIOUS
<1> HIDE DEF d
<1>2. /\ h \in Seq(S) /\ Len(h) = Len(a) + 1
      /\ \A j \in 1 .. Len(a) : h[j] = a[j]
      /\ \A j \in Len(a) + 1 .. Len(a) + 1 : h[j] = d[j - Len(a)]
  <2>1. h \in Seq(S) /\ Len(h) = Len(a) + Len(d)
    BY <1>1, InARowFacts
  <2>2. \A j \in 1 .. Len(a) : h[j] = a[j]
    BY <1>1, InARowFacts
  <2>3. \A j \in Len(a) + 1 .. Len(a) + Len(d) : h[j] = d[j - Len(a)]
    BY <1>1, InARowFacts
  <2> HIDE DEF h
  <2> QED
    BY <1>1, <2>1, <2>2, <2>3
<1> HIDE DEF h
<1>3. /\ m \in Seq(S) /\ Len(m) = Len(h) + Len(b)
      /\ \A j \in 1 .. Len(h) : m[j] = h[j]
      /\ \A j \in Len(h) + 1 .. Len(h) + Len(b) : m[j] = b[j - Len(h)]
  <2>0. h \in Seq(S)
    BY <1>2
  <2>1. m \in Seq(S) /\ Len(m) = Len(h) + Len(b)
    BY <2>0, InARowFacts
  <2>2. \A j \in 1 .. Len(h) : m[j] = h[j]
    BY <2>0, InARowFacts
  <2>3. \A j \in Len(h) + 1 .. Len(h) + Len(b) : m[j] = b[j - Len(h)]
    BY <2>0, InARowFacts
  <2> HIDE DEF m
  <2> QED
    BY <2>1, <2>2, <2>3
<1> HIDE DEF m
<1>4. h[Len(a) + 1] = c
  <2>1. Len(a) + 1 \in Len(a) + 1 .. Len(a) + 1 /\ Len(a) + 1 - Len(a) = 1
    BY <1>1
  <2> QED
    BY <1>1, <1>2, <2>1
<1>5. /\ \A j \in 1 .. Len(a) : m[j] = a[j]
      /\ m[Len(a) + 1] = c
  BY <1>1, <1>2, <1>3, <1>4
<1>6. ASSUME NEW j \in Len(a) + 2 .. Len(a) + 1 + Len(b) PROVE m[j] = b[j - Len(a) - 1]
  <2>1. j \in Len(h) + 1 .. Len(h) + Len(b) /\ j - Len(h) = j - Len(a) - 1
    BY <1>1, <1>2
  <2> QED
    BY <1>3, <2>1
<1>7. Len(m) = Len(a) + 1 + Len(b)
  BY <1>1, <1>2, <1>3
<1> QED
  BY <1>3, <1>5, <1>6, <1>7 DEF m, h, d, Three, InARow

(* A list with a stretch of it replaced by one element. *)
Splice(leg, i, n, c) == Three(SubSeq(leg, 1, i - 1), c, SubSeq(leg, i + n, Len(leg)))
LEMMA Spliced ==
    ASSUME NEW S, NEW leg \in Seq(S), NEW c \in S, NEW i \in Nat \ {0}, NEW n \in Nat,
           i + n - 1 <= Len(leg)
    PROVE  LET new == Splice(leg, i, n, c)
           IN  /\ new \in Seq(S) /\ Len(new) = Len(leg) - n + 1
               /\ \A j \in 1 .. i - 1 : new[j] = leg[j]
               /\ new[i] = c
               /\ \A j \in i + 1 .. Len(new) : new[j] = leg[j + n - 1]
<1> DEFINE a == SubSeq(leg, 1, i - 1)
           b == SubSeq(leg, i + n, Len(leg))
           new == Three(a, c, b)
<1>1. /\ Len(leg) \in Nat /\ i - 1 \in Nat /\ 1 <= i - 1 + 1 /\ i - 1 <= Len(leg)
      /\ i + n \in Nat \ {0} /\ i + n <= Len(leg) + 1
  OBVIOUS
<1>2. /\ a \in Seq(S) /\ Len(a) = i - 1 - 1 + 1
      /\ \A j \in 1 .. i - 1 - 1 + 1 : a[j] = leg[1 + j - 1]
  BY <1>1, StretchFacts
<1>3. /\ b \in Seq(S) /\ Len(b) = Len(leg) - (i + n) + 1
      /\ \A j \in 1 .. Len(leg) - (i + n) + 1 : b[j] = leg[i + n + j - 1]
  <2>1. Len(leg) <= Len(leg)
    BY <1>1
  <2> QED
    BY <1>1, <2>1, StretchFacts
<1> HIDE DEF a, b
<1>4. /\ new \in Seq(S) /\ Len(new) = Len(a) + 1 + Len(b)
      /\ \A j \in 1 .. Len(a) : new[j] = a[j]
      /\ new[Len(a) + 1] = c
      /\ \A j \in Len(a) + 2 .. Len(a) + 1 + Len(b) : new[j] = b[j - Len(a) - 1]
  <2>1. a \in Seq(S) /\ b \in Seq(S)
    BY <1>2, <1>3
  <2> QED
    <3>1. new \in Seq(S)
      BY <2>1, InARowThree
    <3>2. Len(new) = Len(a) + 1 + Len(b)
      BY <2>1, InARowThree
    <3>3. \A j \in 1 .. Len(a) : new[j] = a[j]
      BY <2>1, InARowThree
    <3>4. new[Len(a) + 1] = c
      BY <2>1, InARowThree
    <3>5. \A j \in Len(a) + 2 .. Len(a) + 1 + Len(b) : new[j] = b[j - Len(a) - 1]
      BY <2>1, InARowThree
    <3> QED
      BY <3>1, <3>2, <3>3, <3>4, <3>5
<1> HIDE DEF new
<1>5. Len(a) = i - 1 /\ \A j \in 1 .. i - 1 : a[j] = leg[j]
  BY <1>1, <1>2
<1>6. Len(new) = Len(leg) - n + 1
  BY <1>1, <1>3, <1>4, <1>5
<1>7. ASSUME NEW j \in i + 1 .. Len(new) PROVE new[j] = leg[j + n - 1]
  <2>1. /\ j - i \in 1 .. Len(leg) - (i + n) + 1 /\ i + n + (j - i) - 1 = j + n - 1
        /\ j \in Len(a) + 2 .. Len(a) + 1 + Len(b) /\ j - Len(a) - 1 = j - i
    BY <1>1, <1>3, <1>5, <1>6
  <2>2. new[j] = b[j - i]
    BY <1>4, <2>1
  <2>3. b[j - i] = leg[i + n + (j - i) - 1]
    BY <1>3, <2>1
  <2> QED
    BY <2>1, <2>2, <2>3
<1>8. (\A j \in 1 .. i - 1 : new[j] = leg[j]) /\ new[i] = c
  BY <1>4, <1>5
<1> QED
  BY <1>4, <1>6, <1>7, <1>8 DEF new, a, b, Splice

-----------------------------------------------------------------------------
(***************************************************************************)
(* Quotients and remainders by a divisor that is a parameter.              *)
(***************************************************************************)
(* Quotient and remainder. *)
LEMMA DivMod ==
    ASSUME NEW a \in Int, NEW d \in Nat \ {0}
    PROVE  /\ a \div d \in Int /\ a % d \in 0 .. d - 1
           /\ a = d * (a \div d) + (a % d)
OBVIOUS

(* The remainder is unique. *)
LEMMA OneRemainder ==
    ASSUME NEW d \in Nat \ {0}, NEW j \in Int, NEW k \in Int, NEW r \in Int, NEW s \in Int,
           0 <= r, r < d, 0 <= s, s < d, d * j + r = d * k + s
    PROVE  r = s
<1>1. d * (j - k) = s - r
  OBVIOUS
<1>2. CASE j - k >= 1
  <2>1. d * (j - k) >= d
    BY <1>2
  <2> QED
    BY <1>1, <2>1
<1>3. CASE k - j >= 1
  <2>1. d * (k - j) >= d
    BY <1>3
  <2>2. d * (k - j) = r - s
    BY <1>1
  <2> QED
    BY <2>1, <2>2
<1>4. CASE j = k
  BY <1>4
<1> QED
  BY <1>2, <1>3, <1>4

(* A number below a product has its quotient below the factor. *)
LEMMA DivBelow ==
    ASSUME NEW d \in Nat \ {0}, NEW a \in Nat, NEW m \in Nat, a < m * d
    PROVE  a \div d \in 0 .. m - 1
<1> DEFINE q == a \div d
<1>1. q \in Int /\ a % d \in 0 .. d - 1 /\ a = d * q + (a % d)
  BY DivMod
<1> HIDE DEF q
<1>2. q >= 0
  <2> SUFFICES ASSUME q <= -1 PROVE FALSE
    BY <1>1
  <2>1. d * (- 1 - q) >= 0
    BY <1>1
  <2>2. d * (- 1 - q) = - d - d * q
    BY <1>1
  <2> QED
    BY <1>1, <2>1, <2>2
<1>3. q <= m - 1
  <2> SUFFICES ASSUME q >= m PROVE FALSE
    BY <1>1
  <2>1. d * (q - m) >= 0
    BY <1>1
  <2>2. d * (q - m) = d * q - d * m /\ d * m = m * d
    BY <1>1
  <2> QED
    BY <1>1, <2>1, <2>2
<1> QED
  BY <1>1, <1>2, <1>3 DEF q
=============================================================================
