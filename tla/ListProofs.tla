----------------------------- MODULE ListProofs -----------------------------
(***************************************************************************)
(* Lemmas the components' proofs share.  What the free lists return, for   *)
(* every list: the rank of an index is a bijection between a list and      *)
(* 0 .. size-1, hence k takes remove exactly k indices and Ascending       *)
(* enumerates the list without repetition.  How a cardinality changes when *)
(* one member does, what Append and Tail do to a queue of distinct jobs,   *)
(* the ends of a set of numbers, and sums over a set.                      *)
(***************************************************************************)
EXTENDS FreeList, Totals, FiniteSetTheorems, SequenceTheorems, WellFoundedInduction, TLAPS

(* The number of smaller indices is a natural number below the list size. *)
LEMMA RankBound ==
  ASSUME NEW S \in SUBSET Int, IsFiniteSet(S), NEW x \in S
  PROVE  Rank(x, S) \in 0 .. Cardinality(S) - 1
<1> DEFINE L == {y \in S : y < x}
<1>1. L \in SUBSET S /\ x \notin L
  OBVIOUS
<1>2. IsFiniteSet(L) /\ Cardinality(L) <= Cardinality(S)
      /\ Cardinality(L) # Cardinality(S)
  BY <1>1, FS_Subset
<1>3. Cardinality(L) \in Nat /\ Cardinality(S) \in Nat
  BY <1>2, FS_CardinalityType
<1> QED BY <1>2, <1>3 DEF Rank

(* A smaller index leaves the list earlier. *)
LEMMA RankStrict ==
  ASSUME NEW S \in SUBSET Int, IsFiniteSet(S),
         NEW x \in S, NEW y \in S, x < y
  PROVE  Rank(x, S) < Rank(y, S)
<1> DEFINE Lx == {z \in S : z < x}
           Ly == {z \in S : z < y}
<1>1. x \in Int /\ y \in Int
  OBVIOUS
<1>2. Lx \in SUBSET Ly /\ x \in Ly /\ x \notin Lx
  <2>1. ASSUME NEW z \in S, z < x PROVE z < y
    BY <1>1, <2>1
  <2>2. ~ (x < x)
    BY <1>1
  <2> QED BY <2>1, <2>2
<1>3. Ly \in SUBSET S
  OBVIOUS
<1>4. IsFiniteSet(Ly)
  BY <1>3, FS_Subset
<1>5. IsFiniteSet(Lx) /\ Cardinality(Lx) <= Cardinality(Ly)
      /\ Cardinality(Lx) # Cardinality(Ly)
  BY <1>2, <1>4, FS_Subset
<1>6. Cardinality(Lx) \in Nat /\ Cardinality(Ly) \in Nat
  BY <1>4, <1>5, FS_CardinalityType
<1> QED BY <1>5, <1>6 DEF Rank

(* Distinct indices leave the list at distinct moments. *)
LEMMA RankInjective ==
  ASSUME NEW S \in SUBSET Int, IsFiniteSet(S),
         NEW x \in S, NEW y \in S, Rank(x, S) = Rank(y, S)
  PROVE  x = y
<1>1. x \in Int /\ y \in Int /\ Rank(x, S) \in Int
  BY RankBound, FS_CardinalityType
<1>2. ~ (x < y) /\ ~ (y < x)
  BY <1>1, RankStrict
<1> QED BY <1>1, <1>2

(* Every position of the list is the rank of one of its indices. *)
LEMMA RankOnto ==
  ASSUME NEW S \in SUBSET Int, IsFiniteSet(S), NEW i \in 0 .. Cardinality(S) - 1
  PROVE  \E x \in S : Rank(x, S) = i
<1> DEFINE T == 0 .. Cardinality(S) - 1
           f == [x \in S |-> Rank(x, S)]
<1>1. Cardinality(S) \in Nat
  BY FS_CardinalityType
<1>2. IsFiniteSet(T) /\ Cardinality(T) = Cardinality(S)
  <2>1. 0 \in Int /\ Cardinality(S) - 1 \in Int
    BY <1>1
  <2>2. IsFiniteSet(T) /\ Cardinality(T) = IF 0 > Cardinality(S) - 1 THEN 0 ELSE Cardinality(S) - 1 - 0 + 1
    BY <2>1, FS_Interval
  <2> QED BY <1>1, <2>2
<1>3. f \in Injection(S, T)
  BY RankBound, RankInjective DEF Injection, IsInjective
<1>4. f \in Surjection(S, T)
  BY <1>2, <1>3, FS_Injection
<1> QED BY <1>4 DEF Surjection

(* Ascending lists every index of S exactly once. *)
LEMMA AscendingProps ==
  ASSUME NEW S \in SUBSET Int, IsFiniteSet(S)
  PROVE  /\ Ascending(S) \in Seq(S)
         /\ Len(Ascending(S)) = Cardinality(S)
         /\ Range(Ascending(S)) = S
         /\ \A i, j \in 1 .. Cardinality(S) :
              Ascending(S)[i] = Ascending(S)[j] => i = j
         /\ \A i \in 1 .. Cardinality(S) : Rank(Ascending(S)[i], S) = i - 1
<1> DEFINE n == Cardinality(S)
           a == Ascending(S)
<1>1. n \in Nat
  BY FS_CardinalityType
<1>2. \A i \in 1 .. n : a[i] \in S /\ Rank(a[i], S) = i - 1
  <2> TAKE i \in 1 .. n
  <2>1. i - 1 \in 0 .. n - 1
    BY <1>1
  <2>2. \E x \in S : Rank(x, S) = i - 1
    BY <2>1, RankOnto
  <2>3. a[i] = CHOOSE x \in S : Rank(x, S) = i - 1
    BY DEF Ascending
  <2> QED BY <2>2, <2>3
<1>3. a \in [1 .. n -> S]
  BY <1>2 DEF Ascending
<1>4. a \in Seq(S) /\ Len(a) = n
  BY <1>1, <1>3
<1>5. \A i, j \in 1 .. n : a[i] = a[j] => i = j
  BY <1>1, <1>2
<1>6. ASSUME NEW x \in S PROVE \E i \in 1 .. n : a[i] = x
  <2>1. Rank(x, S) \in 0 .. n - 1
    BY RankBound
  <2>2. Rank(x, S) + 1 \in 1 .. n
    BY <1>1, <2>1
  <2>3. Rank(a[Rank(x, S) + 1], S) = Rank(x, S) /\ a[Rank(x, S) + 1] \in S
    BY <1>1, <1>2, <2>1, <2>2
  <2>4. a[Rank(x, S) + 1] = x
    BY <2>3, RankInjective
  <2> QED BY <2>2, <2>4
<1>7. Range(a) = S
  BY <1>3, <1>6 DEF Range
<1> QED BY <1>2, <1>4, <1>5, <1>7

(* k takes from a list of at least k indices remove exactly k of them. *)
LEMMA LowestProps ==
  ASSUME NEW S \in SUBSET Int, IsFiniteSet(S), NEW k \in 0 .. Cardinality(S)
  PROVE  /\ Lowest(S, k) \subseteq S
         /\ IsFiniteSet(Lowest(S, k))
         /\ Cardinality(Lowest(S, k)) = k
<1> DEFINE T == 0 .. k - 1
           f == [x \in Lowest(S, k) |-> Rank(x, S)]
<1>1. Lowest(S, k) \in SUBSET S
  BY DEF Lowest
<1>2. IsFiniteSet(Lowest(S, k))
  BY <1>1, FS_Subset
<1>3. Cardinality(S) \in Nat /\ k \in Nat
  BY FS_CardinalityType
<1>4. IsFiniteSet(T) /\ Cardinality(T) = k
  <2>1. 0 \in Int /\ k - 1 \in Int
    BY <1>3
  <2>2. IsFiniteSet(T) /\ Cardinality(T) = IF 0 > k - 1 THEN 0 ELSE k - 1 - 0 + 1
    BY <2>1, FS_Interval
  <2> QED BY <1>3, <2>2
<1>5. \A x \in Lowest(S, k) : f[x] \in T
  BY <1>1, <1>3, RankBound DEF Lowest
<1>6. \A x, y \in Lowest(S, k) : f[x] = f[y] => x = y
  BY <1>1, RankInjective
<1>7. \A i \in T : \E x \in Lowest(S, k) : f[x] = i
  <2> TAKE i \in T
  <2>1. i \in 0 .. Cardinality(S) - 1 /\ i < k
    BY <1>3
  <2>2. PICK x \in S : Rank(x, S) = i
    BY <2>1, RankOnto
  <2> QED BY <2>1, <2>2 DEF Lowest
<1>8. f \in Bijection(Lowest(S, k), T)
  BY <1>5, <1>6, <1>7 DEF Bijection, Injection, Surjection, IsInjective
<1>9. Cardinality(Lowest(S, k)) = Cardinality(T)
  <2>1. ExistsBijection(Lowest(S, k), T)
    BY <1>8 DEF ExistsBijection
  <2> QED BY <1>2, <2>1, FS_Bijection
<1> QED BY <1>1, <1>2, <1>4, <1>9

-----------------------------------------------------------------------------
(* Sets that differ in one member, and queues that hold a job once.        *)

One(b) == IF b THEN 1 ELSE 0

(* Only the membership of c changes. *)
LEMMA CardinalityStep ==
  ASSUME NEW S, NEW T, IsFiniteSet(S), NEW c, \A d : d # c => (d \in S <=> d \in T)
  PROVE  /\ IsFiniteSet(T) /\ Cardinality(S) \in Nat /\ Cardinality(T) \in Nat
         /\ Cardinality(T) + One(c \in S) = Cardinality(S) + One(c \in T)
<1> DEFINE R == S \ {c}
<1>1. /\ IsFiniteSet(R) /\ Cardinality(R) \in Nat /\ Cardinality(S) \in Nat
      /\ Cardinality(S) = Cardinality(R) + One(c \in S)
  BY FS_RemoveElement, FS_CardinalityType DEF One
<1>2. T = IF c \in T THEN R \cup {c} ELSE R
  OBVIOUS
<1>3. c \notin R
  OBVIOUS
<1> HIDE DEF R
<1>4. IsFiniteSet(T) /\ Cardinality(T) = Cardinality(R) + One(c \in T)
  BY <1>1, <1>2, <1>3, FS_AddElement DEF One
<1> QED BY <1>1, <1>4 DEF One

(* Disjoint parts are counted apart. *)
LEMMA DisjointCardinality ==
  ASSUME NEW S, NEW T, IsFiniteSet(S), IsFiniteSet(T), S \cap T = {}
  PROVE  IsFiniteSet(S \cup T) /\ Cardinality(S \cup T) = Cardinality(S) + Cardinality(T)
<1>1. /\ IsFiniteSet(S \cup T)
      /\ Cardinality(S \cup T) = Cardinality(S) + Cardinality(T) - Cardinality(S \cap T)
  BY FS_Union
<1>2. Cardinality(S) \in Nat /\ Cardinality(T) \in Nat
  BY FS_CardinalityType
<1>3. Cardinality(S \cap T) = 0
  BY FS_EmptySet
<1> QED BY <1>1, <1>2, <1>3

(* push_back of a job the queue does not hold. *)
LEMMA AppendNew ==
  ASSUME NEW S, NEW q \in Seq(S), NEW c \in S
  PROVE  /\ Append(q, c) \in Seq(S)
         /\ ToSet(Append(q, c)) = ToSet(q) \cup {c}
         /\ IsInjective(q) /\ c \notin ToSet(q) => IsInjective(Append(q, c))
<1> DEFINE n == Len(q)
           r == Append(q, c)
<1>1. /\ n \in Nat /\ DOMAIN q = 1 .. n /\ r \in Seq(S) /\ DOMAIN r = 1 .. n + 1
      /\ \A i \in 1 .. n : r[i] = q[i]
      /\ r[n + 1] = c
  OBVIOUS
<1>2. \A i : i \in 1 .. n + 1 <=> i \in 1 .. n \/ i = n + 1
  BY <1>1
<1> HIDE DEF n, r
<1>3. ToSet(r) = ToSet(q) \cup {c}
  <2>1. \A x : x \in ToSet(r) <=> x \in ToSet(q) \/ x = c
    BY <1>1, <1>2 DEF ToSet
  <2> QED BY <2>1
<1>4. IsInjective(q) /\ c \notin ToSet(q) => IsInjective(r)
  BY <1>1, <1>2 DEF ToSet, IsInjective
<1> QED BY <1>1, <1>3, <1>4 DEF r

(* pop_front of a queue that holds each job once. *)
LEMMA TailRest ==
  ASSUME NEW S, NEW q \in Seq(S), q # <<>>, IsInjective(q)
  PROVE  /\ Tail(q) \in Seq(S) /\ Head(q) \in S /\ Head(q) \in ToSet(q)
         /\ ToSet(Tail(q)) = ToSet(q) \ {Head(q)} /\ IsInjective(Tail(q))
<1> DEFINE n == Len(q)
           r == Tail(q)
<1>1. /\ n \in Nat /\ n >= 1 /\ DOMAIN q = 1 .. n /\ r \in Seq(S) /\ DOMAIN r = 1 .. n - 1
      /\ \A i \in 1 .. n - 1 : r[i] = q[i + 1]
      /\ Head(q) = q[1] /\ q[1] \in S
  OBVIOUS
<1>2. \A i \in 1 .. n : i = 1 \/ (i - 1 \in 1 .. n - 1 /\ (i - 1) + 1 = i)
  BY <1>1
<1>3. \A i \in 1 .. n - 1 : i + 1 \in 1 .. n /\ i + 1 # 1
  BY <1>1
<1>4. 1 \in 1 .. n
  BY <1>1
<1> HIDE DEF n, r
<1>5. \A x : x \in ToSet(r) <=> x \in ToSet(q) /\ x # q[1]
  <2>1. ASSUME NEW x \in ToSet(r) PROVE x \in ToSet(q) /\ x # q[1]
    <3>1. PICK i \in 1 .. n - 1 : x = r[i]
      BY <1>1, <2>1 DEF ToSet
    <3> QED BY <1>1, <1>3, <1>4, <3>1 DEF ToSet, IsInjective
  <2>2. ASSUME NEW x \in ToSet(q), x # q[1] PROVE x \in ToSet(r)
    <3>1. PICK i \in 1 .. n : x = q[i]
      BY <1>1, <2>2 DEF ToSet
    <3>2. i - 1 \in 1 .. n - 1 /\ r[i - 1] = x
      BY <1>1, <1>2, <2>2, <3>1
    <3> QED BY <1>1, <3>2 DEF ToSet
  <2> QED BY <2>1, <2>2
<1>6. IsInjective(r)
  <2> SUFFICES ASSUME NEW i \in 1 .. n - 1, NEW k \in 1 .. n - 1, r[i] = r[k] PROVE i = k
    BY <1>1 DEF IsInjective
  <2>1. q[i + 1] = q[k + 1] /\ i + 1 \in DOMAIN q /\ k + 1 \in DOMAIN q
    BY <1>1, <1>3
  <2>2. i + 1 = k + 1
    BY <2>1 DEF IsInjective
  <2>3. i \in Int /\ k \in Int
    OBVIOUS
  <2> QED BY <2>2, <2>3
<1> QED BY <1>1, <1>4, <1>5, <1>6 DEF r, ToSet

(* A queue without repetition is as long as its jobs are many. *)
LEMMA LengthIsCardinality ==
  ASSUME NEW S, NEW q \in Seq(S), IsInjective(q)
  PROVE  IsFiniteSet(ToSet(q)) /\ Cardinality(ToSet(q)) = Len(q)
<1> DEFINE n == Len(q)
<1>1. n \in Nat /\ DOMAIN q = 1 .. n /\ q = [i \in 1 .. n |-> q[i]]
  OBVIOUS
<1> HIDE DEF n
<1>2. q \in Bijection(1 .. n, ToSet(q))
  <2>1. q \in [1 .. n -> ToSet(q)]
    BY <1>1 DEF ToSet
  <2>2. \A x \in ToSet(q) : \E i \in 1 .. n : q[i] = x
    BY <1>1 DEF ToSet
  <2>3. IsInjective(q)
    OBVIOUS
  <2> QED BY <2>1, <2>2, <2>3 DEF Bijection, Injection, Surjection
<1>3. ExistsBijection(1 .. n, ToSet(q))
  BY <1>2 DEF ExistsBijection
<1>4. Cardinality(ToSet(q)) = n
  BY <1>1, <1>3, FS_CountingElements
<1>5. IsFiniteSet(1 .. n)
  <2>1. 1 \in Int /\ n \in Int
    BY <1>1
  <2> QED BY <2>1, FS_Interval, Zenon
<1>6. IsFiniteSet(ToSet(q))
  BY <1>3, <1>5, FS_Bijection
<1> QED BY <1>4, <1>6 DEF n

(* The elements of q from position a to position b. *)
LEMMA SliceProps ==
  ASSUME NEW S, NEW q \in Seq(S), NEW a \in Int, NEW b \in Int,
         1 <= a, a <= b + 1, b <= Len(q)
  PROVE  LET u == SubSeq(q, a, b)
         IN  /\ u \in Seq(S) /\ Len(u) = b - a + 1
             /\ \A k \in 1 .. b - a + 1 : u[k] = q[a + k - 1]
<1>1. \A k \in a .. b : k \in DOMAIN q /\ q[k] \in S
  OBVIOUS
<1>2. /\ SubSeq(q, a, b) \in Seq(S)
      /\ Len(SubSeq(q, a, b)) = IF a <= b THEN b - a + 1 ELSE 0
      /\ \A k \in 1 .. b - a + 1 : SubSeq(q, a, b)[k] = q[a + k - 1]
  BY <1>1, SubSeqProperties
<1>3. b - a + 1 = IF a <= b THEN b - a + 1 ELSE 0
  OBVIOUS
<1> QED BY <1>2, <1>3

(* insert in front of the element at i, or behind the last. *)
LEMMA InsertAtProps ==
  ASSUME NEW S, NEW q \in Seq(S), NEW e \in S, NEW i \in 1 .. Len(q) + 1
  PROVE  LET r == InsertAt(q, i, e)
         IN  /\ r \in Seq(S) /\ DOMAIN r = 1 .. Len(q) + 1
             /\ \A k \in 1 .. i - 1 : r[k] = q[k]
             /\ r[i] = e
             /\ \A k \in i .. Len(q) : r[k + 1] = q[k]
             /\ ToSet(r) = ToSet(q) \cup {e}
             /\ IsInjective(q) /\ e \notin ToSet(q) => IsInjective(r)
<1> DEFINE n == Len(q)
           r == InsertAt(q, i, e)
           u == SubSeq(q, 1, i - 1)
           v == SubSeq(q, i, n)
<1>1. n \in Nat /\ i \in Int /\ DOMAIN q = 1 .. n
  OBVIOUS
<1>2. /\ u \in Seq(S) /\ Len(u) = i - 1 /\ v \in Seq(S) /\ Len(v) = n - i + 1
      /\ \A k \in 1 .. i - 1 : u[k] = q[k]
      /\ \A k \in 1 .. n - i + 1 : v[k] = q[i + k - 1]
  <2>1. u \in Seq(S) /\ Len(u) = i - 1 /\ \A k \in 1 .. i - 1 : u[k] = q[k]
    BY SliceProps
  <2>2. v \in Seq(S) /\ Len(v) = n - i + 1 /\ \A k \in 1 .. n - i + 1 : v[k] = q[i + k - 1]
    BY SliceProps
  <2> QED BY <2>1, <2>2
<1>3. r = u \o <<e>> \o v
  BY DEF InsertAt
<1> HIDE DEF n, r, u, v
<1>4. /\ r \in Seq(S) /\ Len(r) = n + 1
      /\ \A k \in 1 .. i - 1 : r[k] = q[k]
      /\ r[i] = e
      /\ \A k \in i + 1 .. n + 1 : r[k] = v[k - i]
  <2> DEFINE w == u \o <<e>>
  <2>1. i \in 1 .. n + 1
    BY DEF n
  <2>2. <<e>> \in Seq(S) /\ Len(<<e>>) = 1 /\ <<e>>[1] = e
    OBVIOUS
  <2> HIDE DEF w
  <2>3. w \in Seq(S) /\ Len(w) = i /\ (\A k \in 1 .. i - 1 : w[k] = q[k]) /\ w[i] = e
    <3> DEFINE o == <<e>>
    <3>1. o \in Seq(S) /\ Len(o) = 1 /\ o[1] = e
      BY <2>2
    <3> HIDE DEF o
    <3>2. /\ u \o o \in Seq(S) /\ Len(u \o o) = Len(u) + Len(o)
          /\ \A k \in 1 .. Len(u) + Len(o) :
               (u \o o)[k] = IF k <= Len(u) THEN u[k] ELSE o[k - Len(u)]
      BY <1>2, <3>1, ConcatProperties
    <3>3. w = u \o o
      BY DEF w, o
    <3>4. \A k \in 1 .. i : w[k] = IF k <= i - 1 THEN u[k] ELSE o[k - (i - 1)]
      BY <1>1, <1>2, <2>1, <3>1, <3>2, <3>3
    <3>5. i \in 1 .. i /\ i - (i - 1) = 1 /\ ~ (i <= i - 1)
      BY <1>1, <2>1
    <3>6. w[i] = e
      BY <3>1, <3>4, <3>5
    <3> QED BY <1>1, <1>2, <3>1, <3>2, <3>3, <3>4, <3>6
  <2>4. r = w \o v
    BY <1>3 DEF w
  <2>5. /\ w \o v \in Seq(S) /\ Len(w \o v) = Len(w) + Len(v)
        /\ \A k \in 1 .. Len(w) + Len(v) :
             (w \o v)[k] = IF k <= Len(w) THEN w[k] ELSE v[k - Len(w)]
    BY <1>2, <2>3, ConcatProperties
  <2>6. Len(w) + Len(v) = n + 1
    BY <1>1, <1>2, <2>3
  <2>7. r \in Seq(S) /\ Len(r) = n + 1
        /\ \A k \in 1 .. n + 1 : r[k] = IF k <= i THEN w[k] ELSE v[k - i]
    BY <2>3, <2>4, <2>5, <2>6
  <2>8. \A k \in i + 1 .. n + 1 : k \in 1 .. n + 1 /\ ~ (k <= i)
    BY <1>1, <2>1
  <2>9. \A k \in 1 .. i : k \in 1 .. n + 1 /\ k <= i
    BY <1>1, <2>1
  <2>10. i \in 1 .. i /\ \A k \in 1 .. i - 1 : k \in 1 .. i
    BY <1>1, <2>1
  <2> QED BY <2>3, <2>7, <2>8, <2>9, <2>10
<1>5. \A k \in i .. n : r[k + 1] = q[k]
  <2> TAKE k \in i .. n
  <2>1. k + 1 \in i + 1 .. n + 1 /\ (k + 1) - i \in 1 .. n - i + 1 /\ i + ((k + 1) - i) - 1 = k
    BY <1>1
  <2> QED BY <1>2, <1>4, <2>1
<1>6. DOMAIN r = 1 .. n + 1
  BY <1>4
<1>7. \A k \in 1 .. n + 1 : \/ k \in 1 .. i - 1 /\ k \in 1 .. n
                            \/ k = i
                            \/ k - 1 \in i .. n /\ k - 1 \in 1 .. n /\ (k - 1) + 1 = k
  BY <1>1 DEF n
<1>8. \A k \in 1 .. n : (k \in 1 .. i - 1 \/ k \in i .. n) /\ k \in 1 .. n + 1 /\ k + 1 \in 1 .. n + 1
  BY <1>1
<1>9. i \in 1 .. n + 1
  BY DEF n
<1>10. ToSet(r) = ToSet(q) \cup {e}
  <2>1. ASSUME NEW x \in ToSet(r) PROVE x \in ToSet(q) \cup {e}
    <3>1. PICK k \in 1 .. n + 1 : x = r[k]
      BY <1>6, <2>1 DEF ToSet
    <3>2. x = e \/ \E m \in 1 .. n : x = q[m]
      BY <1>4, <1>5, <1>7, <3>1
    <3> QED BY <1>1, <3>2 DEF ToSet
  <2>2. ASSUME NEW x \in ToSet(q) PROVE x \in ToSet(r)
    <3>1. PICK k \in 1 .. n : x = q[k]
      BY <1>1, <2>2 DEF ToSet
    <3>2. \E m \in 1 .. n + 1 : x = r[m]
      BY <1>4, <1>5, <1>8, <3>1
    <3> QED BY <1>6, <3>2 DEF ToSet
  <2>3. e \in ToSet(r)
    BY <1>4, <1>6, <1>9 DEF ToSet
  <2> QED BY <2>1, <2>2, <2>3
<1>11. ASSUME IsInjective(q), e \notin ToSet(q) PROVE IsInjective(r)
  <2> SUFFICES ASSUME NEW k \in 1 .. n + 1, NEW m \in 1 .. n + 1, r[k] = r[m] PROVE k = m
    BY <1>6 DEF IsInjective
  <2> DEFINE from(x) == IF x < i THEN x ELSE x - 1
  <2>1. \A x \in 1 .. n + 1 : x # i => from(x) \in 1 .. n /\ r[x] = q[from(x)]
    <3> SUFFICES ASSUME NEW x \in 1 .. n + 1, x # i
                 PROVE  from(x) \in 1 .. n /\ r[x] = q[from(x)]
      OBVIOUS
    <3>1. CASE x < i
      BY <1>1, <1>4, <1>7, <3>1
    <3>2. CASE ~ (x < i)
      <4>1. x - 1 \in i .. n /\ x - 1 \in 1 .. n /\ (x - 1) + 1 = x
        BY <1>1, <1>7, <3>2
      <4> QED BY <1>5, <3>2, <4>1
    <3> QED BY <3>1, <3>2
  <2>2. \A x \in 1 .. n : q[x] # e
    BY <1>1, <1>11 DEF ToSet
  <2>3. \A x, y \in 1 .. n : q[x] = q[y] => x = y
    BY <1>1, <1>11 DEF IsInjective
  <2>4. k = i \/ m = i => k = m
    BY <1>4, <2>1, <2>2
  <2>5. k # i /\ m # i => from(k) = from(m)
    BY <2>1, <2>3
  <2> QED BY <1>1, <2>4, <2>5
<1> QED BY <1>4, <1>5, <1>6, <1>10, <1>11 DEF r, n

(* erase of the element at k. *)
LEMMA RemoveAtProps ==
  ASSUME NEW S, NEW q \in Seq(S), NEW k \in DOMAIN q
  PROVE  LET r == RemoveAt(q, k)
         IN  /\ r \in Seq(S) /\ DOMAIN r = 1 .. Len(q) - 1
             /\ \A i \in 1 .. k - 1 : r[i] = q[i]
             /\ \A i \in k .. Len(q) - 1 : r[i] = q[i + 1]
<1> DEFINE n == Len(q)
           r == RemoveAt(q, k)
           u == SubSeq(q, 1, k - 1)
           v == SubSeq(q, k + 1, n)
<1>1. n \in Nat /\ k \in Int /\ DOMAIN q = 1 .. n /\ k \in 1 .. n
  OBVIOUS
<1>2. /\ u \in Seq(S) /\ Len(u) = k - 1 /\ v \in Seq(S) /\ Len(v) = n - k
      /\ \A i \in 1 .. k - 1 : u[i] = q[i]
      /\ \A i \in 1 .. n - k : v[i] = q[k + i]
  <2>1. u \in Seq(S) /\ Len(u) = k - 1 /\ \A i \in 1 .. k - 1 : u[i] = q[i]
    BY <1>1, SliceProps
  <2>2. v \in Seq(S) /\ Len(v) = n - k /\ \A i \in 1 .. n - k : v[i] = q[k + i]
    BY <1>1, SliceProps
  <2> QED BY <2>1, <2>2
<1>3. r = u \o v
  BY DEF RemoveAt
<1> HIDE DEF n, r, u, v
<1>4. /\ r \in Seq(S) /\ Len(r) = n - 1
      /\ \A i \in 1 .. k - 1 : r[i] = q[i]
      /\ \A i \in k .. n - 1 : r[i] = v[i - k + 1]
  <2>1. /\ u \o v \in Seq(S) /\ Len(u \o v) = Len(u) + Len(v)
        /\ \A i \in 1 .. Len(u) + Len(v) :
             (u \o v)[i] = IF i <= Len(u) THEN u[i] ELSE v[i - Len(u)]
    BY <1>2, ConcatProperties
  <2>2. Len(u) + Len(v) = n - 1
    BY <1>1, <1>2
  <2>3. r \in Seq(S) /\ Len(r) = n - 1
        /\ \A i \in 1 .. n - 1 : r[i] = IF i <= k - 1 THEN u[i] ELSE v[i - (k - 1)]
    BY <1>2, <1>3, <2>1, <2>2
  <2>4. \A i \in k .. n - 1 : i \in 1 .. n - 1 /\ ~ (i <= k - 1) /\ i - (k - 1) = i - k + 1
    BY <1>1
  <2>5. \A i \in 1 .. k - 1 : i \in 1 .. n - 1 /\ i <= k - 1
    BY <1>1
  <2> QED BY <1>2, <2>3, <2>4, <2>5
<1>5. \A i \in k .. n - 1 : r[i] = q[i + 1]
  <2> TAKE i \in k .. n - 1
  <2>1. i - k + 1 \in 1 .. n - k /\ k + (i - k + 1) = i + 1
    BY <1>1
  <2> QED BY <1>2, <1>4, <2>1
<1> QED BY <1>4, <1>5 DEF r, n

-----------------------------------------------------------------------------
(* The ends of a set of numbers.                                           *)

(* A set of natural numbers has a smallest one. *)
LEMMA SmallestNat ==
  ASSUME NEW T \in SUBSET Nat, T # {}
  PROVE  \E n \in T : \A m \in T : n <= m
<1>1. PICK n \in T : \A m \in T : ~ (<<m, n>> \in OpToRel(<, Nat))
  BY NatLessThanWellFounded, WFMin
<1>2. \A m \in T : ~ (m < n)
  BY <1>1 DEF OpToRel
<1> QED BY <1>2

(* A bounded set of natural numbers has a greatest one. *)
LEMMA GreatestNat ==
  ASSUME NEW T \in SUBSET Nat, T # {}, NEW b \in Nat, \A n \in T : n <= b
  PROVE  \E n \in T : \A m \in T : m <= n
<1> DEFINE U == {b - n : n \in T}
<1>1. \A n \in T : b - n \in Nat
  OBVIOUS
<1>2. U \in SUBSET Nat /\ U # {}
  BY <1>1
<1> HIDE DEF U
<1>3. PICK u \in U : \A v \in U : u <= v
  BY <1>2, SmallestNat
<1>4. PICK n \in T : u = b - n
  BY <1>3 DEF U
<1>5. \A m \in T : b - n <= b - m
  BY <1>3, <1>4 DEF U
<1>6. \A m \in T : m \in Int /\ n \in Int /\ b \in Int
  OBVIOUS
<1> QED BY <1>5, <1>6

LEMMA MinProps ==
  ASSUME NEW T \in SUBSET Nat, T # {}
  PROVE  Min(T) \in T /\ \A m \in T : Min(T) <= m
<1>1. \E n \in T : \A m \in T : n <= m
  BY SmallestNat
<1> QED BY <1>1 DEF Min

(* a tells where in s the elements of u stood, before those at S were erased. *)
StoodAt(a, u, s, S) ==
  /\ \A k \in DOMAIN u : a[k] \in DOMAIN s \ S /\ u[k] = s[a[k]]
  /\ \A k, m \in DOMAIN u : a[k] = a[m] => k = m
  /\ \A i \in DOMAIN s \ S : \E k \in DOMAIN u : a[k] = i

(* What is left of a vector: the elements at the other positions, each once. *)
LEMMA WithoutProps ==
  ASSUME NEW C, NEW s \in Seq(C), NEW S
  PROVE  LET u == Without(s, S)
         IN  u \in Seq(C) /\ \E a : StoodAt(a, u, s, S)
<1> DEFINE R == DOMAIN s \ S
           a == Ascending(R)
           n == Cardinality(R)
           u == Without(s, S)
<1>1. R \in SUBSET Int /\ IsFiniteSet(R)
  <2>1. DOMAIN s = 1 .. Len(s) /\ Len(s) \in Nat
    OBVIOUS
  <2>2. IsFiniteSet(1 .. Len(s)) /\ R \in SUBSET (1 .. Len(s))
    BY <2>1, FS_Interval
  <2> QED BY <2>2, FS_Subset
<1>2. n \in Nat
  BY <1>1, FS_CardinalityType
<1>3. /\ a \in Seq(R) /\ Len(a) = n /\ Range(a) = R
      /\ \A i, j \in 1 .. n : a[i] = a[j] => i = j
  BY <1>1, AscendingProps
<1>4. u = [k \in 1 .. n |-> s[a[k]]]
  BY DEF Without
<1>5. \A k \in 1 .. n : a[k] \in R
  BY <1>3
<1>6. \A k \in 1 .. n : s[a[k]] \in C
  <2>1. \A i \in R : s[i] \in C
    OBVIOUS
  <2> HIDE DEF R, a, n
  <2> QED BY <1>5, <2>1
<1>7. u \in Seq(C) /\ DOMAIN u = 1 .. n /\ \A k \in 1 .. n : u[k] = s[a[k]]
  <2> HIDE DEF a, n, u
  <2> QED BY <1>2, <1>4, <1>6
<1>8. \A i \in R : \E k \in 1 .. n : a[k] = i
  <2>1. Range(a) = {a[k] : k \in DOMAIN a} /\ DOMAIN a = 1 .. n
    BY <1>3 DEF Range
  <2> QED BY <1>3, <2>1
<1> HIDE DEF a, n
<1>9. /\ \A k \in DOMAIN u : a[k] \in R /\ u[k] = s[a[k]]
      /\ \A k, m \in DOMAIN u : a[k] = a[m] => k = m
      /\ \A i \in R : \E k \in DOMAIN u : a[k] = i
  <2> HIDE DEF u, R
  <2> QED BY <1>3, <1>5, <1>7, <1>8
<1>10. StoodAt(a, u, s, S)
  <2> HIDE DEF u
  <2> QED BY <1>9 DEF StoodAt
<1> QED BY <1>7, <1>10

-----------------------------------------------------------------------------
(* Sums.                                                                   *)

LEMMA UnitsMember ==
  ASSUME NEW S, NEW f
  PROVE  /\ \A u : u \in Units(f, S) <=> \E p \in S : \E i \in 1 .. f[p] : u = <<p, i>>
         /\ \A p, i : <<p, i>> \in Units(f, S) <=> p \in S /\ i \in 1 .. f[p]
<1>1. \A u : u \in Units(f, S) <=> \E p \in S : \E i \in 1 .. f[p] : u = <<p, i>>
  BY DEF Units
<1> QED BY <1>1

(* The sum of a natural function over a finite set is a natural number. *)
LEMMA UnitsFinite ==
  ASSUME NEW S, IsFiniteSet(S), NEW f, \A p \in S : f[p] \in Nat
  PROVE  IsFiniteSet(Units(f, S)) /\ Total(f, S) \in Nat
<1> DEFINE C == {{p} \X (1 .. f[p]) : p \in S}
           g == [p \in S |-> {p} \X (1 .. f[p])]
<1>1. g \in Surjection(S, C)
  BY DEF Surjection
<1>2. IsFiniteSet(C)
  BY <1>1, FS_Surjection
<1>3. \A T \in C : IsFiniteSet(T)
  <2> SUFFICES ASSUME NEW p \in S PROVE IsFiniteSet({p} \X (1 .. f[p]))
    OBVIOUS
  <2>1. IsFiniteSet({p})
    BY FS_Singleton
  <2>2. IsFiniteSet(1 .. f[p])
    BY FS_Interval
  <2> QED BY <2>1, <2>2, FS_Product
<1> HIDE DEF C
<1>4. IsFiniteSet(UNION C)
  BY <1>2, <1>3, FS_UNION
<1>5. IsFiniteSet(Units(f, S))
  BY <1>4 DEF Units, C
<1> QED BY <1>5, FS_CardinalityType DEF Total

(* A sum is determined by its terms. *)
LEMMA TotalSame ==
  ASSUME NEW S, NEW f, NEW g, \A p \in S : f[p] = g[p]
  PROVE  Total(f, S) = Total(g, S)
<1>1. \A u : u \in Units(f, S) <=> u \in Units(g, S)
  BY UnitsMember
<1>2. Units(f, S) = Units(g, S)
  BY <1>1
<1> QED BY <1>2 DEF Total

(* Terms that are zero do not count. *)
LEMMA TotalSupport ==
  ASSUME NEW S, NEW T \in SUBSET S, NEW f, \A p \in S \ T : f[p] = 0
  PROVE  Total(f, S) = Total(f, T)
<1>1. \A p \in S : \A i \in 1 .. f[p] : p \in T
  BY Z3
<1>2. \A u : u \in Units(f, S) <=> u \in Units(f, T)
  BY <1>1, UnitsMember
<1>3. Units(f, S) = Units(f, T)
  BY <1>2
<1> QED BY <1>3 DEF Total

(* Sums of sums. *)
LEMMA TotalAdd ==
  ASSUME NEW S, IsFiniteSet(S), NEW f, NEW g, NEW h,
         \A p \in S : f[p] \in Nat /\ g[p] \in Nat /\ h[p] = f[p] + g[p]
  PROVE  Total(h, S) = Total(f, S) + Total(g, S)
<1> DEFINE F == Units(f, S)
           G == Units(g, S)
           H == Units(h, S)
           b == [u \in G |-> <<u[1], f[u[1]] + u[2]>>]
<1>1. /\ IsFiniteSet(F) /\ IsFiniteSet(G) /\ IsFiniteSet(H)
      /\ Cardinality(F) \in Nat /\ Cardinality(G) \in Nat
  <2>1. \A p \in S : h[p] \in Nat
    OBVIOUS
  <2> QED BY <2>1, UnitsFinite DEF Total
<1>2. \A u \in G : u[1] \in S /\ u[2] \in 1 .. g[u[1]] /\ u = <<u[1], u[2]>>
  BY UnitsMember
<1>3. F \subseteq H
  <2> SUFFICES ASSUME NEW p \in S, NEW i \in 1 .. f[p] PROVE <<p, i>> \in H
    BY UnitsMember
  <2>1. i \in 1 .. h[p]
    OBVIOUS
  <2> QED BY <2>1, UnitsMember
<1>4. ASSUME NEW u \in G PROVE b[u] \in H \ F
  <2> DEFINE p == u[1]
             i == u[2]
  <2>1. p \in S /\ i \in 1 .. g[p]
    BY <1>2
  <2> HIDE DEF p, i
  <2>2. f[p] + i \in 1 .. h[p] /\ f[p] + i \notin 1 .. f[p]
    BY <2>1
  <2>3. <<p, f[p] + i>> \in H /\ <<p, f[p] + i>> \notin F
    BY <2>1, <2>2, UnitsMember
  <2> QED BY <2>3 DEF p, i
<1>5. ASSUME NEW u \in G, NEW v \in G, b[u] = b[v] PROVE u = v
  <2>1. u[1] = v[1] /\ f[u[1]] + u[2] = f[v[1]] + v[2]
    BY <1>5
  <2>2. u[1] \in S /\ v[1] \in S /\ u[2] \in 1 .. g[u[1]] /\ v[2] \in 1 .. g[v[1]]
    BY <1>2
  <2>3. u[2] = v[2]
    BY <2>1, <2>2
  <2> QED BY <1>2, <2>1, <2>3
<1>6. ASSUME NEW w \in H \ F PROVE \E u \in G : b[u] = w
  <2>1. PICK p \in S : \E i \in 1 .. h[p] : w = <<p, i>>
    BY UnitsMember
  <2>2. PICK i \in 1 .. h[p] : w = <<p, i>>
    BY <2>1
  <2>3. i \notin 1 .. f[p]
    BY <2>2, UnitsMember
  <2>4. i - f[p] \in 1 .. g[p] /\ f[p] + (i - f[p]) = i
    BY <2>2, <2>3
  <2>5. <<p, i - f[p]>> \in G
    BY <2>4, UnitsMember
  <2>6. b[<<p, i - f[p]>>] = <<p, f[p] + (i - f[p])>>
    BY <2>5
  <2> QED BY <2>2, <2>4, <2>5, <2>6
<1>7. b \in Bijection(G, H \ F)
  <2>1. b \in [G -> H \ F]
    <3>1. \A u \in G : b[u] \in H \ F
      BY <1>4
    <3>2. b = [u \in G |-> b[u]]
      OBVIOUS
    <3> HIDE DEF b
    <3> QED BY <3>1, <3>2
  <2> HIDE DEF b, F, G, H
  <2> QED BY <1>5, <1>6, <2>1 DEF Bijection, Injection, Surjection, IsInjective
<1> HIDE DEF F, G, H, b
<1>8. Cardinality(H \ F) = Cardinality(G)
  BY <1>1, <1>7, FS_Bijection DEF ExistsBijection
<1>9. Cardinality(H) = Cardinality(F) + Cardinality(G)
  <2>1. H \cap F = F
    BY <1>3
  <2>2. Cardinality(H \ F) = Cardinality(H) - Cardinality(F) /\ Cardinality(H) \in Nat
    <3>1. Cardinality(H \ F) = Cardinality(H) - Cardinality(H \cap F)
      BY <1>1, FS_Difference
    <3>2. Cardinality(H) \in Nat
      BY <1>1, FS_CardinalityType
    <3> QED BY <2>1, <3>1, <3>2
  <2> QED BY <1>1, <1>8, <2>2
<1> QED BY <1>9 DEF Total, F, G, H

(* A sum over S counted by the names h[s] of the terms. *)
LEMMA TotalReindex ==
  ASSUME NEW S, IsFiniteSet(S), NEW f, NEW g, NEW h,
         \A s \in S : f[s] \in Nat /\ g[h[s]] = f[s],
         \A s, t \in S : h[s] = h[t] => s = t
  PROVE  Total(g, {h[s] : s \in S}) = Total(f, S)
<1> DEFINE T == {h[s] : s \in S}
           F == Units(f, S)
           G == Units(g, T)
           b == [u \in F |-> <<h[u[1]], u[2]>>]
<1>1. IsFiniteSet(F)
  BY UnitsFinite
<1>2. \A u \in F : u[1] \in S /\ u[2] \in 1 .. f[u[1]] /\ u = <<u[1], u[2]>>
  BY UnitsMember
<1>3. ASSUME NEW u \in F PROVE b[u] \in G
  <2>1. h[u[1]] \in T /\ u[2] \in 1 .. g[h[u[1]]]
    BY <1>2
  <2> QED BY <2>1, UnitsMember
<1>4. ASSUME NEW u \in F, NEW v \in F, b[u] = b[v] PROVE u = v
  <2>1. h[u[1]] = h[v[1]] /\ u[2] = v[2]
    BY <1>4
  <2>2. u[1] = v[1]
    BY <1>2, <2>1
  <2> QED BY <1>2, <2>1, <2>2
<1>5. ASSUME NEW w \in G PROVE \E u \in F : b[u] = w
  <2>1. PICK p \in T : \E i \in 1 .. g[p] : w = <<p, i>>
    BY UnitsMember
  <2>2. PICK i \in 1 .. g[p] : w = <<p, i>>
    BY <2>1
  <2>3. PICK s \in S : p = h[s]
    OBVIOUS
  <2>4. <<s, i>> \in F
    BY <2>2, <2>3, UnitsMember
  <2>5. b[<<s, i>>] = <<h[s], i>>
    BY <2>4
  <2> QED BY <2>2, <2>3, <2>4, <2>5
<1>6. b \in Bijection(F, G)
  <2>1. b \in [F -> G]
    <3>1. \A u \in F : b[u] \in G
      BY <1>3
    <3>2. b = [u \in F |-> b[u]]
      OBVIOUS
    <3> HIDE DEF b
    <3> QED BY <3>1, <3>2
  <2> HIDE DEF b, F, G
  <2> QED BY <1>4, <1>5, <2>1 DEF Bijection, Injection, Surjection, IsInjective
<1> HIDE DEF F, G, b, T
<1>7. Cardinality(G) = Cardinality(F)
  BY <1>1, <1>6, FS_Bijection DEF ExistsBijection
<1> QED BY <1>7 DEF Total, F, G, T

(* Changing one term changes the sum by as much. *)
LEMMA TotalChange ==
  ASSUME NEW S, IsFiniteSet(S), NEW p \in S, NEW f, NEW g,
         \A t \in S : f[t] \in Nat /\ g[t] \in Nat,
         \A t \in S \ {p} : g[t] = f[t]
  PROVE  /\ Total(g, S) + f[p] = Total(f, S) + g[p]
         /\ Total(f, S) \in Nat /\ Total(g, S) \in Nat
<1> DEFINE df == [t \in S |-> IF t = p THEN f[p] ELSE 0]
           dg == [t \in S |-> IF t = p THEN g[p] ELSE 0]
           sum == [t \in S |-> f[t] + dg[t]]
<1>1. Total(sum, S) = Total(f, S) + Total(dg, S)
  <2>1. \A t \in S : f[t] \in Nat /\ dg[t] \in Nat /\ sum[t] = f[t] + dg[t]
    OBVIOUS
  <2> HIDE DEF sum, dg
  <2> QED BY <2>1, TotalAdd
<1>2. Total(sum, S) = Total(g, S) + Total(df, S)
  <2>1. \A t \in S : g[t] \in Nat /\ df[t] \in Nat /\ sum[t] = g[t] + df[t]
    OBVIOUS
  <2> HIDE DEF sum, df
  <2> QED BY <2>1, TotalAdd
<1>3. ASSUME NEW d, NEW n \in Nat, d[p] = n, \A t \in S \ {p} : d[t] = 0
      PROVE  Total(d, S) = n
  <2>1. Total(d, S) = Total(d, {p})
    BY <1>3, TotalSupport
  <2>2. Units(d, {p}) = {p} \X (1 .. n)
    BY <1>3 DEF Units
  <2>3. Cardinality({p} \X (1 .. n)) = 1 * n
    <3>1. IsFiniteSet({p}) /\ Cardinality({p}) = 1
      BY FS_Singleton
    <3>2. IsFiniteSet(1 .. n) /\ Cardinality(1 .. n) = IF 1 > n THEN 0 ELSE n - 1 + 1
      BY FS_Interval
    <3>3. Cardinality(1 .. n) = n
      BY <3>2
    <3>4. Cardinality({p} \X (1 .. n)) = Cardinality({p}) * Cardinality(1 .. n)
      BY <3>1, <3>2, FS_Product
    <3> QED BY <3>1, <3>3, <3>4
  <2> QED BY <2>1, <2>2, <2>3 DEF Total
<1>4. Total(df, S) = f[p]
  <2>1. df[p] = f[p] /\ \A t \in S \ {p} : df[t] = 0
    OBVIOUS
  <2> HIDE DEF df
  <2> QED BY <1>3, <2>1
<1>5. Total(dg, S) = g[p]
  <2>1. dg[p] = g[p] /\ \A t \in S \ {p} : dg[t] = 0
    OBVIOUS
  <2> HIDE DEF dg
  <2> QED BY <1>3, <2>1
<1>6. Total(f, S) \in Nat /\ Total(g, S) \in Nat
  BY UnitsFinite
<1> QED BY <1>1, <1>2, <1>4, <1>5, <1>6

(* Terms of at most one add up to at most their number. *)
LEMMA TotalOnes ==
  ASSUME NEW S, IsFiniteSet(S), NEW f, \A p \in S : f[p] \in {0, 1}
  PROVE  Total(f, S) <= Cardinality(S)
<1> DEFINE F == Units(f, S)
           b == [u \in F |-> u[1]]
<1>1. \A u \in F : u[1] \in S /\ u[2] \in 1 .. f[u[1]] /\ u = <<u[1], u[2]>>
  BY UnitsMember
<1>2. \A u \in F : u[2] = 1
  BY <1>1
<1>3. b \in Injection(F, S)
  BY <1>1, <1>2 DEF Injection, IsInjective
<1> QED BY <1>3, FS_Injection DEF Total

=============================================================================
