-------------------------- MODULE PagedKvPoolProofs --------------------------
(***************************************************************************)
(* The invariants of PagedKvPool, for every pool size, block size and      *)
(* number of slots, and that the pool implements SlotKv.                   *)
(***************************************************************************)
EXTENDS PagedKvPool, ListProofs, SequenceTheorems

-----------------------------------------------------------------------------
(* Arithmetic of block counts.                                             *)

LEMMA BlocksForTokensType ==
  ASSUME NEW n \in Nat
  PROVE  blocks_for_tokens(n) \in Nat
BY PoolDimensions DEF blocks_for_tokens

(* More tokens never need fewer blocks. *)
LEMMA BlocksForTokensMonotone ==
  ASSUME NEW m \in Nat, NEW n \in Nat, m <= n
  PROVE  blocks_for_tokens(m) <= blocks_for_tokens(n)
BY PoolDimensions DEF blocks_for_tokens

(* The block a logical position falls in is inside the table. *)
LEMMA PositionInTable ==
  ASSUME NEW n \in Nat, NEW i \in 0 .. n - 1
  PROVE  i \div BlockSize + 1 \in 1 .. blocks_for_tokens(n)
BY PoolDimensions DEF blocks_for_tokens

(* The rows of a later block start past the end of an earlier one. *)
LEMMA NextBlockStarts ==
  ASSUME NEW B \in Nat, NEW b \in Nat, NEW c \in Nat, b < c
  PROVE  c * B >= b * B + B
BY SMT

(* Distinct (block, offset) pairs are distinct rows. *)
LEMMA RowUnique ==
  ASSUME NEW b \in Nat, NEW c \in Nat,
         NEW i \in Nat, NEW j \in Nat,
         b * BlockSize + (i % BlockSize) = c * BlockSize + (j % BlockSize)
  PROVE  b = c /\ i % BlockSize = j % BlockSize
<1>1. BlockSize \in Nat /\ BlockSize > 0
  BY PoolDimensions
<1>2. i % BlockSize \in 0 .. BlockSize - 1 /\ j % BlockSize \in 0 .. BlockSize - 1
  BY <1>1
<1> DEFINE x == i % BlockSize
           y == j % BlockSize
<1> HIDE DEF x, y
<1>3. x \in 0 .. BlockSize - 1 /\ y \in 0 .. BlockSize - 1
      /\ b * BlockSize + x = c * BlockSize + y
  BY <1>2 DEF x, y
<1>4. b < c => c * BlockSize >= b * BlockSize + BlockSize
  BY <1>1, NextBlockStarts
<1>5. c < b => b * BlockSize >= c * BlockSize + BlockSize
  BY <1>1, NextBlockStarts
<1>6. b = c
  BY <1>1, <1>3, <1>4, <1>5
<1>7. x = y
  BY <1>1, <1>3, <1>6
<1> QED BY <1>6, <1>7 DEF x, y

(* A position is determined by its block and its offset. *)
LEMMA PositionUnique ==
  ASSUME NEW i \in Nat, NEW j \in Nat,
         i \div BlockSize = j \div BlockSize, i % BlockSize = j % BlockSize
  PROVE  i = j
<1>1. BlockSize \in Nat \ {0}
  BY PoolDimensions
<1>2. i % BlockSize = i - (i \div BlockSize) * BlockSize
  BY <1>1
<1>3. j % BlockSize = j - (j \div BlockSize) * BlockSize
  BY <1>1
<1>4. i \div BlockSize \in Int /\ (i \div BlockSize) * BlockSize \in Int
  BY <1>1
<1> QED BY <1>2, <1>3, <1>4

-----------------------------------------------------------------------------
(* Sequences without repetition.                                           *)

(* An injective sequence has as many elements as positions. *)
LEMMA InjectiveSeqCardinality ==
  ASSUME NEW S, NEW s \in Seq(S), IsInjective(s)
  PROVE  IsFiniteSet(Range(s)) /\ Cardinality(Range(s)) = Len(s)
<1>1. Len(s) \in Nat /\ DOMAIN s = 1 .. Len(s) /\ s \in [1 .. Len(s) -> S]
  BY LenProperties
<1>2. s \in Bijection(1 .. Len(s), Range(s))
  BY <1>1 DEF Bijection, Injection, Surjection, IsInjective, Range
<1>3. ExistsBijection(1 .. Len(s), Range(s))
  BY <1>2 DEF ExistsBijection
<1>4. IsFiniteSet(1 .. Len(s)) /\ Cardinality(1 .. Len(s)) = Len(s)
  <2>1. 1 \in Int /\ Len(s) \in Int
    BY <1>1
  <2>2. IsFiniteSet(1 .. Len(s)) /\
        Cardinality(1 .. Len(s)) = IF 1 > Len(s) THEN 0 ELSE Len(s) - 1 + 1
    BY <2>1, FS_Interval
  <2> QED BY <1>1, <2>2
<1> QED BY <1>3, <1>4, FS_Bijection

LEMMA ReverseProps ==
  ASSUME NEW S, NEW s \in Seq(S)
  PROVE  /\ Reverse(s) \in Seq(S)
         /\ Len(Reverse(s)) = Len(s)
         /\ \A i \in 1 .. Len(s) : Reverse(s)[i] = s[Len(s) - i + 1]
         /\ Range(Reverse(s)) = Range(s)
         /\ IsInjective(s) => IsInjective(Reverse(s))
<1> DEFINE n == Len(s)
           r == Reverse(s)
<1>1. n \in Nat /\ DOMAIN s = 1 .. n /\ \A i \in 1 .. n : s[i] \in S
  BY LenProperties
<1>2. r = [i \in 1 .. n |-> s[(n - i) + 1]]
  BY DEF Reverse
<1>3. \A i \in 1 .. n : (n - i) + 1 \in 1 .. n
  BY <1>1
<1>4. r \in [1 .. n -> S]
  BY <1>1, <1>2, <1>3
<1>5. r \in Seq(S) /\ Len(r) = n /\ DOMAIN r = 1 .. n
  BY <1>1, <1>4
<1>6. \A i \in 1 .. n : r[i] = s[n - i + 1]
  BY <1>2
<1>7. Range(r) = Range(s)
  <2>1. ASSUME NEW i \in 1 .. n PROVE s[i] = r[n - i + 1] /\ n - i + 1 \in 1 .. n
    <3>1. n - i + 1 \in 1 .. n /\ n - (n - i + 1) + 1 = i
      BY <1>1
    <3> QED BY <1>6, <3>1
  <2> QED BY <1>1, <1>3, <1>5, <1>6, <2>1 DEF Range
<1>8. ASSUME IsInjective(s), NEW i \in 1 .. n, NEW j \in 1 .. n, r[i] = r[j]
      PROVE  i = j
  <2>1. n - i + 1 = n - j + 1
    BY <1>1, <1>3, <1>6, <1>8 DEF IsInjective
  <2> QED BY <1>1, <2>1
<1>9. IsInjective(s) => IsInjective(r)
  BY <1>5, <1>8 DEF IsInjective
<1> QED BY <1>5, <1>6, <1>7, <1>9

LEMMA ConcatInjective ==
  ASSUME NEW S, NEW s \in Seq(S), NEW t \in Seq(S),
         IsInjective(s), IsInjective(t), Range(s) \cap Range(t) = {}
  PROVE  /\ s \o t \in Seq(S) /\ Len(s \o t) = Len(s) + Len(t)
         /\ IsInjective(s \o t) /\ Range(s \o t) = Range(s) \cup Range(t)
<1> DEFINE u == s \o t
<1>1. u \in Seq(S) /\ Len(u) = Len(s) + Len(t)
  BY ConcatProperties
<1>2. DOMAIN u = 1 .. Len(s) + Len(t) /\ DOMAIN s = 1 .. Len(s) /\ DOMAIN t = 1 .. Len(t)
      /\ Len(s) \in Nat /\ Len(t) \in Nat
  BY <1>1, LenProperties
<1>3. \A i \in 1 .. Len(s) : u[i] = s[i] /\ u[i] \in Range(s)
  BY <1>2, ConcatProperties DEF Range
<1>4. \A i \in Len(s) + 1 .. Len(s) + Len(t) :
        u[i] = t[i - Len(s)] /\ u[i] \in Range(t) /\ i - Len(s) \in 1 .. Len(t)
  BY <1>2, ConcatProperties DEF Range
<1>5. ASSUME NEW i \in DOMAIN u, NEW j \in DOMAIN u, u[i] = u[j]
      PROVE  i = j
  <2>1. CASE i \in 1 .. Len(s) /\ j \in 1 .. Len(s)
    BY <1>2, <1>3, <1>5, <2>1 DEF IsInjective
  <2>2. CASE i \in Len(s) + 1 .. Len(s) + Len(t) /\ j \in Len(s) + 1 .. Len(s) + Len(t)
    <3>1. i - Len(s) = j - Len(s)
      BY <1>2, <1>4, <1>5, <2>2 DEF IsInjective
    <3> QED BY <1>2, <3>1, <2>2
  <2>3. CASE i \in 1 .. Len(s) /\ j \in Len(s) + 1 .. Len(s) + Len(t)
    BY <1>3, <1>4, <1>5, <2>3
  <2>4. CASE j \in 1 .. Len(s) /\ i \in Len(s) + 1 .. Len(s) + Len(t)
    BY <1>3, <1>4, <1>5, <2>4
  <2> QED BY <1>2, <2>1, <2>2, <2>3, <2>4
<1>6. IsInjective(u)
  BY <1>5 DEF IsInjective
<1>7. Range(u) = Range(s) \cup Range(t)
  BY RangeConcatenation
<1> QED BY <1>1, <1>6, <1>7

(* Cutting an injective sequence after k elements splits its range. *)
LEMMA CutProps ==
  ASSUME NEW S, NEW s \in Seq(S), NEW k \in 0 .. Len(s)
  PROVE  LET a == SubSeq(s, 1, k)
             b == SubSeq(s, k + 1, Len(s))
         IN  /\ a \in Seq(S) /\ Len(a) = k
             /\ b \in Seq(S) /\ Len(b) = Len(s) - k
             /\ \A i \in 1 .. k : a[i] = s[i]
             /\ \A i \in 1 .. Len(s) - k : b[i] = s[k + i]
             /\ Range(a) = {s[i] : i \in 1 .. k}
             /\ Range(b) = {s[i] : i \in k + 1 .. Len(s)}
             /\ Range(a) \cup Range(b) = Range(s)
             /\ IsInjective(s) => /\ IsInjective(a) /\ IsInjective(b)
                                  /\ Range(a) \cap Range(b) = {}
<1> DEFINE n == Len(s)
           a == SubSeq(s, 1, k)
           b == SubSeq(s, k + 1, n)
<1>1. n \in Nat /\ DOMAIN s = 1 .. n /\ k \in Nat /\ k <= n
      /\ \A i \in 1 .. n : s[i] \in S
  BY LenProperties
<1>2. a \in Seq(S) /\ Len(a) = k /\ \A i \in 1 .. k : a[i] = s[i]
  <2>1. /\ a \in Seq(S)
        /\ Len(a) = IF 1 <= k THEN k - 1 + 1 ELSE 0
        /\ \A i \in 1 .. k - 1 + 1 : a[i] = s[1 + i - 1]
    BY <1>1, SubSeqProperties
  <2> QED BY <1>1, <2>1
<1>3. b \in Seq(S) /\ Len(b) = n - k /\ \A i \in 1 .. n - k : b[i] = s[k + i]
  <2>1. k + 1 \in Int /\ n \in Int /\ \A i \in k + 1 .. n : s[i] \in S
    BY <1>1
  <2>2. /\ b \in Seq(S)
        /\ Len(b) = IF k + 1 <= n THEN n - (k + 1) + 1 ELSE 0
        /\ \A i \in 1 .. n - (k + 1) + 1 : b[i] = s[(k + 1) + i - 1]
    BY <2>1, SubSeqProperties
  <2> QED BY <1>1, <2>2
<1>4. DOMAIN a = 1 .. k /\ DOMAIN b = 1 .. n - k
  BY <1>2, <1>3, LenProperties
<1> HIDE DEF a, b
<1>5. Range(a) = {s[i] : i \in 1 .. k}
  BY <1>2, <1>4 DEF Range
<1>6. Range(b) = {s[i] : i \in k + 1 .. n}
  <2>1. ASSUME NEW i \in 1 .. n - k PROVE b[i] = s[k + i] /\ k + i \in k + 1 .. n
    BY <1>1, <1>3
  <2>2. ASSUME NEW i \in k + 1 .. n PROVE s[i] = b[i - k] /\ i - k \in 1 .. n - k
    <3>1. i - k \in 1 .. n - k /\ k + (i - k) = i
      BY <1>1
    <3> QED BY <1>3, <3>1
  <2>3. Range(b) = {b[i] : i \in 1 .. n - k}
    BY <1>4 DEF Range
  <2>4. ASSUME NEW x \in Range(b) PROVE \E i \in k + 1 .. n : x = s[i]
    <3>1. PICK i \in 1 .. n - k : x = b[i]
      BY <2>3
    <3> QED BY <2>1, <3>1
  <2>5. ASSUME NEW i \in k + 1 .. n PROVE s[i] \in Range(b)
    BY <2>2, <2>3
  <2> QED BY <2>4, <2>5
<1>7. Range(s) = {s[i] : i \in 1 .. n}
  BY <1>1 DEF Range
<1>8. Range(a) \cup Range(b) = Range(s)
  <2>1. \A i \in 1 .. n : i \in 1 .. k \/ i \in k + 1 .. n
    BY <1>1
  <2>2. \A i \in 1 .. k : i \in 1 .. n
    BY <1>1
  <2>3. \A i \in k + 1 .. n : i \in 1 .. n
    BY <1>1
  <2> QED BY <1>5, <1>6, <1>7, <2>1, <2>2, <2>3
<1>9. ASSUME IsInjective(s)
      PROVE  IsInjective(a) /\ IsInjective(b) /\ Range(a) \cap Range(b) = {}
  <2>1. \A i, j \in 1 .. n : s[i] = s[j] => i = j
    BY <1>1, <1>9 DEF IsInjective
  <2>2. IsInjective(a)
    BY <1>1, <1>2, <1>4, <2>1 DEF IsInjective
  <2>3. IsInjective(b)
    <3>1. ASSUME NEW i \in 1 .. n - k, NEW j \in 1 .. n - k, b[i] = b[j] PROVE i = j
      <4>1. k + i \in 1 .. n /\ k + j \in 1 .. n /\ s[k + i] = s[k + j]
        BY <1>1, <1>3, <3>1
      <4>2. k + i = k + j
        BY <2>1, <4>1
      <4> QED BY <1>1, <4>2
    <3> QED BY <1>4, <3>1 DEF IsInjective
  <2>4. Range(a) \cap Range(b) = {}
    <3>1. ASSUME NEW i \in 1 .. k, NEW j \in k + 1 .. n PROVE s[i] # s[j]
      <4>1. i \in 1 .. n /\ j \in 1 .. n /\ i # j
        BY <1>1
      <4> QED BY <2>1, <4>1
    <3> QED BY <1>5, <1>6, <3>1
  <2> QED BY <2>2, <2>3, <2>4
<1> QED BY <1>2, <1>3, <1>5, <1>6, <1>8, <1>9 DEF a, b

-----------------------------------------------------------------------------
(* What each method does to one sequence and to the free list.             *)

(* The first part of a cut, on its own: growth takes a prefix of its order. *)
LEMMA PrefixProps ==
  ASSUME NEW S, NEW s \in Seq(S), NEW k \in 0 .. Len(s), IsInjective(s)
  PROVE  LET a == SubSeq(s, 1, k)
         IN  /\ a \in Seq(S) /\ Len(a) = k /\ IsInjective(a)
             /\ Range(a) = {s[i] : i \in 1 .. k}
             /\ Range(a) \subseteq Range(s)
<1> DEFINE a == SubSeq(s, 1, k)
           b == SubSeq(s, k + 1, Len(s))
<1>1. /\ a \in Seq(S) /\ Len(a) = k /\ Range(a) = {s[i] : i \in 1 .. k}
      /\ Range(a) \cup Range(b) = Range(s) /\ IsInjective(a)
  BY CutProps
<1> HIDE DEF a, b
<1>2. Range(a) \subseteq Range(s)
  BY <1>1
<1>3. /\ a \in Seq(S) /\ Len(a) = k /\ IsInjective(a)
      /\ Range(a) = {s[i] : i \in 1 .. k} /\ Range(a) \subseteq Range(s)
  BY <1>1, <1>2
<1> QED BY <1>3 DEF a


LEMMA FreeListFinite ==
  ASSUME NEW free \in SUBSET Blocks
  PROVE  IsFiniteSet(free) /\ free \in SUBSET Int /\ Cardinality(free) \in Nat
<1>1. 0 \in Int /\ NumBlocks - 1 \in Int
  BY PoolDimensions
<1>2. IsFiniteSet(Blocks) /\ Blocks \subseteq Int
  BY <1>1, FS_Interval DEF Blocks
<1> QED BY <1>2, FS_Subset, FS_CardinalityType

(* The result r of a method that moves blocks between the sequence q and   *)
(* the free list: the blocks are the same ones, each is still in one place. *)
Transfers(q, free, r) ==
  /\ r.seq \in SequenceState
  /\ r.free \subseteq Blocks
  /\ HeldOnce(r.seq)
  /\ Held(r.seq) \cap r.free = {}
  /\ Held(r.seq) \cup r.free = Held(q) \cup free

(* The fields of q that no method but acquire, release and reset changes. *)
SameOwner(q, p) ==
  p.active = q.active /\ p.request_id = q.request_id /\ p.generation = q.generation

LEMMA DisjointUnion ==
  ASSUME NEW S, NEW T, IsFiniteSet(S), IsFiniteSet(T), S \cap T = {}
  PROVE  /\ IsFiniteSet(S \cup T)
         /\ Cardinality(S \cup T) = Cardinality(S) + Cardinality(T)
         /\ Cardinality(S) \in Nat /\ Cardinality(T) \in Nat
<1>1. IsFiniteSet(S \cup T)
      /\ Cardinality(S \cup T) = Cardinality(S) + Cardinality(T) - Cardinality(S \cap T)
  BY FS_Union
<1>2. Cardinality(S \cap T) = 0
  BY FS_EmptySet
<1>3. Cardinality(S) \in Nat /\ Cardinality(T) \in Nat
  BY FS_CardinalityType
<1>4. Cardinality(S) + Cardinality(T) - 0 = Cardinality(S) + Cardinality(T)
  BY <1>3
<1> QED BY <1>1, <1>2, <1>3, <1>4

(* owned_block_count counts the held blocks, because none is held twice. *)
LEMMA OwnedCountsHeld ==
  ASSUME NEW q \in SequenceState, HeldOnce(q)
  PROVE  /\ Held(q) \in SUBSET Blocks
         /\ IsFiniteSet(Held(q))
         /\ owned_block_count(q) = Cardinality(Held(q))
         /\ owned_block_count(q) \in Nat
<1> DEFINE T == Range(q.block_table)
           R == Range(q.retry_blocks)
           V == q.reserved_blocks
<1>1. q.block_table \in Seq(Blocks) /\ q.retry_blocks \in Seq(Blocks) /\ V \in SUBSET Blocks
  BY DEF SequenceState
<1>2. IsFiniteSet(T) /\ Cardinality(T) = Len(q.block_table)
      /\ IsFiniteSet(R) /\ Cardinality(R) = Len(q.retry_blocks)
  BY <1>1, InjectiveSeqCardinality DEF HeldOnce
<1>3. T \in SUBSET Blocks /\ R \in SUBSET Blocks
  BY <1>1, RangeOfSeq
<1>4. IsFiniteSet(V) /\ Cardinality(V) \in Nat /\ Cardinality(T) \in Nat /\ Cardinality(R) \in Nat
  BY <1>1, <1>3, FreeListFinite
<1>5. T \cap R = {} /\ (T \cup R) \cap V = {}
  BY DEF HeldOnce
<1>7. IsFiniteSet(T \cup R) /\ Cardinality(T \cup R) = Cardinality(T) + Cardinality(R)
  BY <1>2, <1>5, DisjointUnion
<1>8. IsFiniteSet((T \cup R) \cup V)
      /\ Cardinality((T \cup R) \cup V) = Cardinality(T \cup R) + Cardinality(V)
  BY <1>4, <1>5, <1>7, DisjointUnion
<1>9. Held(q) = (T \cup R) \cup V
  BY DEF Held
<1>10. Held(q) \in SUBSET Blocks
  BY <1>1, <1>3, <1>9
<1>11. owned_block_count(q) = Cardinality(T) + Cardinality(R) + Cardinality(V)
  BY <1>2 DEF owned_block_count
<1>12. owned_block_count(q) \in Nat
  BY <1>4, <1>11
<1> QED BY <1>7, <1>8, <1>9, <1>10, <1>11, <1>12

(* A sequence that holds at least the same blocks owns at least as many. *)
LEMMA OwnedMonotone ==
  ASSUME NEW q \in SequenceState, NEW p \in SequenceState,
         HeldOnce(q), HeldOnce(p), Held(q) \subseteq Held(p)
  PROVE  owned_block_count(q) <= owned_block_count(p)
<1>1. Held(q) \in SUBSET Held(p)
  OBVIOUS
<1> QED BY <1>1, OwnedCountsHeld, FS_Subset

LEMMA TakeReservedProps ==
  ASSUME NEW q \in SequenceState, NEW free \in SUBSET Blocks,
         HeldOnce(q), Held(q) \cap free = {},
         NEW n \in 0 .. Cardinality(free)
  PROVE  LET r == take_reserved_blocks(q, free, n)
         IN  /\ Transfers(q, free, r)
             /\ SameOwner(q, r.seq)
             /\ r.seq.block_table = q.block_table
             /\ r.seq.retry_blocks = q.retry_blocks
             /\ r.seq.kv_seq_len = q.kv_seq_len
             /\ Held(q) \subseteq Held(r.seq)
             /\ owned_block_count(r.seq) = owned_block_count(q) + n
<1> DEFINE r == take_reserved_blocks(q, free, n)
           L == Lowest(free, n)
<1>1. L \subseteq free /\ IsFiniteSet(L) /\ Cardinality(L) = n
  BY FreeListFinite, LowestProps
<1> HIDE DEF L
<1>2. r.seq = [q EXCEPT !.reserved_blocks = @ \cup L] /\ r.free = free \ L
  BY DEF take_reserved_blocks, L
<1> HIDE DEF r
<1>3. /\ r.seq \in SequenceState
      /\ r.seq.reserved_blocks = q.reserved_blocks \cup L
      /\ r.seq.block_table = q.block_table
      /\ r.seq.retry_blocks = q.retry_blocks
      /\ r.seq.kv_seq_len = q.kv_seq_len
      /\ SameOwner(q, r.seq)
  BY <1>1, <1>2 DEF SequenceState, SameOwner
<1>4. q.reserved_blocks \cap L = {}
  BY <1>1 DEF Held
<1>5. HeldOnce(r.seq)
  BY <1>1, <1>3 DEF HeldOnce, Held
<1>6. Held(r.seq) = Held(q) \cup L
  BY <1>3 DEF Held
<1>7. Transfers(q, free, r)
  BY <1>1, <1>2, <1>3, <1>5, <1>6 DEF Transfers
<1>8. Cardinality(q.reserved_blocks \cup L) = Cardinality(q.reserved_blocks) + n
  <2>1. IsFiniteSet(q.reserved_blocks) /\ Cardinality(q.reserved_blocks) \in Nat
    BY FreeListFinite DEF SequenceState
  <2> QED BY <1>1, <1>4, <2>1, DisjointUnion
<1>9. owned_block_count(r.seq) = owned_block_count(q) + n
  <2> DEFINE t == Len(q.block_table)
             y == Len(q.retry_blocks)
             v == Cardinality(q.reserved_blocks)
  <2>1. v \in Nat /\ n \in Nat /\ t \in Nat /\ y \in Nat
    BY FreeListFinite DEF SequenceState
  <2>2. owned_block_count(q) = t + y + v
    BY DEF owned_block_count
  <2>3. owned_block_count(r.seq) = t + y + (v + n)
    BY <1>3, <1>8 DEF owned_block_count
  <2> HIDE DEF t, y, v
  <2> QED BY <2>1, <2>2, <2>3
<1> QED BY <1>3, <1>6, <1>7, <1>9 DEF r

(* Growth takes every available block once, and never one already visible. *)
LEMMA GrowthOrderProps ==
  ASSUME NEW q \in SequenceState, NEW free \in SUBSET Blocks,
         HeldOnce(q), Held(q) \cap free = {}
  PROVE  LET G == GrowthOrder(q, free)
         IN  /\ G \in Seq(Blocks)
             /\ Len(G) = Len(q.retry_blocks) + (Cardinality(q.reserved_blocks) + Cardinality(free))
             /\ IsInjective(G)
             /\ Range(G) = Range(q.retry_blocks) \cup q.reserved_blocks \cup free
             /\ \A i \in 1 .. Len(q.retry_blocks) :
                  G[i] = q.retry_blocks[Len(q.retry_blocks) - i + 1]
<1> DEFINE R == Reverse(q.retry_blocks)
           V == Ascending(q.reserved_blocks)
           F == Ascending(free)
<1>0. q.retry_blocks \in Seq(Blocks) /\ q.reserved_blocks \in SUBSET Blocks
  BY DEF SequenceState
<1>1. /\ R \in Seq(Blocks) /\ Len(R) = Len(q.retry_blocks) /\ IsInjective(R)
      /\ Range(R) = Range(q.retry_blocks)
      /\ \A i \in 1 .. Len(q.retry_blocks) : R[i] = q.retry_blocks[Len(q.retry_blocks) - i + 1]
  BY <1>0, ReverseProps DEF HeldOnce
<1>2. ASSUME NEW S \in SUBSET Blocks
      PROVE  /\ Ascending(S) \in Seq(Blocks) /\ Len(Ascending(S)) = Cardinality(S)
             /\ IsInjective(Ascending(S)) /\ Range(Ascending(S)) = S
  <2>1. IsFiniteSet(S) /\ S \in SUBSET Int
    BY FreeListFinite
  <2>2. /\ Ascending(S) \in Seq(S) /\ Len(Ascending(S)) = Cardinality(S)
        /\ Range(Ascending(S)) = S
        /\ \A i, j \in 1 .. Cardinality(S) : Ascending(S)[i] = Ascending(S)[j] => i = j
    BY <2>1, AscendingProps
  <2>3. DOMAIN Ascending(S) = 1 .. Cardinality(S)
    BY <2>2, LenProperties
  <2>4. Ascending(S) \in Seq(Blocks)
    BY <2>2, SeqMonotonic
  <2> QED BY <2>2, <2>3, <2>4 DEF IsInjective
<1>3. /\ V \in Seq(Blocks) /\ Len(V) = Cardinality(q.reserved_blocks)
      /\ IsInjective(V) /\ Range(V) = q.reserved_blocks
      /\ F \in Seq(Blocks) /\ Len(F) = Cardinality(free)
      /\ IsInjective(F) /\ Range(F) = free
  BY <1>0, <1>2
<1> DEFINE W == V \o F
<1>4. GrowthOrder(q, free) = R \o W
  BY DEF GrowthOrder
<1>5. /\ Range(q.retry_blocks) \cap q.reserved_blocks = {}
      /\ (Range(q.retry_blocks) \cup q.reserved_blocks) \cap free = {}
  BY DEF HeldOnce, Held
<1> HIDE DEF R, V, F
<1>6. /\ W \in Seq(Blocks) /\ Len(W) = Len(V) + Len(F)
      /\ IsInjective(W) /\ Range(W) = q.reserved_blocks \cup free
  BY <1>3, <1>5, ConcatInjective
<1> HIDE DEF W
<1>7. R \in Seq(Blocks) /\ IsInjective(R) /\ Range(R) \cap Range(W) = {}
  BY <1>1, <1>5, <1>6
<1>8. /\ R \o W \in Seq(Blocks) /\ Len(R \o W) = Len(R) + Len(W)
      /\ IsInjective(R \o W) /\ Range(R \o W) = Range(R) \cup Range(W)
  <2>1. W \in Seq(Blocks) /\ IsInjective(W)
    BY <1>6
  <2> QED BY <1>7, <2>1, ConcatInjective
<1>9. \A i \in 1 .. Len(R) : (R \o W)[i] = R[i]
  BY <1>1, <1>6, ConcatProperties, LenProperties
<1> QED BY <1>1, <1>3, <1>4, <1>6, <1>8, <1>9

(* Popping k blocks of a stack R through G, which starts with R read from  *)
(* its top, leaves exactly the blocks of R that were not taken. *)
LEMMA StackRest ==
  ASSUME NEW S, NEW R \in Seq(S), NEW G \in Seq(S),
         IsInjective(R), IsInjective(G), Len(R) <= Len(G),
         \A i \in 1 .. Len(R) : G[i] = R[Len(R) - i + 1],
         NEW k \in 0 .. Len(G)
  PROVE  LET rest == SubSeq(R, 1, Len(R) - k)
         IN  /\ rest \in Seq(S) /\ IsInjective(rest)
             /\ Range(rest) = Range(R) \ Range(SubSeq(G, 1, k))
<1> DEFINE n == Len(R)
           taken == SubSeq(G, 1, k)
           rest == SubSeq(R, 1, n - k)
<1>1. n \in Nat /\ k \in Nat /\ Len(G) \in Nat /\ DOMAIN R = 1 .. n /\ DOMAIN G = 1 .. Len(G)
  BY LenProperties
<1>2. Range(taken) = {G[i] : i \in 1 .. k}
  BY CutProps
<1> HIDE DEF taken, rest
<1> DEFINE Goal == /\ rest \in Seq(S) /\ IsInjective(rest)
                   /\ Range(rest) = Range(R) \ Range(taken)
<1>3. Range(R) = {R[i] : i \in 1 .. n}
  BY <1>1 DEF Range
<1>4. ASSUME NEW i \in 1 .. n
      PROVE  R[i] = G[n - i + 1] /\ n - i + 1 \in 1 .. n /\ n - i + 1 \in 1 .. Len(G)
  <2>1. n - i + 1 \in 1 .. n /\ n - (n - i + 1) + 1 = i /\ n - i + 1 \in 1 .. Len(G)
    BY <1>1
  <2> QED BY <2>1
<1>5. ASSUME k <= n PROVE Goal
  <2>1. n - k \in 0 .. n
    BY <1>1, <1>5
  <2>2. /\ rest \in Seq(S) /\ IsInjective(rest)
        /\ Range(rest) = {R[i] : i \in 1 .. n - k}
    BY <2>1, CutProps DEF rest
  <2>3. ASSUME NEW i \in 1 .. n PROVE R[i] \in Range(taken) <=> n - i + 1 \in 1 .. k
    <3>1. \A j \in 1 .. k : j \in 1 .. Len(G)
      BY <1>1
    <3>2. \A j \in 1 .. k : G[j] = G[n - i + 1] => j = n - i + 1
      BY <1>1, <1>4, <3>1 DEF IsInjective
    <3> QED BY <1>2, <1>4, <3>2
  <2>4. ASSUME NEW i \in 1 .. n PROVE R[i] \in Range(taken) <=> ~ (i \in 1 .. n - k)
    <3>1. n - i + 1 \in 1 .. k <=> ~ (i \in 1 .. n - k)
      BY <1>1, <1>5
    <3> QED BY <2>3, <3>1
  <2>5. \A i \in 1 .. n - k : i \in 1 .. n
    BY <1>1
  <2> QED BY <1>3, <2>2, <2>4, <2>5
<1>6. ASSUME k > n PROVE Goal
  <2>1. rest = << >>
    <3>1. n - k \in Int /\ 1 \in Int /\ n - k < 1
      BY <1>1, <1>6
    <3> QED BY <3>1, SubSeqEmpty DEF rest
  <2>2. ASSUME NEW i \in 1 .. n PROVE R[i] \in Range(taken)
    <3>1. n - i + 1 \in 1 .. k
      BY <1>1, <1>6
    <3> QED BY <1>2, <1>4, <3>1
  <2>3. Range(<< >>) = {} /\ IsInjective(<< >>) /\ << >> \in Seq(S)
    BY DEF Range, IsInjective
  <2>4. Range(R) \subseteq Range(taken)
    BY <1>3, <2>2
  <2> QED BY <2>1, <2>3, <2>4
<1>7. Goal
  BY <1>1, <1>5, <1>6
<1> QED BY <1>7 DEF taken, rest

(* Growing a table moves blocks out of the retry stack, the reservation and *)
(* the free list into the table, and loses none. *)
LEMMA ExtendProps ==
  ASSUME NEW q \in SequenceState, NEW free \in SUBSET Blocks,
         HeldOnce(q), Held(q) \cap free = {},
         NEW required \in Nat, Len(q.block_table) <= required,
         required <= owned_block_count(q) + Cardinality(free)
  PROVE  LET r == extend_block_table(q, free, required)
         IN  /\ Transfers(q, free, r)
             /\ SameOwner(q, r.seq)
             /\ r.seq.kv_seq_len = q.kv_seq_len
             /\ Len(r.seq.block_table) = required
             /\ Held(q) \subseteq Held(r.seq)
<1> DEFINE r == extend_block_table(q, free, required)
           T == q.block_table
           R == q.retry_blocks
           V == q.reserved_blocks
           G == GrowthOrder(q, free)
           k == required - Len(T)
           taken == SubSeq(G, 1, k)
           rest == SubSeq(R, 1, Len(R) - k)
<1>0. T \in Seq(Blocks) /\ R \in Seq(Blocks) /\ V \in SUBSET Blocks
      /\ Len(T) \in Nat /\ Len(R) \in Nat
  BY DEF SequenceState
<1>1. CASE k = 0
  <2>1. r = [seq |-> q, free |-> free]
    BY <1>0, <1>1 DEF extend_block_table
  <2> QED BY <1>0, <1>1, <2>1 DEF Transfers, SameOwner
<1>2. CASE k # 0
  <2>1. k \in Nat /\ k > 0
    BY <1>0, <1>2
  <2>2. /\ G \in Seq(Blocks) /\ IsInjective(G)
        /\ Range(G) = Range(R) \cup V \cup free
        /\ Len(G) = Len(R) + (Cardinality(V) + Cardinality(free))
        /\ \A i \in 1 .. Len(R) : G[i] = R[Len(R) - i + 1]
    BY GrowthOrderProps
  <2>3. Cardinality(V) \in Nat /\ Cardinality(free) \in Nat
    BY <1>0, FreeListFinite
  <2>4. k \in 0 .. Len(G) /\ Len(G) \in Nat /\ Len(R) <= Len(G)
    <3>1. required <= Len(T) + Len(R) + Cardinality(V) + Cardinality(free)
      BY DEF owned_block_count
    <3> HIDE DEF T, R, V, G
    <3> QED BY <1>0, <2>1, <2>2, <2>3, <3>1
  <2>5. DOMAIN G = 1 .. Len(G) /\ DOMAIN R = 1 .. Len(R)
    BY <1>0, <2>2, LenProperties
  <2>6. r = [seq |-> [q EXCEPT !.block_table = T \o taken,
                               !.retry_blocks = rest,
                               !.reserved_blocks = V \ Range(taken)],
             free |-> free \ Range(taken)]
    BY <1>0, <2>1 DEF extend_block_table
  <2>7. /\ taken \in Seq(Blocks) /\ Len(taken) = k /\ IsInjective(taken)
        /\ Range(taken) = {G[i] : i \in 1 .. k}
        /\ Range(taken) \subseteq Range(G)
    <3>1. G \in Seq(Blocks) /\ IsInjective(G)
      BY <2>2
    <3> HIDE DEF G, k
    <3>2. k \in 0 .. Len(G)
      BY <2>4
    <3> QED BY <3>1, <3>2, PrefixProps
  <2>8. /\ rest \in Seq(Blocks) /\ IsInjective(rest)
        /\ Range(rest) = Range(R) \ Range(taken)
    <3>1. IsInjective(R)
      BY DEF HeldOnce
    <3>2. R \in Seq(Blocks) /\ G \in Seq(Blocks) /\ IsInjective(G) /\ Len(R) <= Len(G)
          /\ \A i \in 1 .. Len(R) : G[i] = R[Len(R) - i + 1]
      BY <1>0, <2>2, <2>4
    <3> HIDE DEF G, R, k
    <3> QED BY <2>4, <3>1, <3>2, StackRest
  <2> HIDE DEF G, taken, rest, r
  <2>9. Range(T) \cap Range(taken) = {}
    BY <2>2, <2>7 DEF HeldOnce, Held
  <2>10. /\ T \o taken \in Seq(Blocks) /\ Len(T \o taken) = Len(T) + k
         /\ IsInjective(T \o taken) /\ Range(T \o taken) = Range(T) \cup Range(taken)
    BY <1>0, <2>7, <2>9, ConcatInjective DEF HeldOnce
  <2>11. /\ r.seq \in SequenceState
         /\ r.seq.block_table = T \o taken /\ r.seq.retry_blocks = rest
         /\ r.seq.reserved_blocks = V \ Range(taken) /\ r.free = free \ Range(taken)
         /\ r.seq.kv_seq_len = q.kv_seq_len /\ SameOwner(q, r.seq)
    BY <2>6, <2>8, <2>10 DEF SequenceState, SameOwner
  <2>12. Len(r.seq.block_table) = required
    BY <1>0, <2>10, <2>11
  <2>13. HeldOnce(r.seq)
    BY <2>8, <2>10, <2>11 DEF HeldOnce
  <2>14. Held(r.seq) = Range(T) \cup Range(taken) \cup Range(R) \cup V
    BY <2>8, <2>10, <2>11 DEF Held
  <2>15. Range(T) \cap free = {} /\ Range(R) \cap free = {} /\ V \cap free = {}
         /\ Held(q) = Range(T) \cup Range(R) \cup V
    BY DEF Held
  <2>16. Held(r.seq) \cap r.free = {} /\ Held(r.seq) \cup r.free = Held(q) \cup free
         /\ Held(q) \subseteq Held(r.seq)
    BY <2>2, <2>7, <2>11, <2>14, <2>15
  <2>17. Transfers(q, free, r)
    BY <2>11, <2>13, <2>16 DEF Transfers
  <2> QED BY <2>11, <2>12, <2>16, <2>17 DEF r
<1> QED BY <1>1, <1>2

(* A successful append, for every token count. *)
LEMMA AppendProps ==
  ASSUME NEW q \in SequenceState, NEW free \in SUBSET Blocks,
         HeldOnce(q), Held(q) \cap free = {}, TableFits(q),
         NEW n \in Tokens, n # 0, append_status(q, free, n) = "Ok"
  PROVE  LET r == appended(q, free, n)
         IN  /\ Transfers(q, free, r)
             /\ SameOwner(q, r.seq)
             /\ TableFits(r.seq)
             /\ r.seq.kv_seq_len = q.kv_seq_len + n
             /\ Held(q) \subseteq Held(r.seq)
<1> DEFINE len == AddU32(q.kv_seq_len, n)
           g == extend_block_table(q, free, blocks_for_tokens(len))
           r == appended(q, free, n)
<1>1. q.kv_seq_len \in Tokens /\ MaxU32 \in Nat
  BY PoolDimensions DEF SequenceState
<1>2. /\ ~ (n > MaxU32 - q.kv_seq_len)
      /\ ~ (blocks_for_tokens(len) > owned_block_count(q) + Cardinality(free))
  BY DEF append_status
<1>3. len = q.kv_seq_len + n /\ len \in Tokens /\ q.kv_seq_len <= len
  BY <1>1, <1>2 DEF AddU32, Tokens
<1> HIDE DEF len
<1>4. blocks_for_tokens(len) \in Nat /\ Len(q.block_table) <= blocks_for_tokens(len)
  <2>1. len \in Nat /\ q.kv_seq_len \in Nat
    BY <1>1, <1>3 DEF Tokens
  <2>2. blocks_for_tokens(len) \in Nat
    BY <2>1, BlocksForTokensType
  <2>3. blocks_for_tokens(q.kv_seq_len) <= blocks_for_tokens(len)
    BY <1>3, <2>1, BlocksForTokensMonotone
  <2> QED BY <2>2, <2>3 DEF TableFits
<1>5. owned_block_count(q) \in Nat /\ Cardinality(free) \in Nat
  BY OwnedCountsHeld, FreeListFinite
<1>6. blocks_for_tokens(len) <= owned_block_count(q) + Cardinality(free)
  BY <1>2, <1>4, <1>5
<1>7. /\ Transfers(q, free, g) /\ SameOwner(q, g.seq)
      /\ g.seq.kv_seq_len = q.kv_seq_len
      /\ Len(g.seq.block_table) = blocks_for_tokens(len)
      /\ Held(q) \subseteq Held(g.seq)
  BY <1>4, <1>6, ExtendProps
<1>8. r = [g EXCEPT !.seq.kv_seq_len = len]
  BY DEF appended, len
<1>9. \E p, f : g = [seq |-> p, free |-> f]
  BY DEF extend_block_table
<1> HIDE DEF g, r
<1>10. r.free = g.free /\ r.seq = [g.seq EXCEPT !.kv_seq_len = len]
  BY <1>8, <1>9
<1>11. g.seq \in SequenceState
  BY <1>7 DEF Transfers
<1>12. /\ r.seq \in SequenceState /\ r.seq.kv_seq_len = len
       /\ r.seq.block_table = g.seq.block_table
       /\ r.seq.retry_blocks = g.seq.retry_blocks
       /\ r.seq.reserved_blocks = g.seq.reserved_blocks
       /\ SameOwner(g.seq, r.seq)
  BY <1>3, <1>10, <1>11 DEF SequenceState, SameOwner
<1>13. (HeldOnce(r.seq) <=> HeldOnce(g.seq)) /\ Held(r.seq) = Held(g.seq)
  BY <1>12 DEF HeldOnce, Held
<1>14. Transfers(q, free, r)
  BY <1>7, <1>10, <1>12, <1>13 DEF Transfers
<1>15. SameOwner(q, r.seq) /\ TableFits(r.seq)
  BY <1>7, <1>12 DEF SameOwner, TableFits
<1> QED BY <1>3, <1>7, <1>12, <1>13, <1>14, <1>15 DEF r

(* A rollback only moves blocks from the table to the retry stack. *)
LEMMA RollbackProps ==
  ASSUME NEW q \in SequenceState, HeldOnce(q), TableFits(q),
         NEW n \in Tokens, n <= q.kv_seq_len
  PROVE  LET p == rolled_back(q, n)
         IN  /\ p \in SequenceState /\ HeldOnce(p) /\ Held(p) = Held(q)
             /\ SameOwner(q, p) /\ TableFits(p)
             /\ p.kv_seq_len = q.kv_seq_len - n
<1> DEFINE p == rolled_back(q, n)
           T == q.block_table
           len == q.kv_seq_len - n
           keep == blocks_for_tokens(len)
           front == SubSeq(T, 1, keep)
           cut == SubSeq(T, keep + 1, Len(T))
<1>1. q.kv_seq_len \in Tokens /\ MaxU32 \in Nat
  BY PoolDimensions DEF SequenceState
<1>2. len \in Tokens /\ len \in Nat /\ len <= q.kv_seq_len /\ q.kv_seq_len \in Nat
  BY <1>1 DEF Tokens
<1>3. T \in Seq(Blocks) /\ Len(T) \in Nat /\ Len(T) = blocks_for_tokens(q.kv_seq_len)
      /\ q.retry_blocks \in Seq(Blocks)
  BY DEF SequenceState, TableFits
<1>4. p = [q EXCEPT !.kv_seq_len = len, !.block_table = front,
                    !.retry_blocks = q.retry_blocks \o Reverse(cut)]
  BY DEF rolled_back
<1> HIDE DEF len, p
<1>5. keep \in 0 .. Len(T)
  <2>1. blocks_for_tokens(len) \in Nat
    BY <1>2, BlocksForTokensType
  <2>2. blocks_for_tokens(len) <= blocks_for_tokens(q.kv_seq_len)
    BY <1>2, BlocksForTokensMonotone
  <2> QED BY <1>3, <2>1, <2>2
<1> HIDE DEF keep, T
<1>6. IsInjective(T)
  BY DEF HeldOnce, T
<1>7. front \in Seq(Blocks) /\ Len(front) = keep /\ IsInjective(front)
  BY <1>3, <1>5, <1>6, CutProps
<1>8. cut \in Seq(Blocks) /\ IsInjective(cut)
  BY <1>3, <1>5, <1>6, CutProps
<1>9. Range(front) \cup Range(cut) = Range(T) /\ Range(front) \cap Range(cut) = {}
  BY <1>3, <1>5, <1>6, CutProps
<1> HIDE DEF front, cut
<1> DEFINE back == Reverse(cut)
<1>10. back \in Seq(Blocks) /\ IsInjective(back) /\ Range(back) = Range(cut)
  BY <1>8, ReverseProps
<1> HIDE DEF back
<1>11. Range(T) \cap Range(q.retry_blocks) = {} /\ IsInjective(q.retry_blocks)
  BY DEF HeldOnce, T
<1>12. Range(q.retry_blocks) \cap Range(back) = {}
  BY <1>9, <1>10, <1>11
<1> DEFINE stack == q.retry_blocks \o back
<1>13. /\ stack \in Seq(Blocks) /\ IsInjective(stack)
       /\ Range(stack) = Range(q.retry_blocks) \cup Range(back)
  BY <1>3, <1>10, <1>11, <1>12, ConcatInjective
<1>14. p = [q EXCEPT !.kv_seq_len = len, !.block_table = front, !.retry_blocks = stack]
  BY <1>4 DEF back
<1> HIDE DEF stack
<1>15. /\ p \in SequenceState /\ p.kv_seq_len = len /\ p.block_table = front
       /\ p.retry_blocks = stack /\ p.reserved_blocks = q.reserved_blocks
       /\ SameOwner(q, p)
  BY <1>2, <1>7, <1>13, <1>14 DEF SequenceState, SameOwner
<1>16. HeldOnce(p)
  BY <1>7, <1>9, <1>10, <1>11, <1>13, <1>15 DEF HeldOnce, T
<1>17. Held(p) = Held(q)
  BY <1>9, <1>10, <1>13, <1>15 DEF Held, T
<1>18. TableFits(p)
  BY <1>7, <1>15 DEF TableFits, keep
<1> QED BY <1>15, <1>16, <1>17, <1>18 DEF p, len

(* clear returns everything. *)
LEMMA ClearProps ==
  ASSUME NEW q \in SequenceState, NEW free \in SUBSET Blocks, HeldOnce(q)
  PROVE  LET r == cleared(q, free)
         IN  /\ Transfers(q, free, r) /\ SameOwner(q, r.seq) /\ TableFits(r.seq)
             /\ Held(r.seq) = {} /\ r.seq.kv_seq_len = 0
<1> DEFINE r == cleared(q, free)
<1>1. Held(q) \in SUBSET Blocks
  BY OwnedCountsHeld
<1>2. /\ r.seq = [q EXCEPT !.kv_seq_len = 0, !.block_table = <<>>,
                           !.retry_blocks = <<>>, !.reserved_blocks = {}]
      /\ r.free = free \cup Held(q)
  BY DEF cleared
<1> HIDE DEF r
<1>3. 0 \in Tokens /\ << >> \in Seq(Blocks) /\ {} \in SUBSET Blocks
  BY PoolDimensions DEF Tokens
<1>4. /\ r.seq \in SequenceState /\ r.seq.kv_seq_len = 0
      /\ r.seq.block_table = <<>> /\ r.seq.retry_blocks = <<>>
      /\ r.seq.reserved_blocks = {} /\ SameOwner(q, r.seq)
  BY <1>2, <1>3 DEF SequenceState, SameOwner
<1>5. Range(<<>>) = {} /\ IsInjective(<<>>)
  BY DEF Range, IsInjective
<1>6. HeldOnce(r.seq) /\ Held(r.seq) = {}
  BY <1>4, <1>5 DEF HeldOnce, Held
<1>7. Transfers(q, free, r)
  BY <1>1, <1>2, <1>4, <1>6 DEF Transfers
<1>8. TableFits(r.seq)
  BY <1>4 DEF TableFits, blocks_for_tokens
<1> QED BY <1>4, <1>6, <1>7, <1>8 DEF r

-----------------------------------------------------------------------------
(* The inductive invariant.                                                *)

LEMMA InitInv == Init => PoolInv
<1> SUFFICES ASSUME Init PROVE PoolInv
  OBVIOUS
<1> DEFINE blank == [request_id |-> NoRequest, generation |-> 0, kv_seq_len |-> 0,
                     active |-> FALSE, block_table |-> <<>>, retry_blocks |-> <<>>,
                     reserved_blocks |-> {}]
<1>1. \A s \in Slots : sequences[s] = blank
  BY DEF Init
<1>2. 0 \in Tokens /\ << >> \in Seq(Blocks) /\ {} \in SUBSET Blocks /\ NoRequest = 0 /\ NoSlot = -1
  BY PoolDimensions DEF Tokens, NoRequest, NoSlot
<1>3. blank \in SequenceState
  BY <1>2 DEF SequenceState
<1>4. Range(<<>>) = {} /\ IsInjective(<<>>) /\ Cardinality({}) = 0
  BY FS_EmptySet DEF Range, IsInjective
<1>5. HeldOnce(blank) /\ Held(blank) = {}
  BY <1>4 DEF HeldOnce, Held
<1>6. TypeOK
  BY <1>2, <1>3 DEF Init, TypeOK, refill, Slots, Blocks
<1>7. BlocksPartitioned
  BY <1>1, <1>5 DEF Init, BlocksPartitioned, refill, Blocks
<1>8. \A s \in Slots : TableFits(sequences[s])
  BY <1>1 DEF TableFits, blocks_for_tokens
<1>9. ReservationKept
  <2>1. owned_block_count(blank) = 0
    BY <1>4 DEF owned_block_count
  <2>2. blocks_for_tokens(0) = 0
    BY DEF blocks_for_tokens
  <2>3. \A s \in Slots : promised[s] = 0
    BY DEF Init
  <2> QED BY <1>1, <2>1, <2>2, <2>3 DEF ReservationKept
<1>10. IndexesAgree
  BY <1>1, <1>2 DEF Init, IndexesAgree, refill, Slots
<1>11. IssuedInPast /\ HandleNamesOwner
  BY DEF Init, IssuedInPast, HandleNamesOwner
<1> QED BY <1>6, <1>7, <1>8, <1>9, <1>10, <1>11 DEF PoolInv

(* The invariants about blocks survive a step that replaces one sequence   *)
(* and the free list by ones that share the same blocks. *)
LEMMA BlockStep ==
  ASSUME PoolInv, NEW s \in Slots, NEW p \in SequenceState, NEW f \in SUBSET Blocks,
         HeldOnce(p), Held(p) \cap f = {},
         Held(p) \cup f = Held(sequences[s]) \cup free_blocks,
         TableFits(p), NEW c \in Tokens, blocks_for_tokens(c) <= owned_block_count(p),
         sequences' = [sequences EXCEPT ![s] = p], free_blocks' = f,
         promised' = [promised EXCEPT ![s] = c]
  PROVE  /\ sequences' \in [Slots -> SequenceState]
         /\ free_blocks' \subseteq Blocks
         /\ promised' \in [Slots -> Tokens]
         /\ BlocksPartitioned'
         /\ \A t \in Slots : TableFits(sequences'[t])
         /\ ReservationKept'
<1>1. TypeOK /\ BlocksPartitioned /\ ReservationKept /\ \A t \in Slots : TableFits(sequences[t])
  BY DEF PoolInv
<1>2. sequences' \in [Slots -> SequenceState] /\ promised' \in [Slots -> Tokens]
  BY <1>1 DEF TypeOK
<1>3. \A t \in Slots : sequences'[t] = IF t = s THEN p ELSE sequences[t]
  BY <1>1 DEF TypeOK
<1>4. \A t \in Slots : promised'[t] = IF t = s THEN c ELSE promised[t]
  BY <1>1 DEF TypeOK
<1>5. \A t \in Slots : HeldOnce(sequences'[t]) /\ TableFits(sequences'[t])
  BY <1>1, <1>3 DEF BlocksPartitioned
<1>6. \A t \in Slots : t # s => Held(sequences[t]) \cap (Held(p) \cup f) = {}
  BY <1>1 DEF BlocksPartitioned
<1>7. \A t \in Slots : Held(sequences'[t]) \cap f = {}
  BY <1>3, <1>6
<1>8. \A t, u \in Slots : t # u => Held(sequences'[t]) \cap Held(sequences'[u]) = {}
  <2> SUFFICES ASSUME NEW t \in Slots, NEW u \in Slots, t # u
               PROVE  Held(sequences'[t]) \cap Held(sequences'[u]) = {}
    OBVIOUS
  <2>1. CASE t = s
    BY <1>3, <1>6, <2>1
  <2>2. CASE u = s
    BY <1>3, <1>6, <2>2
  <2>3. CASE t # s /\ u # s
    BY <1>1, <1>3, <2>3 DEF BlocksPartitioned
  <2> QED BY <2>1, <2>2, <2>3
<1>9. Blocks = f \cup UNION {Held(sequences'[t]) : t \in Slots}
  <2>1. ASSUME NEW b \in Blocks
        PROVE  b \in f \/ \E t \in Slots : b \in Held(sequences'[t])
    <3>1. CASE b \in Held(sequences[s]) \/ b \in free_blocks
      BY <1>3, <3>1
    <3>2. CASE \E t \in Slots : t # s /\ b \in Held(sequences[t])
      BY <1>3, <3>2
    <3> QED BY <1>1, <3>1, <3>2 DEF BlocksPartitioned
  <2>2. \A t \in Slots : Held(sequences'[t]) \subseteq Blocks
    BY <1>2, <1>5, OwnedCountsHeld
  <2> QED BY <2>1, <2>2
<1>10. BlocksPartitioned'
  BY <1>5, <1>7, <1>8, <1>9 DEF BlocksPartitioned
<1>11. ReservationKept'
  BY <1>1, <1>3, <1>4 DEF ReservationKept
<1> QED BY <1>2, <1>5, <1>10, <1>11

(* The invariants about identities survive a step that changes no owner. *)
LEMMA OwnerStep ==
  ASSUME PoolInv, NEW s \in Slots, NEW p \in SequenceState, SameOwner(sequences[s], p),
         sequences' = [sequences EXCEPT ![s] = p],
         UNCHANGED <<free_sequence_slots, request_to_slot, issued>>
  PROVE  IndexesAgree' /\ IssuedInPast' /\ HandleNamesOwner'
<1>1. TypeOK /\ IndexesAgree /\ IssuedInPast /\ HandleNamesOwner
  BY DEF PoolInv
<1>2. \A t \in Slots : SameOwner(sequences[t], sequences'[t])
  BY <1>1 DEF TypeOK, SameOwner
<1>3. IndexesAgree'
  BY <1>1, <1>2 DEF IndexesAgree, SameOwner
<1>4. \A h \in issued : h.slot \in Slots
  BY <1>1 DEF TypeOK
<1>5. IssuedInPast' /\ HandleNamesOwner'
  BY <1>1, <1>2, <1>4 DEF IssuedInPast, HandleNamesOwner, SameOwner, validate
<1> QED BY <1>3, <1>5

(* A method that moves blocks and changes no owner preserves everything. *)
LEMMA MethodStep ==
  ASSUME PoolInv, NEW s \in Slots, NEW r, Transfers(sequences[s], free_blocks, r),
         SameOwner(sequences[s], r.seq), TableFits(r.seq),
         NEW c \in Tokens, blocks_for_tokens(c) <= owned_block_count(r.seq),
         sequences' = [sequences EXCEPT ![s] = r.seq], free_blocks' = r.free,
         promised' = [promised EXCEPT ![s] = c],
         UNCHANGED <<free_sequence_slots, request_to_slot, issued>>
  PROVE  PoolInv'
<1>1. r.seq \in SequenceState /\ r.free \in SUBSET Blocks
  BY DEF Transfers
<1>2. /\ sequences' \in [Slots -> SequenceState] /\ free_blocks' \subseteq Blocks
      /\ promised' \in [Slots -> Tokens] /\ BlocksPartitioned'
      /\ \A t \in Slots : TableFits(sequences'[t])
      /\ ReservationKept'
  BY <1>1, BlockStep DEF Transfers
<1>3. IndexesAgree' /\ IssuedInPast' /\ HandleNamesOwner'
  BY <1>1, OwnerStep
<1>4. TypeOK'
  BY <1>2 DEF PoolInv, TypeOK
<1> QED BY <1>2, <1>3, <1>4 DEF PoolInv

-----------------------------------------------------------------------------
(* One lemma per method.                                                   *)

(* The facts about one slot that every method starts from. *)
LEMMA SlotFacts ==
  ASSUME PoolInv, NEW s \in Slots
  PROVE  /\ sequences[s] \in SequenceState /\ HeldOnce(sequences[s])
         /\ Held(sequences[s]) \cap free_blocks = {}
         /\ TableFits(sequences[s]) /\ free_blocks \in SUBSET Blocks
         /\ promised[s] \in Tokens /\ promised[s] \in Nat
         /\ blocks_for_tokens(promised[s]) <= owned_block_count(sequences[s])
         /\ blocks_for_tokens(promised[s]) \in Nat
         /\ owned_block_count(sequences[s]) \in Nat
         /\ Cardinality(free_blocks) \in Nat
<1>1. /\ sequences[s] \in SequenceState /\ HeldOnce(sequences[s])
      /\ Held(sequences[s]) \cap free_blocks = {}
      /\ TableFits(sequences[s]) /\ free_blocks \in SUBSET Blocks
      /\ promised[s] \in Tokens
      /\ blocks_for_tokens(promised[s]) <= owned_block_count(sequences[s])
  BY DEF PoolInv, TypeOK, BlocksPartitioned, ReservationKept
<1>2. promised[s] \in Nat
  BY <1>1 DEF Tokens
<1> QED BY <1>1, <1>2, OwnedCountsHeld, BlocksForTokensType, FreeListFinite

LEMMA HandleSlot ==
  ASSUME PoolInv, NEW h \in issued
  PROVE  h.slot \in Slots /\ h.generation \in Nat /\ h.owner \in RequestIds
BY DEF PoolInv, TypeOK

LEMMA ReserveStep ==
  ASSUME PoolInv, NEW h \in issued, NEW n \in Tokens, reserve_capacity(h, n)
  PROVE  PoolInv'
<1> DEFINE s == h.slot
           q == sequences[s]
           owned == owned_block_count(q)
           target == blocks_for_tokens(n)
           r == reserve(q, free_blocks, n)
           c == IF n > promised[s] THEN n ELSE promised[s]
<1>1. s \in Slots
  BY HandleSlot
<1>2. n \in Nat /\ target \in Nat
  BY BlocksForTokensType DEF Tokens
<1>3. /\ q \in SequenceState /\ HeldOnce(q) /\ Held(q) \cap free_blocks = {}
      /\ TableFits(q) /\ free_blocks \in SUBSET Blocks
      /\ promised[s] \in Tokens /\ promised[s] \in Nat
      /\ blocks_for_tokens(promised[s]) <= owned
      /\ blocks_for_tokens(promised[s]) \in Nat
      /\ owned \in Nat /\ Cardinality(free_blocks) \in Nat
  BY <1>1, SlotFacts
<1>4. target <= owned + Cardinality(free_blocks)
  BY DEF reserve_capacity, reserve_status
<1>5. /\ sequences' = [sequences EXCEPT ![s] = r.seq] /\ free_blocks' = r.free
      /\ promised' = [promised EXCEPT ![s] = c]
      /\ UNCHANGED <<free_sequence_slots, request_to_slot, issued>>
  BY <1>1 DEF reserve_capacity, PoolInv, TypeOK
<1>6. c \in Tokens /\ blocks_for_tokens(c) = (IF n > promised[s] THEN target ELSE blocks_for_tokens(promised[s]))
  BY <1>3
<1> HIDE DEF c
<1>7. CASE target <= owned
  <2>1. r.seq = q /\ r.free = free_blocks
    BY <1>7 DEF reserve
  <2> HIDE DEF r, target, owned
  <2>2. Transfers(q, free_blocks, r) /\ SameOwner(q, r.seq) /\ TableFits(r.seq)
    BY <1>3, <2>1 DEF Transfers, SameOwner
  <2>3. blocks_for_tokens(c) <= owned_block_count(r.seq)
    BY <1>3, <1>6, <1>7, <2>1 DEF owned
  <2> HIDE DEF s, q
  <2> QED BY <1>1, <1>5, <1>6, <2>2, <2>3, MethodStep DEF q
<1>8. CASE target > owned
  <2>1. target - owned \in 0 .. Cardinality(free_blocks)
    BY <1>2, <1>3, <1>4, <1>8
  <2>2. r = take_reserved_blocks(q, free_blocks, target - owned)
    BY <1>2, <1>3, <1>8 DEF reserve
  <2> HIDE DEF r, target
  <2>3. /\ Transfers(q, free_blocks, r) /\ SameOwner(q, r.seq)
        /\ r.seq.block_table = q.block_table /\ r.seq.kv_seq_len = q.kv_seq_len
        /\ owned_block_count(r.seq) = owned + (target - owned)
    BY <1>3, <2>1, <2>2, TakeReservedProps
  <2>4. TableFits(r.seq)
    BY <1>3, <2>3 DEF TableFits
  <2>5. owned_block_count(r.seq) = target
    <3> HIDE DEF owned
    <3> QED BY <1>2, <1>3, <2>3
  <2>6. blocks_for_tokens(c) <= owned_block_count(r.seq)
    <3> HIDE DEF owned
    <3> QED BY <1>2, <1>3, <1>6, <1>8, <2>5
  <2> QED BY <1>1, <1>5, <1>6, <2>3, <2>4, <2>6, MethodStep
<1> QED BY <1>2, <1>3, <1>7, <1>8

LEMMA AppendStep ==
  ASSUME PoolInv, NEW h \in issued, NEW n \in Tokens, append(h, n)
  PROVE  PoolInv'
<1> DEFINE s == h.slot
           q == sequences[s]
           r == appended(q, free_blocks, n)
<1>1. s \in Slots
  BY HandleSlot
<1>2. /\ q \in SequenceState /\ HeldOnce(q) /\ Held(q) \cap free_blocks = {}
      /\ TableFits(q) /\ free_blocks \in SUBSET Blocks /\ promised[s] \in Tokens
      /\ blocks_for_tokens(promised[s]) <= owned_block_count(q)
      /\ blocks_for_tokens(promised[s]) \in Nat /\ owned_block_count(q) \in Nat
  BY <1>1, SlotFacts
<1>3. /\ n # 0 /\ append_status(q, free_blocks, n) = "Ok"
      /\ sequences' = [sequences EXCEPT ![s] = r.seq] /\ free_blocks' = r.free
      /\ UNCHANGED <<free_sequence_slots, request_to_slot, issued>>
      /\ promised' = promised
  BY DEF append
<1>4. promised' = [promised EXCEPT ![s] = promised[s]]
  BY <1>1, <1>3 DEF PoolInv, TypeOK
<1>5. /\ Transfers(q, free_blocks, r) /\ SameOwner(q, r.seq) /\ TableFits(r.seq)
      /\ Held(q) \subseteq Held(r.seq)
  BY <1>2, <1>3, AppendProps
<1> HIDE DEF r
<1>6. owned_block_count(q) <= owned_block_count(r.seq) /\ owned_block_count(r.seq) \in Nat
  BY <1>2, <1>5, OwnedMonotone, OwnedCountsHeld DEF Transfers
<1>7. blocks_for_tokens(promised[s]) <= owned_block_count(r.seq)
  BY <1>2, <1>6
<1> QED BY <1>1, <1>2, <1>3, <1>4, <1>5, <1>7, MethodStep

LEMMA RollbackStep ==
  ASSUME PoolInv, NEW h \in issued, NEW n \in Tokens, rollback_append(h, n)
  PROVE  PoolInv'
<1> DEFINE s == h.slot
           q == sequences[s]
           p == rolled_back(q, n)
           r == [seq |-> p, free |-> free_blocks]
<1>1. s \in Slots
  BY HandleSlot
<1>2. /\ q \in SequenceState /\ HeldOnce(q) /\ Held(q) \cap free_blocks = {}
      /\ TableFits(q) /\ free_blocks \in SUBSET Blocks /\ promised[s] \in Tokens
      /\ blocks_for_tokens(promised[s]) <= owned_block_count(q)
  BY <1>1, SlotFacts
<1>3. /\ n <= q.kv_seq_len
      /\ sequences' = [sequences EXCEPT ![s] = p] /\ free_blocks' = free_blocks
      /\ UNCHANGED <<free_sequence_slots, request_to_slot, issued>>
      /\ promised' = promised
  BY DEF rollback_append
<1>4. promised' = [promised EXCEPT ![s] = promised[s]]
  BY <1>1, <1>3 DEF PoolInv, TypeOK
<1>5. /\ p \in SequenceState /\ HeldOnce(p) /\ Held(p) = Held(q)
      /\ SameOwner(q, p) /\ TableFits(p)
  BY <1>2, <1>3, RollbackProps
<1>6. owned_block_count(p) = owned_block_count(q)
  BY <1>2, <1>5, OwnedCountsHeld
<1> HIDE DEF p
<1>7. Transfers(q, free_blocks, r) /\ r.seq = p /\ r.free = free_blocks
  BY <1>2, <1>5 DEF Transfers
<1> HIDE DEF r
<1> QED BY <1>1, <1>2, <1>3, <1>4, <1>5, <1>6, <1>7, MethodStep

LEMMA ClearStep ==
  ASSUME PoolInv, NEW h \in issued, clear(h)
  PROVE  PoolInv'
<1> DEFINE s == h.slot
           q == sequences[s]
           r == cleared(q, free_blocks)
<1>1. s \in Slots
  BY HandleSlot
<1>2. q \in SequenceState /\ HeldOnce(q) /\ free_blocks \in SUBSET Blocks
  BY <1>1, SlotFacts
<1>3. /\ sequences' = [sequences EXCEPT ![s] = r.seq] /\ free_blocks' = r.free
      /\ UNCHANGED <<free_sequence_slots, request_to_slot, issued>>
      /\ promised' = [promised EXCEPT ![s] = 0]
  BY DEF clear
<1>4. Transfers(q, free_blocks, r) /\ SameOwner(q, r.seq) /\ TableFits(r.seq)
  BY <1>2, ClearProps
<1> HIDE DEF r
<1>5. 0 \in Tokens /\ blocks_for_tokens(0) = 0
  BY PoolDimensions DEF Tokens, blocks_for_tokens
<1>6. owned_block_count(r.seq) \in Nat
  BY <1>4, OwnedCountsHeld DEF Transfers
<1>7. blocks_for_tokens(0) <= owned_block_count(r.seq)
  BY <1>5, <1>6
<1> QED BY <1>1, <1>3, <1>4, <1>5, <1>7, MethodStep

LEMMA ReleaseStep ==
  ASSUME PoolInv, NEW h \in issued, release(h)
  PROVE  PoolInv'
<1> DEFINE s == h.slot
           q == sequences[s]
           r == cleared(q, free_blocks)
           p == [r.seq EXCEPT !.request_id = NoRequest, !.active = FALSE]
<1>1. s \in Slots /\ h.owner \in RequestIds
  BY HandleSlot
<1>2. q \in SequenceState /\ HeldOnce(q) /\ free_blocks \in SUBSET Blocks
  BY <1>1, SlotFacts
<1>3. /\ sequences' = [sequences EXCEPT ![s] = p] /\ free_blocks' = r.free
      /\ promised' = [promised EXCEPT ![s] = 0]
      /\ request_to_slot' = [request_to_slot EXCEPT ![q.request_id] = NoSlot]
      /\ free_sequence_slots' = free_sequence_slots \cup {s}
      /\ issued' = issued
  BY DEF release
<1>4. Transfers(q, free_blocks, r) /\ SameOwner(q, r.seq) /\ TableFits(r.seq)
  BY <1>2, ClearProps
<1> HIDE DEF r
<1>5. r.seq \in SequenceState /\ r.free \in SUBSET Blocks
  BY <1>4 DEF Transfers
<1>6. /\ p \in SequenceState /\ p.active = FALSE /\ p.request_id = NoRequest
      /\ p.generation = q.generation /\ p.kv_seq_len = r.seq.kv_seq_len
      /\ p.block_table = r.seq.block_table /\ p.retry_blocks = r.seq.retry_blocks
      /\ p.reserved_blocks = r.seq.reserved_blocks
  BY <1>4, <1>5 DEF SequenceState, SameOwner
<1> HIDE DEF p
<1>7. HeldOnce(p) /\ Held(p) = Held(r.seq) /\ TableFits(p)
  BY <1>4, <1>6 DEF Transfers, HeldOnce, Held, TableFits
<1>8. Held(p) \cap r.free = {} /\ Held(p) \cup r.free = Held(q) \cup free_blocks
  BY <1>4, <1>7 DEF Transfers
<1>9. 0 \in Tokens /\ blocks_for_tokens(0) <= owned_block_count(p)
  <2>1. 0 \in Tokens /\ blocks_for_tokens(0) = 0
    BY PoolDimensions DEF Tokens, blocks_for_tokens
  <2>2. owned_block_count(p) \in Nat
    BY <1>6, <1>7, OwnedCountsHeld
  <2> QED BY <2>1, <2>2
<1>10. /\ sequences' \in [Slots -> SequenceState] /\ free_blocks' \subseteq Blocks
       /\ promised' \in [Slots -> Tokens] /\ BlocksPartitioned'
       /\ \A t \in Slots : TableFits(sequences'[t])
       /\ ReservationKept'
  BY <1>1, <1>3, <1>5, <1>6, <1>7, <1>8, <1>9, BlockStep
<1>11. \A t \in Slots : sequences'[t] = IF t = s THEN p ELSE sequences[t]
  BY <1>1, <1>3 DEF PoolInv, TypeOK
<1>12. q.active /\ q.request_id = h.owner
  BY DEF release, validate, PoolInv, HandleNamesOwner
<1>13. request_to_slot[h.owner] = s
  BY <1>1, <1>12 DEF PoolInv, IndexesAgree
<1>14. /\ request_to_slot' \in [RequestIds -> Slots \cup {NoSlot}]
       /\ \A id \in RequestIds :
            request_to_slot'[id] = IF id = h.owner THEN NoSlot ELSE request_to_slot[id]
  BY <1>1, <1>3, <1>12 DEF PoolInv, TypeOK
<1>15. NoSlot \notin Slots
  BY PoolDimensions DEF NoSlot, Slots
<1>16. IndexesAgree'
  <2>1. \A id \in RequestIds, t \in Slots :
          request_to_slot'[id] = t
            <=> sequences'[t].active /\ sequences'[t].request_id = id
    <3> TAKE id \in RequestIds, t \in Slots
    <3>1. request_to_slot[id] = t <=> sequences[t].active /\ sequences[t].request_id = id
      BY DEF PoolInv, IndexesAgree
    <3>2. CASE t = s
      BY <1>6, <1>11, <1>12, <1>14, <1>15, <3>1, <3>2
    <3>3. CASE t # s
      BY <1>11, <1>13, <1>14, <1>15, <3>1, <3>3
    <3> QED BY <3>2, <3>3
  <2>2. free_sequence_slots' = {t \in Slots : ~ sequences'[t].active}
    <3>1. free_sequence_slots = {t \in Slots : ~ sequences[t].active}
      BY DEF PoolInv, IndexesAgree
    <3> QED BY <1>1, <1>3, <1>6, <1>11, <3>1
  <2> QED BY <2>1, <2>2 DEF IndexesAgree
<1>17. IssuedInPast' /\ HandleNamesOwner'
  <2>1. \A g \in issued : g.slot \in Slots
    BY HandleSlot
  <2> QED BY <1>3, <1>6, <1>11, <2>1 DEF PoolInv, IssuedInPast, HandleNamesOwner, validate
<1>18. TypeOK'
  BY <1>1, <1>3, <1>10, <1>14 DEF PoolInv, TypeOK
<1> QED BY <1>10, <1>16, <1>17, <1>18 DEF PoolInv

LEMMA AcquireStep ==
  ASSUME PoolInv, NEW id \in RequestIds, NEW n \in Tokens, acquire_reserved(id, n)
  PROVE  PoolInv'
<1> DEFINE k == blocks_for_tokens(n)
<1>1. PICK s \in Lowest(free_sequence_slots, 1) :
        LET g == sequences[s].generation + 1
            installed == [sequences[s] EXCEPT !.request_id = id,
                                              !.generation = g, !.active = TRUE]
            got == take_reserved_blocks(installed, free_blocks, k)
        IN  /\ free_sequence_slots' = free_sequence_slots \ {s}
            /\ sequences' = [sequences EXCEPT ![s] = got.seq]
            /\ free_blocks' = got.free
            /\ request_to_slot' = [request_to_slot EXCEPT ![id] = s]
            /\ issued' = issued \cup {[slot |-> s, generation |-> g, owner |-> id]}
            /\ promised' = [promised EXCEPT ![s] = n]
  BY DEF acquire_reserved
<1> DEFINE q == sequences[s]
           g == q.generation + 1
           i == [q EXCEPT !.request_id = id, !.generation = g, !.active = TRUE]
           r == take_reserved_blocks(i, free_blocks, k)
           p == r.seq
<1>2. s \in free_sequence_slots /\ s \in Slots /\ ~ q.active
  BY DEF Lowest, PoolInv, IndexesAgree
<1>3. /\ q \in SequenceState /\ HeldOnce(q) /\ Held(q) \cap free_blocks = {}
      /\ TableFits(q) /\ free_blocks \in SUBSET Blocks
      /\ owned_block_count(q) \in Nat /\ Cardinality(free_blocks) \in Nat
  BY <1>2, SlotFacts
<1>4. k \in Nat /\ k \in 0 .. Cardinality(free_blocks)
  <2>1. n \in Nat
    BY DEF Tokens
  <2>2. k \in Nat
    BY <2>1, BlocksForTokensType
  <2>3. k <= Cardinality(free_blocks)
    BY DEF acquire_reserved
  <2> QED BY <1>3, <2>2, <2>3
<1>5. g \in Nat /\ g > q.generation
  BY <1>3 DEF SequenceState
<1>6. /\ i \in SequenceState /\ i.request_id = id /\ i.generation = g /\ i.active = TRUE
      /\ i.kv_seq_len = q.kv_seq_len /\ i.block_table = q.block_table
      /\ i.retry_blocks = q.retry_blocks /\ i.reserved_blocks = q.reserved_blocks
  <2> HIDE DEF g
  <2> QED BY <1>3, <1>5 DEF SequenceState
<1> HIDE DEF i
<1>7. /\ HeldOnce(i) /\ Held(i) = Held(q) /\ TableFits(i)
      /\ owned_block_count(i) = owned_block_count(q)
  BY <1>3, <1>6 DEF HeldOnce, Held, TableFits, owned_block_count
<1>8. /\ Transfers(i, free_blocks, r) /\ SameOwner(i, p)
      /\ p.block_table = i.block_table /\ p.kv_seq_len = i.kv_seq_len
      /\ owned_block_count(p) = owned_block_count(i) + k
  <2> HIDE DEF k
  <2> QED BY <1>3, <1>4, <1>6, <1>7, TakeReservedProps
<1>9. /\ free_sequence_slots' = free_sequence_slots \ {s}
      /\ sequences' = [sequences EXCEPT ![s] = p] /\ free_blocks' = r.free
      /\ request_to_slot' = [request_to_slot EXCEPT ![id] = s]
      /\ issued' = issued \cup {[slot |-> s, generation |-> g, owner |-> id]}
      /\ promised' = [promised EXCEPT ![s] = n]
  BY <1>1 DEF i
<1> HIDE DEF r
<1>10. p \in SequenceState /\ r.free \in SUBSET Blocks /\ HeldOnce(p) /\ TableFits(p)
       /\ Held(p) \cap r.free = {} /\ Held(p) \cup r.free = Held(q) \cup free_blocks
  BY <1>7, <1>8 DEF Transfers, TableFits
<1>11. k <= owned_block_count(p)
  BY <1>3, <1>4, <1>7, <1>8
<1>12. /\ sequences' \in [Slots -> SequenceState] /\ free_blocks' \subseteq Blocks
       /\ promised' \in [Slots -> Tokens] /\ BlocksPartitioned'
       /\ \A t \in Slots : TableFits(sequences'[t])
       /\ ReservationKept'
  BY <1>2, <1>9, <1>10, <1>11, BlockStep
<1>13. p.active = TRUE /\ p.request_id = id /\ p.generation = g
  BY <1>6, <1>8 DEF SameOwner
<1> HIDE DEF p, g
<1>14. \A t \in Slots : sequences'[t] = IF t = s THEN p ELSE sequences[t]
  BY <1>2, <1>9 DEF PoolInv, TypeOK
<1>15. /\ request_to_slot' \in [RequestIds -> Slots \cup {NoSlot}]
       /\ \A d \in RequestIds :
            request_to_slot'[d] = IF d = id THEN s ELSE request_to_slot[d]
  BY <1>2, <1>9 DEF PoolInv, TypeOK
<1>16. NoSlot \notin Slots /\ request_to_slot[id] = NoSlot
  BY PoolDimensions DEF NoSlot, Slots, acquire_reserved
<1>17. IndexesAgree'
  <2>1. \A d \in RequestIds, t \in Slots :
          request_to_slot'[d] = t
            <=> sequences'[t].active /\ sequences'[t].request_id = d
    <3> TAKE d \in RequestIds, t \in Slots
    <3>1. request_to_slot[d] = t <=> sequences[t].active /\ sequences[t].request_id = d
      BY DEF PoolInv, IndexesAgree
    <3>2. CASE t = s
      BY <1>2, <1>13, <1>14, <1>15, <1>16, <3>1, <3>2
    <3>3. CASE t # s
      BY <1>14, <1>15, <1>16, <3>1, <3>3
    <3> QED BY <3>2, <3>3
  <2>2. free_sequence_slots' = {t \in Slots : ~ sequences'[t].active}
    <3>1. free_sequence_slots = {t \in Slots : ~ sequences[t].active}
      BY DEF PoolInv, IndexesAgree
    <3> QED BY <1>2, <1>9, <1>13, <1>14, <3>1
  <2> QED BY <2>1, <2>2 DEF IndexesAgree
<1>18. \A h \in issued : /\ h.slot \in Slots /\ h.generation \in Nat
                         /\ h.generation <= sequences[h.slot].generation
                         /\ sequences[h.slot].generation \in Nat
  BY HandleSlot DEF PoolInv, IssuedInPast, TypeOK, SequenceState
<1> DEFINE new == [slot |-> s, generation |-> g, owner |-> id]
<1>19. new.slot = s /\ new.generation = g /\ new.owner = id
  OBVIOUS
<1>20. issued' = issued \cup {new} /\ new \in [slot : Slots, generation : Nat, owner : RequestIds]
  BY <1>2, <1>5, <1>9
<1> HIDE DEF new
<1>21. IssuedInPast'
  <2> SUFFICES ASSUME NEW h \in issued' PROVE h.generation <= sequences'[h.slot].generation
    BY DEF IssuedInPast
  <2>1. CASE h = new
    BY <1>2, <1>5, <1>13, <1>14, <1>19, <2>1
  <2>2. CASE h \in issued
    BY <1>5, <1>13, <1>14, <1>18, <2>2
  <2> QED BY <1>20, <2>1, <2>2
<1>22. HandleNamesOwner'
  <2> SUFFICES ASSUME NEW h \in issued',
                      sequences'[h.slot].active,
                      sequences'[h.slot].generation = h.generation
               PROVE  sequences'[h.slot].request_id = h.owner
    BY DEF HandleNamesOwner, validate
  <2>1. CASE h = new
    BY <1>2, <1>13, <1>14, <1>19, <2>1
  <2>2. CASE h \in issued
    <3>1. h.slot # s
      BY <1>2, <1>5, <1>13, <1>14, <1>18, <2>2
    <3> QED BY <1>14, <1>18, <2>2, <3>1 DEF PoolInv, HandleNamesOwner, validate
  <2> QED BY <1>20, <2>1, <2>2
<1>23. TypeOK'
  BY <1>9, <1>12, <1>15, <1>20 DEF PoolInv, TypeOK
<1> QED BY <1>12, <1>17, <1>21, <1>22, <1>23 DEF PoolInv

LEMMA ResetStep ==
  ASSUME PoolInv, reset
  PROVE  PoolInv'
<1> DEFINE wiped(s) == [sequences[s] EXCEPT !.request_id = NoRequest, !.kv_seq_len = 0,
                          !.active = FALSE, !.block_table = <<>>, !.retry_blocks = <<>>,
                          !.reserved_blocks = {}]
<1>1. 0 \in Tokens /\ << >> \in Seq(Blocks) /\ {} \in SUBSET Blocks /\ blocks_for_tokens(0) = 0
  BY PoolDimensions DEF Tokens, blocks_for_tokens
<1>2. Range(<<>>) = {} /\ IsInjective(<<>>) /\ Cardinality({}) = 0
  BY FS_EmptySet DEF Range, IsInjective
<1>3. ASSUME NEW s \in Slots
      PROVE  /\ sequences'[s] \in SequenceState /\ ~ sequences'[s].active
             /\ sequences'[s].generation = sequences[s].generation
             /\ HeldOnce(sequences'[s]) /\ Held(sequences'[s]) = {}
             /\ TableFits(sequences'[s]) /\ owned_block_count(sequences'[s]) = 0
  <2> DEFINE p == wiped(s)
  <2>1. sequences'[s] = p
    BY DEF reset
  <2>2. sequences[s] \in SequenceState
    BY SlotFacts
  <2>3. /\ p \in SequenceState /\ p.active = FALSE
        /\ p.generation = sequences[s].generation /\ p.kv_seq_len = 0
        /\ p.block_table = <<>> /\ p.retry_blocks = <<>> /\ p.reserved_blocks = {}
    BY <1>1, <2>2 DEF SequenceState
  <2> HIDE DEF p
  <2>4. HeldOnce(p) /\ Held(p) = {}
    BY <1>2, <2>3 DEF HeldOnce, Held
  <2>5. TableFits(p)
    BY <1>1, <2>3 DEF TableFits
  <2>6. owned_block_count(p) = 0
    BY <1>2, <2>3 DEF owned_block_count
  <2> QED BY <2>1, <2>3, <2>4, <2>5, <2>6
<1>4. /\ free_sequence_slots' = Slots /\ free_blocks' = Blocks
      /\ \A id \in RequestIds : request_to_slot'[id] = NoSlot
      /\ \A s \in Slots : promised'[s] = 0
      /\ request_to_slot' \in [RequestIds -> {NoSlot}]
      /\ promised' \in [Slots -> {0}]
      /\ issued' = issued
  BY DEF reset, refill, Slots, Blocks
<1>5. sequences' \in [Slots -> SequenceState]
  <2>1. sequences' = [s \in Slots |-> wiped(s)]
    BY DEF reset
  <2>2. \A s \in Slots : wiped(s) \in SequenceState
    BY <1>3, <2>1
  <2> HIDE DEF wiped
  <2> QED BY <2>1, <2>2
<1>6. TypeOK'
  BY <1>1, <1>4, <1>5 DEF PoolInv, TypeOK
<1>7. BlocksPartitioned'
  <2>1. \A s \in Slots : HeldOnce(sequences'[s]) /\ Held(sequences'[s]) = {}
    BY <1>3
  <2>2. UNION {Held(sequences'[s]) : s \in Slots} = {}
    BY <2>1
  <2>3. free_blocks' = Blocks
    BY <1>4
  <2>4. \A s \in Slots : Held(sequences'[s]) \cap free_blocks' = {}
    BY <2>1
  <2>5. \A s, t \in Slots : s # t => Held(sequences'[s]) \cap Held(sequences'[t]) = {}
    BY <2>1
  <2>6. Blocks = free_blocks' \cup UNION {Held(sequences'[s]) : s \in Slots}
    BY <2>2, <2>3
  <2> QED BY <2>1, <2>4, <2>5, <2>6 DEF BlocksPartitioned
<1>8. ReservationKept'
  BY <1>1, <1>3, <1>4 DEF ReservationKept
<1>9. NoSlot \notin Slots
  BY PoolDimensions DEF NoSlot, Slots
<1>10. IndexesAgree'
  BY <1>3, <1>4, <1>9 DEF IndexesAgree
<1>11. IssuedInPast' /\ HandleNamesOwner'
  <2>1. \A h \in issued : h.slot \in Slots
    BY HandleSlot
  <2> QED BY <1>3, <1>4, <2>1 DEF PoolInv, IssuedInPast, HandleNamesOwner, validate
<1> QED BY <1>3, <1>6, <1>7, <1>8, <1>10, <1>11 DEF PoolInv
-----------------------------------------------------------------------------
(* The theorems.                                                           *)

LEMMA NextInv == PoolInv /\ [Next]_poolVars => PoolInv'
<1> SUFFICES ASSUME PoolInv, [Next]_poolVars PROVE PoolInv'
  OBVIOUS
<1>1. CASE UNCHANGED poolVars
  BY <1>1 DEF poolVars, PoolInv, TypeOK, BlocksPartitioned, ReservationKept, IndexesAgree,
              IssuedInPast, HandleNamesOwner, validate
<1>2. ASSUME NEW id \in RequestIds, NEW n \in Tokens, acquire_reserved(id, n)
      PROVE  PoolInv'
  BY <1>2, AcquireStep
<1>3. ASSUME NEW h \in issued, NEW n \in Tokens,
             reserve_capacity(h, n) \/ append(h, n) \/ rollback_append(h, n)
      PROVE  PoolInv'
  BY <1>3, ReserveStep, AppendStep, RollbackStep
<1>4. ASSUME NEW h \in issued, clear(h) \/ release(h)
      PROVE  PoolInv'
  BY <1>4, ClearStep, ReleaseStep
<1>5. CASE reset
  BY <1>5, ResetStep
<1> QED BY <1>1, <1>2, <1>3, <1>4, <1>5 DEF Next

(* The inductive invariant holds of every pool, whatever its dimensions. *)
THEOREM PoolInvariant == Spec => []PoolInv
BY InitInv, NextInv, PTL DEF Spec

(* Indices and lengths stay in range. *)
THEOREM PoolTypeCorrect == Spec => []TypeOK
<1>1. PoolInv => TypeOK
  BY DEF PoolInv
<1> QED BY <1>1, PoolInvariant, PTL

(* No order of method calls leaks a physical block, frees one twice or     *)
(* gives one to two owners. *)
THEOREM PoolBlocksPartitioned == Spec => []BlocksPartitioned
<1>1. PoolInv => BlocksPartitioned
  BY DEF PoolInv
<1> QED BY <1>1, PoolInvariant, PTL

(* A sequence keeps the blocks it was promised until it gives them up.     *)
THEOREM PoolReservationKept == Spec => []ReservationKept
<1>1. PoolInv => ReservationKept
  BY DEF PoolInv
<1> QED BY <1>1, PoolInvariant, PTL

(* A handle that validates names the request it was issued to, and the     *)
(* indexes agree with the sequences. *)
THEOREM PoolHandlesSound == Spec => [](HandleNamesOwner /\ IndexesAgree)
<1>1. PoolInv => HandleNamesOwner /\ IndexesAgree
  BY DEF PoolInv
<1> QED BY <1>1, PoolInvariant, PTL

(* Two live positions never share a row of the pooled buffer, and no block  *)
(* of a table is without a position. *)
THEOREM PoolRowsNeverAlias == Spec => []RowsNeverAlias
<1>1. ASSUME PoolInv, NEW s \in Slots, NEW i \in 0 .. sequences[s].kv_seq_len - 1
      PROVE  /\ i \in Nat
             /\ i \div BlockSize + 1 \in DOMAIN sequences[s].block_table
             /\ sequences[s].block_table[i \div BlockSize + 1] \in Nat
             /\ sequences[s].block_table[i \div BlockSize + 1] \in Held(sequences[s])
  <2> DEFINE q == sequences[s]
             T == q.block_table
             b == i \div BlockSize + 1
  <2>1. q \in SequenceState /\ TableFits(q)
    BY <1>1, SlotFacts
  <2>2. T \in Seq(Blocks) /\ q.kv_seq_len \in Nat
    BY <2>1 DEF SequenceState, Tokens
  <2>3. DOMAIN T = 1 .. Len(T) /\ Len(T) = blocks_for_tokens(q.kv_seq_len)
    BY <2>1, <2>2, LenProperties DEF TableFits
  <2>4. i \in Nat /\ b \in 1 .. blocks_for_tokens(q.kv_seq_len)
    BY <1>1, <2>2, PositionInTable
  <2> HIDE DEF b
  <2>5. T[b] \in Blocks /\ T[b] \in Range(T)
    BY <2>2, <2>3, <2>4, ElementOfSeq DEF Range
  <2>6. T[b] \in Nat /\ T[b] \in Held(q)
    BY <2>5 DEF Blocks, Held
  <2> QED BY <2>3, <2>4, <2>6 DEF b
<1>2. ASSUME PoolInv, NEW s \in Slots, NEW t \in Slots,
             NEW i \in 0 .. sequences[s].kv_seq_len - 1,
             NEW j \in 0 .. sequences[t].kv_seq_len - 1,
             PhysicalRow(sequences[s], i) = PhysicalRow(sequences[t], j)
      PROVE  s = t /\ i = j
  <2> DEFINE b == sequences[s].block_table[i \div BlockSize + 1]
             c == sequences[t].block_table[j \div BlockSize + 1]
  <2>1. /\ i \in Nat /\ b \in Nat /\ b \in Held(sequences[s])
        /\ i \div BlockSize + 1 \in DOMAIN sequences[s].block_table
    BY <1>1, <1>2
  <2>2. /\ j \in Nat /\ c \in Nat /\ c \in Held(sequences[t])
        /\ j \div BlockSize + 1 \in DOMAIN sequences[t].block_table
    BY <1>1, <1>2
  <2>3. b * BlockSize + (i % BlockSize) = c * BlockSize + (j % BlockSize)
    BY <1>2 DEF PhysicalRow
  <2>4. b = c /\ i % BlockSize = j % BlockSize
    <3> HIDE DEF b, c
    <3> QED BY <2>1, <2>2, <2>3, RowUnique
  <2>5. s = t
    BY <1>2, <2>1, <2>2, <2>4 DEF PoolInv, BlocksPartitioned
  <2>6. IsInjective(sequences[s].block_table)
    BY <1>2 DEF PoolInv, BlocksPartitioned, HeldOnce
  <2>7. i \div BlockSize + 1 = j \div BlockSize + 1
    BY <2>1, <2>2, <2>4, <2>5, <2>6 DEF IsInjective
  <2>8. i \div BlockSize = j \div BlockSize
    <3>1. i \div BlockSize \in Int /\ j \div BlockSize \in Int
      BY <2>1, <2>2, PoolDimensions
    <3> QED BY <2>7, <3>1
  <2> QED BY <2>1, <2>2, <2>4, <2>5, <2>8, PositionUnique
<1>3. PoolInv => RowsNeverAlias
  <2>1. PoolInv => \A s \in Slots : TableFits(sequences[s])
    BY DEF PoolInv
  <2> QED BY <1>2, <2>1 DEF RowsNeverAlias
<1> QED BY <1>3, PoolInvariant, PTL
-----------------------------------------------------------------------------
(* Rolled-back blocks come back in their logical order.                    *)

LEMMA PrefixIntro ==
  ASSUME NEW S, NEW s \in Seq(S), NEW t \in Seq(S), Len(s) <= Len(t),
         \A i \in 1 .. Len(s) : s[i] = t[i]
  PROVE  IsPrefix(s, t)
<1> DEFINE n == Len(s)
           a == SubSeq(s, 1, n)
           b == SubSeq(t, 1, n)
<1>1. n \in Nat /\ n \in 0 .. Len(s) /\ n \in 0 .. Len(t)
  BY LenProperties
<1>2. a \in Seq(S) /\ Len(a) = n /\ \A i \in 1 .. n : a[i] = s[i]
  <2> HIDE DEF n
  <2> QED BY <1>1, CutProps
<1>3. b \in Seq(S) /\ Len(b) = n /\ \A i \in 1 .. n : b[i] = t[i]
  <2> HIDE DEF n
  <2> QED BY <1>1, CutProps
<1> HIDE DEF a, b
<1>4. a = b
  BY <1>2, <1>3, SeqEqual
<1> QED BY <1>4 DEF IsPrefix, a, b

LEMMA LayoutProps ==
  ASSUME NEW q, q.block_table \in Seq(Blocks), q.retry_blocks \in Seq(Blocks)
  PROVE  LET m == Len(q.block_table)
             n == Len(q.retry_blocks)
         IN  /\ Layout(q) \in Seq(Blocks) /\ Len(Layout(q)) = m + n
             /\ m \in Nat /\ n \in Nat
             /\ \A i \in 1 .. m : Layout(q)[i] = q.block_table[i]
             /\ \A i \in 1 .. n : Layout(q)[m + i] = q.retry_blocks[n - i + 1]
<1> DEFINE T == q.block_table
           R == q.retry_blocks
           m == Len(T)
           n == Len(R)
           V == Reverse(R)
<1>1. /\ V \in Seq(Blocks) /\ Len(V) = n
      /\ \A i \in 1 .. n : V[i] = R[n - i + 1]
  BY ReverseProps
<1>2. m \in Nat /\ n \in Nat
  OBVIOUS
<1>3. Layout(q) = T \o V
  BY DEF Layout
<1> HIDE DEF V
<1>4. /\ T \o V \in Seq(Blocks) /\ Len(T \o V) = m + n
      /\ \A i \in 1 .. m + n : (T \o V)[i] = IF i <= m THEN T[i] ELSE V[i - m]
  <2>1. T \in Seq(Blocks) /\ V \in Seq(Blocks) /\ Len(V) = n
    BY <1>1
  <2> HIDE DEF T, R, n
  <2> QED BY <2>1, ConcatProperties
<1> DEFINE L == T \o V
<1> HIDE DEF L, m, n
<1>5. \A i \in 1 .. m : L[i] = T[i]
  BY <1>2, <1>4 DEF L
<1>6. ASSUME NEW i \in 1 .. n PROVE L[m + i] = R[n - i + 1]
  <2>1. m + i \in 1 .. m + n /\ ~ (m + i <= m) /\ (m + i) - m = i
    BY <1>2
  <2> QED BY <1>1, <1>4, <2>1 DEF L
<1> QED BY <1>2, <1>3, <1>4, <1>5, <1>6 DEF L, m, n

(* Growth keeps the logical order of every block handed out before. *)
LEMMA ExtendLayout ==
  ASSUME NEW q \in SequenceState, NEW free \in SUBSET Blocks,
         HeldOnce(q), Held(q) \cap free = {},
         NEW required \in Nat, Len(q.block_table) <= required,
         required <= owned_block_count(q) + Cardinality(free)
  PROVE  IsPrefix(Layout(q), Layout(extend_block_table(q, free, required).seq))
<1> DEFINE r == extend_block_table(q, free, required)
           p == r.seq
           T == q.block_table
           R == q.retry_blocks
           m == Len(T)
           n == Len(R)
           G == GrowthOrder(q, free)
           k == required - Len(T)
           taken == SubSeq(G, 1, k)
           rest == SubSeq(R, 1, Len(R) - k)
<1>0. T \in Seq(Blocks) /\ R \in Seq(Blocks) /\ m \in Nat /\ n \in Nat
      /\ q.reserved_blocks \in SUBSET Blocks
  BY DEF SequenceState
<1>1. k \in Nat
  BY <1>0
<1>2. /\ G \in Seq(Blocks) /\ Len(G) = n + (Cardinality(q.reserved_blocks) + Cardinality(free))
      /\ \A i \in 1 .. n : G[i] = R[n - i + 1]
  BY GrowthOrderProps
<1>3. Cardinality(q.reserved_blocks) \in Nat /\ Cardinality(free) \in Nat
  BY <1>0, FreeListFinite
<1>4. k \in 0 .. Len(G)
  <2>1. required <= m + n + Cardinality(q.reserved_blocks) + Cardinality(free)
    BY DEF owned_block_count
  <2> HIDE DEF m, n, G
  <2> QED BY <1>0, <1>1, <1>2, <1>3, <2>1 DEF m
<1>5. Transfers(q, free, r)
  BY ExtendProps
<1>6. p.block_table \in Seq(Blocks) /\ p.retry_blocks \in Seq(Blocks)
  BY <1>5 DEF Transfers, SequenceState
<1>7. CASE k = 0
  <2>1. p = q
    BY <1>0, <1>7 DEF extend_block_table
  <2>2. Layout(q) \in Seq(Blocks)
    BY <1>0, LayoutProps
  <2>3. Len(Layout(q)) \in Nat
    BY <2>2
  <2>4. IsPrefix(Layout(q), Layout(q))
    BY <2>2, <2>3, PrefixIntro
  <2> QED BY <2>1, <2>4
<1>8. CASE k # 0
  <2>1. p.block_table = T \o taken /\ p.retry_blocks = rest
    <3>1. r = [seq |-> [q EXCEPT !.block_table = T \o taken,
                                 !.retry_blocks = rest,
                                 !.reserved_blocks = @ \ Range(taken)],
               free |-> free \ Range(taken)]
      BY <1>0, <1>1, <1>8 DEF extend_block_table
    <3> HIDE DEF r, taken, rest
    <3> QED BY <3>1 DEF SequenceState
  <2>2. taken \in Seq(Blocks) /\ Len(taken) = k /\ \A i \in 1 .. k : taken[i] = G[i]
    <3>1. G \in Seq(Blocks)
      BY <1>2
    <3> HIDE DEF G, k
    <3> QED BY <1>4, <3>1, CutProps
  <2>3. /\ Len(p.block_table) = m + k
        /\ \A i \in 1 .. m + k : p.block_table[i] = IF i <= m THEN T[i] ELSE taken[i - m]
    <3>1. T \in Seq(Blocks) /\ taken \in Seq(Blocks) /\ Len(taken) = k
      BY <1>0, <2>2
    <3> HIDE DEF T, taken, k, p
    <3>2. /\ Len(T \o taken) = Len(T) + Len(taken)
          /\ \A i \in 1 .. Len(T) + Len(taken) :
               (T \o taken)[i] = IF i <= Len(T) THEN T[i] ELSE taken[i - Len(T)]
      BY <3>1, ConcatProperties
    <3> QED BY <2>1, <3>1, <3>2
  <2>4. /\ k <= n => Len(rest) = n - k /\ \A i \in 1 .. n - k : rest[i] = R[i]
        /\ k > n => Len(rest) = 0
    <3>1. CASE k <= n
      <4>1. n - k \in 0 .. n
        <5> HIDE DEF n, k
        <5> QED BY <1>0, <1>1, <3>1
      <4>2. R \in Seq(Blocks)
        BY <1>0
      <4>3. Len(SubSeq(R, 1, n - k)) = n - k
            /\ \A i \in 1 .. n - k : SubSeq(R, 1, n - k)[i] = R[i]
        <5> DEFINE c == n - k
        <5>1. c \in 0 .. Len(R)
          BY <4>1
        <5> HIDE DEF c, R
        <5>2. Len(SubSeq(R, 1, c)) = c /\ \A i \in 1 .. c : SubSeq(R, 1, c)[i] = R[i]
          BY <4>2, <5>1, CutProps
        <5> QED BY <5>2 DEF c
      <4> HIDE DEF R, k
      <4> QED BY <1>0, <1>1, <3>1, <4>3
    <3>2. CASE k > n
      <4>1. Len(R) - k \in Int /\ 1 \in Int /\ Len(R) - k < 1
        <5> HIDE DEF k, R
        <5> QED BY <1>0, <1>1, <3>2 DEF n
      <4>2. rest = << >>
        BY <4>1, SubSeqEmpty
      <4> HIDE DEF rest, k, n
      <4> QED BY <1>0, <1>1, <3>2, <4>2
    <3> HIDE DEF k, n, rest
    <3> QED BY <1>0, <1>1, <3>1, <3>2
  <2> DEFINE A == Layout(q)
             B == Layout(p)
  <2>5. /\ A \in Seq(Blocks) /\ Len(A) = m + n
        /\ \A i \in 1 .. m : A[i] = T[i]
        /\ \A i \in 1 .. n : A[m + i] = R[n - i + 1]
    BY <1>0, LayoutProps
  <2>6. /\ B \in Seq(Blocks) /\ Len(B) = Len(p.block_table) + Len(p.retry_blocks)
        /\ \A i \in 1 .. Len(p.block_table) : B[i] = p.block_table[i]
        /\ \A i \in 1 .. Len(p.retry_blocks) :
             B[Len(p.block_table) + i] = p.retry_blocks[Len(p.retry_blocks) - i + 1]
    <3> HIDE DEF p
    <3> QED BY <1>6, LayoutProps
  <2> HIDE DEF A, B, p, taken, rest, G, k, T, R, m, n
  <2>7. \A i \in 1 .. m : A[i] = B[i]
    <3> TAKE i \in 1 .. m
    <3>1. i \in 1 .. m + k /\ i <= m
      BY <1>0, <1>1
    <3>2. p.block_table[i] = T[i] /\ B[i] = p.block_table[i]
      BY <2>3, <2>6, <3>1
    <3> QED BY <2>5, <3>2
  <2>8. ASSUME NEW j \in 1 .. n PROVE A[m + j] = B[m + j]
    <3>1. CASE j <= k
      <4>1. m + j \in 1 .. m + k /\ ~ (m + j <= m) /\ (m + j) - m = j /\ j \in 1 .. k
        BY <1>0, <1>1, <3>1
      <4>2. B[m + j] = taken[j]
        BY <2>3, <2>6, <4>1
      <4> QED BY <1>2, <2>2, <2>5, <4>1, <4>2
    <3>2. CASE j > k
      <4>1. k <= n /\ j - k \in 1 .. n - k /\ (m + k) + (j - k) = m + j
            /\ (n - k) - (j - k) + 1 = n - j + 1 /\ n - j + 1 \in 1 .. n - k
        BY <1>0, <1>1, <3>2
      <4>2. Len(rest) = n - k /\ rest[n - j + 1] = R[n - j + 1]
        BY <2>4, <4>1
      <4>3. B[(m + k) + (j - k)] = rest[(n - k) - (j - k) + 1]
        BY <2>1, <2>3, <2>6, <4>1, <4>2
      <4>4. B[m + j] = rest[n - j + 1]
        BY <4>1, <4>3
      <4> QED BY <2>5, <4>2, <4>4
    <3> QED BY <1>0, <1>1, <3>1, <3>2
  <2>9. \A i \in 1 .. m + n : A[i] = B[i]
    <3> TAKE i \in 1 .. m + n
    <3>1. CASE i <= m
      BY <1>0, <2>7, <3>1
    <3>2. CASE i > m
      <4>1. i - m \in 1 .. n /\ m + (i - m) = i
        BY <1>0, <3>2
      <4>2. A[m + (i - m)] = B[m + (i - m)]
        BY <2>8, <4>1
      <4> QED BY <4>1, <4>2
    <3> QED BY <1>0, <3>1, <3>2
  <2>10. m + n <= Len(B)
    <3>1. Len(B) = m + k + Len(rest)
      BY <2>1, <2>3, <2>6
    <3> QED BY <1>0, <1>1, <2>4, <3>1
  <2> QED BY <2>5, <2>6, <2>9, <2>10, PrefixIntro DEF A, B, p
<1> QED BY <1>7, <1>8

(* A rollback leaves the logical order as it is. *)
LEMMA RollbackLayout ==
  ASSUME NEW q \in SequenceState, HeldOnce(q), TableFits(q),
         NEW x \in Tokens, x <= q.kv_seq_len
  PROVE  IsPrefix(Layout(q), Layout(rolled_back(q, x)))
<1> DEFINE p == rolled_back(q, x)
           T == q.block_table
           R == q.retry_blocks
           m == Len(T)
           n == Len(R)
           keep == blocks_for_tokens(q.kv_seq_len - x)
           front == SubSeq(T, 1, keep)
           cut == SubSeq(T, keep + 1, Len(T))
           back == Reverse(cut)
<1>0. T \in Seq(Blocks) /\ R \in Seq(Blocks) /\ m \in Nat /\ n \in Nat
  BY DEF SequenceState
<1>1. keep \in 0 .. m
  <2>1. q.kv_seq_len \in Nat /\ q.kv_seq_len - x \in Nat /\ q.kv_seq_len - x <= q.kv_seq_len
    BY PoolDimensions DEF SequenceState, Tokens
  <2>2. keep \in Nat
    BY <2>1, BlocksForTokensType
  <2>3. keep <= blocks_for_tokens(q.kv_seq_len)
    BY <2>1, BlocksForTokensMonotone
  <2> QED BY <1>0, <2>2, <2>3 DEF TableFits
<1>2. p.block_table = front /\ p.retry_blocks = R \o back
  <2> HIDE DEF keep, front, cut, back
  <2> QED BY DEF rolled_back, SequenceState, keep, front, cut, back
<1>3. p.block_table \in Seq(Blocks) /\ p.retry_blocks \in Seq(Blocks)
  BY RollbackProps DEF SequenceState
<1> HIDE DEF keep, p
<1>4. /\ front \in Seq(Blocks) /\ Len(front) = keep
      /\ \A i \in 1 .. keep : front[i] = T[i]
  <2> HIDE DEF T
  <2> QED BY <1>0, <1>1, CutProps
<1>5. /\ cut \in Seq(Blocks) /\ Len(cut) = m - keep
      /\ \A i \in 1 .. m - keep : cut[i] = T[keep + i]
  <2> HIDE DEF T
  <2> QED BY <1>0, <1>1, CutProps
<1> HIDE DEF front, cut
<1>6. /\ back \in Seq(Blocks) /\ Len(back) = m - keep
      /\ \A i \in 1 .. m - keep : back[i] = cut[(m - keep) - i + 1]
  <2>1. /\ back \in Seq(Blocks) /\ Len(back) = Len(cut)
        /\ \A i \in 1 .. Len(cut) : back[i] = cut[Len(cut) - i + 1]
    BY <1>5, ReverseProps
  <2> HIDE DEF back, m
  <2> QED BY <1>5, <2>1
<1> HIDE DEF back
<1>7. /\ Len(R \o back) = n + (m - keep)
      /\ \A i \in 1 .. n + (m - keep) :
           (R \o back)[i] = IF i <= n THEN R[i] ELSE back[i - n]
  <2>1. R \in Seq(Blocks) /\ back \in Seq(Blocks) /\ Len(back) = m - keep
    BY <1>0, <1>6
  <2> HIDE DEF R, m
  <2>2. /\ Len(R \o back) = Len(R) + Len(back)
        /\ \A i \in 1 .. Len(R) + Len(back) :
             (R \o back)[i] = IF i <= Len(R) THEN R[i] ELSE back[i - Len(R)]
    BY <2>1, ConcatProperties
  <2> QED BY <2>1, <2>2
<1> DEFINE A == Layout(q)
           B == Layout(p)
           Y == R \o back
<1>8. /\ A \in Seq(Blocks) /\ Len(A) = m + n
      /\ \A i \in 1 .. m : A[i] = T[i]
      /\ \A i \in 1 .. n : A[m + i] = R[n - i + 1]
  BY <1>0, LayoutProps
<1>9. /\ B \in Seq(Blocks) /\ Len(B) = Len(p.block_table) + Len(p.retry_blocks)
      /\ \A i \in 1 .. Len(p.block_table) : B[i] = p.block_table[i]
      /\ \A i \in 1 .. Len(p.retry_blocks) :
           B[Len(p.block_table) + i] = p.retry_blocks[Len(p.retry_blocks) - i + 1]
  BY <1>3, LayoutProps
<1> HIDE DEF A, B, Y, T, R, m, n
<1>10. /\ p.block_table = front /\ p.retry_blocks = Y /\ Len(Y) = n + (m - keep)
       /\ \A i \in 1 .. n + (m - keep) : Y[i] = IF i <= n THEN R[i] ELSE back[i - n]
  BY <1>2, <1>7 DEF Y
<1>11. /\ Len(B) = keep + (n + (m - keep))
       /\ \A i \in 1 .. keep : B[i] = front[i]
       /\ \A i \in 1 .. n + (m - keep) : B[keep + i] = Y[(n + (m - keep)) - i + 1]
  BY <1>4, <1>9, <1>10
<1>12. ASSUME NEW i \in 1 .. m + n PROVE A[i] = B[i]
  <2>1. CASE i <= keep
    <3>1. i \in 1 .. keep /\ i \in 1 .. m
      BY <1>0, <1>1, <2>1
    <3> QED BY <1>4, <1>8, <1>11, <3>1
  <2>2. CASE i > keep /\ i <= m
    <3> DEFINE j == i - keep
               y == (n + (m - keep)) - j + 1
    <3>1. /\ j \in 1 .. n + (m - keep) /\ keep + j = i /\ i \in 1 .. m
          /\ y \in 1 .. n + (m - keep) /\ ~ (y <= n)
          /\ y - n \in 1 .. m - keep /\ (m - keep) - (y - n) + 1 = j
          /\ j \in 1 .. m - keep
      BY <1>0, <1>1, <2>2
    <3> HIDE DEF j, y
    <3>2. B[keep + j] = Y[y]
      BY <1>11, <3>1 DEF y
    <3>3. Y[y] = back[y - n]
      BY <1>10, <3>1
    <3>4. back[y - n] = cut[j]
      BY <1>6, <3>1
    <3>5. cut[j] = T[keep + j]
      BY <1>5, <3>1
    <3> QED BY <1>8, <3>1, <3>2, <3>3, <3>4, <3>5
  <2>3. CASE i > m
    <3> DEFINE j == i - keep
               y == (n + (m - keep)) - j + 1
               w == i - m
    <3>1. /\ j \in 1 .. n + (m - keep) /\ keep + j = i
          /\ y \in 1 .. n + (m - keep) /\ y <= n /\ w \in 1 .. n
          /\ m + w = i /\ n - w + 1 = y
      BY <1>0, <1>1, <2>3
    <3> HIDE DEF j, y, w
    <3>2. B[keep + j] = Y[y]
      BY <1>11, <3>1 DEF y
    <3>3. Y[y] = R[y]
      BY <1>10, <3>1
    <3>4. A[m + w] = R[n - w + 1]
      BY <1>8, <3>1
    <3> QED BY <3>1, <3>2, <3>3, <3>4
  <2> QED BY <1>0, <1>1, <2>1, <2>2, <2>3
<1>13. Len(A) <= Len(B)
  BY <1>0, <1>1, <1>8, <1>11
<1> QED BY <1>8, <1>9, <1>12, <1>13, PrefixIntro DEF A, B, p

(* Retrying a rolled-back append is given the same rows, whatever the other *)
(* sequences did in between. *)
THEOREM PoolRetryReproducesRows == Spec => RetryReproducesRows
<1> DEFINE Keeps(q, p) == IsPrefix(Layout(q), Layout(p)) \/ Held(p) = {}
           A == \A s \in Slots : Keeps(sequences[s], sequences'[s])
<1>1. ASSUME NEW q \in SequenceState, NEW p,
             p.block_table = q.block_table, p.retry_blocks = q.retry_blocks
      PROVE  Keeps(q, p)
  <2>1. q.block_table \in Seq(Blocks) /\ q.retry_blocks \in Seq(Blocks)
    BY DEF SequenceState
  <2>2. Layout(q) \in Seq(Blocks)
    BY <2>1, LayoutProps
  <2>3. Layout(p) = Layout(q)
    BY <1>1 DEF Layout
  <2>4. Len(Layout(q)) <= Len(Layout(q))
    BY <2>2
  <2> QED BY <2>2, <2>3, <2>4, PrefixIntro
<1> HIDE DEF Keeps
<1>2. ASSUME PoolInv, NEW s \in Slots, NEW p,
             sequences' = [sequences EXCEPT ![s] = p], Keeps(sequences[s], p)
      PROVE  A
  <2> SUFFICES ASSUME NEW t \in Slots PROVE Keeps(sequences[t], sequences'[t])
    OBVIOUS
  <2>1. sequences'[t] = IF t = s THEN p ELSE sequences[t]
    BY <1>2 DEF PoolInv, TypeOK
  <2>2. sequences[t] \in SequenceState
    BY <1>2, SlotFacts
  <2> QED BY <1>1, <1>2, <2>1, <2>2
<1>3. ASSUME PoolInv, NEW id \in RequestIds, NEW n \in Tokens, acquire_reserved(id, n)
      PROVE  A
  <2> DEFINE i(s) == [sequences[s] EXCEPT !.request_id = id,
                        !.generation = sequences[s].generation + 1, !.active = TRUE]
             p(s) == take_reserved_blocks(i(s), free_blocks, blocks_for_tokens(n)).seq
  <2>1. PICK s \in free_sequence_slots : sequences' = [sequences EXCEPT ![s] = p(s)]
    BY <1>3 DEF acquire_reserved, Lowest
  <2>2. s \in Slots /\ sequences[s] \in SequenceState
    BY <1>3 DEF PoolInv, TypeOK
  <2>3. /\ i(s).block_table = sequences[s].block_table
        /\ i(s).retry_blocks = sequences[s].retry_blocks
        /\ i(s) \in SequenceState
    <3>1. sequences[s].generation + 1 \in Nat
      BY <2>2 DEF SequenceState
    <3> QED BY <2>2, <3>1 DEF SequenceState
  <2> HIDE DEF i
  <2>4. p(s).block_table = i(s).block_table /\ p(s).retry_blocks = i(s).retry_blocks
    BY <2>3 DEF take_reserved_blocks, SequenceState
  <2> HIDE DEF p
  <2>5. Keeps(sequences[s], p(s))
    BY <1>1, <2>2, <2>3, <2>4
  <2> QED BY <1>2, <1>3, <2>1, <2>2, <2>5
<1>4. ASSUME PoolInv, NEW h \in issued, NEW n \in Tokens, reserve_capacity(h, n)
      PROVE  A
  <2> DEFINE q == sequences[h.slot]
             p == reserve(q, free_blocks, n).seq
  <2>1. h.slot \in Slots /\ q \in SequenceState
    BY <1>4, HandleSlot, SlotFacts
  <2>2. p.block_table = q.block_table /\ p.retry_blocks = q.retry_blocks
    BY <2>1 DEF reserve, take_reserved_blocks, SequenceState
  <2>3. sequences' = [sequences EXCEPT ![h.slot] = p]
    BY <1>4 DEF reserve_capacity
  <2> HIDE DEF p
  <2> QED BY <1>1, <1>2, <1>4, <2>1, <2>2, <2>3
<1>5. ASSUME PoolInv, NEW h \in issued, NEW n \in Tokens, append(h, n)
      PROVE  A
  <2> DEFINE q == sequences[h.slot]
             len == AddU32(q.kv_seq_len, n)
             g == extend_block_table(q, free_blocks, blocks_for_tokens(len))
             p == appended(q, free_blocks, n).seq
  <2>1. h.slot \in Slots /\ q \in SequenceState /\ HeldOnce(q)
        /\ Held(q) \cap free_blocks = {} /\ free_blocks \in SUBSET Blocks /\ TableFits(q)
        /\ owned_block_count(q) \in Nat /\ Cardinality(free_blocks) \in Nat
    BY <1>5, HandleSlot, SlotFacts
  <2>2. n # 0 /\ append_status(q, free_blocks, n) = "Ok"
        /\ sequences' = [sequences EXCEPT ![h.slot] = p]
    BY <1>5 DEF append
  <2>3. /\ ~ (n > MaxU32 - q.kv_seq_len)
        /\ ~ (blocks_for_tokens(len) > owned_block_count(q) + Cardinality(free_blocks))
    BY <2>2 DEF append_status
  <2>4. len \in Nat /\ q.kv_seq_len \in Nat /\ q.kv_seq_len <= len
    <3>1. q.kv_seq_len \in Tokens /\ MaxU32 \in Nat
      BY <2>1, PoolDimensions DEF SequenceState
    <3> HIDE DEF q
    <3> QED BY <2>3, <3>1 DEF AddU32, Tokens
  <2> HIDE DEF len
  <2>5. blocks_for_tokens(len) \in Nat
    BY <2>4, BlocksForTokensType
  <2>6. Len(q.block_table) <= blocks_for_tokens(len)
    BY <2>1, <2>4, BlocksForTokensMonotone DEF TableFits
  <2>7. blocks_for_tokens(len) <= owned_block_count(q) + Cardinality(free_blocks)
    BY <2>1, <2>3, <2>5
  <2>8. IsPrefix(Layout(q), Layout(g.seq)) /\ g.seq \in SequenceState
    BY <2>1, <2>5, <2>6, <2>7, ExtendLayout, ExtendProps DEF Transfers
  <2>9. p.block_table = g.seq.block_table /\ p.retry_blocks = g.seq.retry_blocks
    <3>1. appended(q, free_blocks, n) = [g EXCEPT !.seq.kv_seq_len = len]
      BY DEF appended, len
    <3>2. \E a, f : g = [seq |-> a, free |-> f]
      BY DEF extend_block_table
    <3> HIDE DEF g
    <3>3. p = [g.seq EXCEPT !.kv_seq_len = len]
      BY <3>1, <3>2
    <3> QED BY <2>8, <3>3 DEF SequenceState
  <2>10. Layout(p) = Layout(g.seq)
    BY <2>9 DEF Layout
  <2> HIDE DEF p
  <2>11. Keeps(q, p)
    BY <2>8, <2>10 DEF Keeps
  <2> QED BY <1>2, <1>5, <2>1, <2>2, <2>11
<1>6. ASSUME PoolInv, NEW h \in issued, NEW n \in Tokens, rollback_append(h, n)
      PROVE  A
  <2>1. h.slot \in Slots /\ n <= sequences[h.slot].kv_seq_len
        /\ sequences' = [sequences EXCEPT ![h.slot] = rolled_back(sequences[h.slot], n)]
    BY <1>6, HandleSlot DEF rollback_append
  <2>2. Keeps(sequences[h.slot], rolled_back(sequences[h.slot], n))
    BY <1>6, <2>1, SlotFacts, RollbackLayout DEF Keeps
  <2> QED BY <1>2, <1>6, <2>1, <2>2
<1>7. ASSUME PoolInv, NEW h \in issued, clear(h) \/ release(h)
      PROVE  A
  <2> DEFINE q == sequences[h.slot]
             r == cleared(q, free_blocks)
             p == [r.seq EXCEPT !.request_id = NoRequest, !.active = FALSE]
  <2>1. h.slot \in Slots /\ q \in SequenceState /\ HeldOnce(q) /\ free_blocks \in SUBSET Blocks
    BY <1>7, HandleSlot, SlotFacts
  <2>2. Held(r.seq) = {} /\ r.seq \in SequenceState
    BY <2>1, ClearProps DEF Transfers
  <2>3. \/ sequences' = [sequences EXCEPT ![h.slot] = r.seq]
        \/ sequences' = [sequences EXCEPT ![h.slot] = p]
    BY <1>7 DEF clear, release
  <2> HIDE DEF r
  <2>4. Held(p) = {}
    BY <2>2 DEF Held, SequenceState
  <2>5. Keeps(q, r.seq) /\ Keeps(q, p)
    BY <2>2, <2>4 DEF Keeps
  <2> QED BY <1>2, <1>7, <2>1, <2>3, <2>5
<1>8. ASSUME PoolInv, reset PROVE A
  <2> SUFFICES ASSUME NEW s \in Slots PROVE Held(sequences'[s]) = {}
    BY DEF Keeps
  <2>1. Range(<<>>) = {}
    BY DEF Range
  <2>2. sequences'[s].block_table = <<>> /\ sequences'[s].retry_blocks = <<>>
        /\ sequences'[s].reserved_blocks = {}
    <3>1. sequences[s] \in SequenceState
      BY <1>8, SlotFacts
    <3>2. sequences'[s] = [sequences[s] EXCEPT !.request_id = NoRequest, !.kv_seq_len = 0,
            !.active = FALSE, !.block_table = <<>>, !.retry_blocks = <<>>,
            !.reserved_blocks = {}]
      BY <1>8 DEF reset
    <3> QED BY <3>1, <3>2 DEF SequenceState
  <2> QED BY <2>1, <2>2 DEF Held
<1>9. PoolInv /\ [Next]_poolVars => [A]_poolVars
  BY <1>3, <1>4, <1>5, <1>6, <1>7, <1>8 DEF Next
<1>10. PoolInv /\ [Next]_poolVars =>
         [\A s \in Slots :
            \/ IsPrefix(Layout(sequences[s]), Layout(sequences'[s]))
            \/ Held(sequences'[s]) = {}]_poolVars
  BY <1>9 DEF Keeps
<1> QED BY <1>10, PoolInvariant, PTL DEF Spec, RetryReproducesRows

-----------------------------------------------------------------------------
(* PagedKvPool implements SlotKv: seen as counts of owned and of free      *)
(* blocks (CountsView), each of the pool's methods is the method of the    *)
(* same name of the interface the slot manager is written against.         *)

(* What the interface shows of a sequence. *)
Entry(q) == [request_id |-> q.request_id, kv_seq_len |-> q.kv_seq_len,
             owned |-> owned_block_count(q)]

LEMMA SameBlockCount ==
  ASSUME NEW n
  PROVE  SlotKvView!blocks_for_tokens(n) = blocks_for_tokens(n)
BY DEF SlotKvView!blocks_for_tokens, blocks_for_tokens

LEMMA SameConstants ==
  /\ SlotKvView!Slots = Slots
  /\ SlotKvView!Tokens = Tokens
  /\ SlotKvView!NoRequest = NoRequest
BY DEF SlotKvView!Slots, Slots, SlotKvView!Tokens, Tokens, SlotKvView!NoRequest, NoRequest

(* The parts of the view. *)
LEMMA ViewParts ==
  ASSUME PoolInv
  PROVE  /\ CountsView = [seqs |-> [s \in Slots |-> Entry(sequences[s])],
                          free |-> Cardinality(free_blocks)]
         /\ CountsView.seqs \in [Slots -> [request_id : RequestIds \cup {NoRequest},
                                           kv_seq_len : Tokens, owned : Nat]]
         /\ \A s \in Slots : CountsView.seqs[s] = Entry(sequences[s])
         /\ CountsView.free = Cardinality(free_blocks)
         /\ CountsView.free \in Nat
         /\ \A s \in Slots : owned_block_count(sequences[s]) \in Nat
<1>1. CountsView = [seqs |-> [s \in Slots |-> Entry(sequences[s])],
                    free |-> Cardinality(free_blocks)]
  BY DEF CountsView, Entry
<1>2. Cardinality(free_blocks) \in Nat
  BY FreeListFinite DEF PoolInv, TypeOK
<1>3. \A s \in Slots : owned_block_count(sequences[s]) \in Nat
  BY SlotFacts, OwnedCountsHeld
<1>4. \A s \in Slots : Entry(sequences[s]) \in [request_id : RequestIds \cup {NoRequest},
                                                kv_seq_len : Tokens, owned : Nat]
  BY <1>3, SlotFacts DEF Entry, SequenceState
<1> QED BY <1>1, <1>2, <1>3, <1>4

(* A method that touches one sequence changes one entry of the view. *)
LEMMA ViewAfter ==
  ASSUME PoolInv, NEW s \in Slots, NEW p, NEW f,
         sequences' = [sequences EXCEPT ![s] = p], free_blocks' = f
  PROVE  CountsView' = [seqs |-> [CountsView.seqs EXCEPT ![s] = Entry(p)],
                        free |-> Cardinality(f)]
<1>1. sequences \in [Slots -> SequenceState]
  BY DEF PoolInv, TypeOK
<1>2. CountsView' = [seqs |-> [t \in Slots |-> Entry(sequences'[t])],
                     free |-> Cardinality(free_blocks')]
  BY DEF CountsView, Entry
<1>3. \A t \in Slots : Entry(sequences'[t]) = IF t = s THEN Entry(p) ELSE Entry(sequences[t])
  BY <1>1
<1>4. [t \in Slots |-> Entry(sequences'[t])] = [CountsView.seqs EXCEPT ![s] = Entry(p)]
  BY <1>3, ViewParts
<1> QED BY <1>2, <1>4

(* Blocks only move between the sequence and the free list. *)
LEMMA CountsConserved ==
  ASSUME NEW q \in SequenceState, NEW free \in SUBSET Blocks,
         HeldOnce(q), Held(q) \cap free = {}, NEW r, Transfers(q, free, r)
  PROVE  /\ owned_block_count(r.seq) + Cardinality(r.free)
              = owned_block_count(q) + Cardinality(free)
         /\ owned_block_count(r.seq) \in Nat /\ Cardinality(r.free) \in Nat
         /\ owned_block_count(q) \in Nat /\ Cardinality(free) \in Nat
<1>1. /\ r.seq \in SequenceState /\ r.free \in SUBSET Blocks /\ HeldOnce(r.seq)
      /\ Held(r.seq) \cap r.free = {} /\ Held(r.seq) \cup r.free = Held(q) \cup free
  BY DEF Transfers
<1>2. /\ IsFiniteSet(Held(q)) /\ owned_block_count(q) = Cardinality(Held(q))
      /\ owned_block_count(q) \in Nat
  BY OwnedCountsHeld
<1>3. /\ IsFiniteSet(Held(r.seq)) /\ owned_block_count(r.seq) = Cardinality(Held(r.seq))
      /\ owned_block_count(r.seq) \in Nat
  BY <1>1, OwnedCountsHeld
<1>4. /\ IsFiniteSet(free) /\ Cardinality(free) \in Nat
      /\ IsFiniteSet(r.free) /\ Cardinality(r.free) \in Nat
  BY <1>1, FreeListFinite
<1>5. Cardinality(Held(q) \cup free) = Cardinality(Held(q)) + Cardinality(free)
  BY <1>2, <1>4, DisjointUnion
<1>6. Cardinality(Held(r.seq) \cup r.free) = Cardinality(Held(r.seq)) + Cardinality(r.free)
  BY <1>1, <1>3, <1>4, DisjointUnion
<1> QED BY <1>1, <1>2, <1>3, <1>4, <1>5, <1>6

(* The request a live entry carries. *)
LEMMA ViewLive ==
  ASSUME PoolInv, VacantSlotsBlank, NEW s \in Slots
  PROVE  SlotKvView!live(CountsView, s) <=> sequences[s].active
BY ViewParts DEF SlotKvView!live, SlotKvView!NoRequest, VacantSlotsBlank, NoRequest, Entry

(* What a sequence lacks. *)
LEMMA ViewShortfall ==
  ASSUME PoolInv, NEW s \in Slots, NEW n
  PROVE  SlotKvView!shortfall(CountsView, s, n)
           = IF blocks_for_tokens(n) > owned_block_count(sequences[s])
             THEN blocks_for_tokens(n) - owned_block_count(sequences[s]) ELSE 0
BY ViewParts, SameBlockCount DEF SlotKvView!shortfall, SlotKvView!owned_block_count, Entry

(* The k blocks at the front of a growth order a \o (v \o f): they are all   *)
(* from a and v while those suffice, and include all of v once they do not. *)
LEMMA FrontOfOrder ==
  ASSUME NEW S, NEW a \in Seq(S), NEW v \in Seq(S), NEW f \in Seq(S),
         NEW k \in 0 .. Len(a) + (Len(v) + Len(f))
  PROVE  LET taken == SubSeq(a \o (v \o f), 1, k)
         IN  /\ taken \in Seq(S) /\ Len(taken) = k
             /\ k <= Len(a) + Len(v) => Range(taken) \subseteq Range(a) \cup Range(v)
             /\ k > Len(a) + Len(v) => Range(v) \subseteq Range(taken)
<1> DEFINE w == v \o f
           G == a \o w
           taken == SubSeq(G, 1, k)
<1>1. /\ Len(a) \in Nat /\ Len(v) \in Nat /\ Len(f) \in Nat
      /\ DOMAIN a = 1 .. Len(a) /\ DOMAIN v = 1 .. Len(v)
  BY LenProperties
<1>2. /\ w \in Seq(S) /\ Len(w) = Len(v) + Len(f)
      /\ \A i \in 1 .. Len(v) : w[i] = v[i]
  <2>1. /\ w \in Seq(S) /\ Len(w) = Len(v) + Len(f)
        /\ \A i \in 1 .. Len(v) + Len(f) : w[i] = IF i <= Len(v) THEN v[i] ELSE f[i - Len(v)]
    BY ConcatProperties
  <2> QED BY <1>1, <2>1
<1> HIDE DEF w
<1>3. /\ G \in Seq(S) /\ Len(G) = Len(a) + Len(w)
      /\ \A i \in 1 .. Len(a) : G[i] = a[i]
      /\ \A i \in 1 .. Len(v) : G[Len(a) + i] = v[i]
  <2>0. w \in Seq(S)
    BY <1>2
  <2>1. /\ G \in Seq(S) /\ Len(G) = Len(a) + Len(w)
        /\ \A i \in 1 .. Len(a) + Len(w) : G[i] = IF i <= Len(a) THEN a[i] ELSE w[i - Len(a)]
    BY <2>0, ConcatProperties
  <2> HIDE DEF G
  <2>2. \A i \in 1 .. Len(a) : G[i] = a[i]
    BY <1>1, <1>2, <2>1
  <2>3. ASSUME NEW i \in 1 .. Len(v) PROVE G[Len(a) + i] = v[i]
    <3>1. /\ Len(a) + i \in 1 .. Len(a) + Len(w) /\ ~ (Len(a) + i <= Len(a))
          /\ Len(a) + i - Len(a) = i
      BY <1>1, <1>2
    <3> QED BY <1>2, <2>1, <3>1
  <2> QED BY <2>1, <2>2, <2>3
<1> HIDE DEF G
<1>4. k \in 0 .. Len(G)
  BY <1>1, <1>2, <1>3
<1>5. taken \in Seq(S) /\ Len(taken) = k /\ Range(taken) = {G[i] : i \in 1 .. k}
  <2>1. G \in Seq(S)
    BY <1>3
  <2> QED BY <1>4, <2>1, CutProps
<1> HIDE DEF taken
<1>6. ASSUME k <= Len(a) + Len(v), NEW i \in 1 .. k PROVE G[i] \in Range(a) \cup Range(v)
  <2>1. CASE i <= Len(a)
    <3>1. i \in 1 .. Len(a)
      BY <1>1, <2>1
    <3> QED BY <1>1, <1>3, <3>1 DEF Range
  <2>2. CASE i > Len(a)
    <3>1. i - Len(a) \in 1 .. Len(v) /\ Len(a) + (i - Len(a)) = i
      BY <1>1, <1>6, <2>2
    <3>2. G[i] = v[i - Len(a)]
      BY <1>3, <3>1
    <3> QED BY <1>1, <3>1, <3>2 DEF Range
  <2> QED BY <1>1, <2>1, <2>2
<1>7. ASSUME k > Len(a) + Len(v), NEW i \in 1 .. Len(v) PROVE v[i] \in Range(taken)
  <2>1. Len(a) + i \in 1 .. k
    BY <1>1, <1>7
  <2> QED BY <1>3, <1>5, <2>1
<1>8. k <= Len(a) + Len(v) => Range(taken) \subseteq Range(a) \cup Range(v)
  BY <1>5, <1>6
<1>9. k > Len(a) + Len(v) => Range(v) \subseteq Range(taken)
  BY <1>1, <1>7 DEF Range
<1> QED BY <1>5, <1>8, <1>9 DEF taken, G, w

(* Growth uses what the sequence holds before it takes from the free list: *)
(* it ends up owning what it owned, or exactly what it needs if that is     *)
(* more. *)
LEMMA ExtendOwned ==
  ASSUME NEW q \in SequenceState, NEW free \in SUBSET Blocks,
         HeldOnce(q), Held(q) \cap free = {},
         NEW required \in Nat, Len(q.block_table) <= required,
         required <= owned_block_count(q) + Cardinality(free)
  PROVE  owned_block_count(extend_block_table(q, free, required).seq)
           = IF required > owned_block_count(q) THEN required ELSE owned_block_count(q)
<1> DEFINE r == extend_block_table(q, free, required)
           own == owned_block_count(q)
           t == Len(q.block_table)
           y == Len(q.retry_blocks)
           c == Cardinality(q.reserved_blocks)
           k == required - t
           a == Reverse(q.retry_blocks)
           v == Ascending(q.reserved_blocks)
           f == Ascending(free)
           taken == SubSeq(a \o (v \o f), 1, k)
<1>1. /\ q.block_table \in Seq(Blocks) /\ q.retry_blocks \in Seq(Blocks)
      /\ q.reserved_blocks \in SUBSET Blocks
      /\ t \in Nat /\ y \in Nat
  BY DEF SequenceState
<1>2. c \in Nat /\ Cardinality(free) \in Nat
  BY <1>1, FreeListFinite
<1>3. own = t + y + c
  BY DEF owned_block_count
<1>4. Transfers(q, free, r) /\ Len(r.seq.block_table) = required
  BY ExtendProps
<1>5. /\ owned_block_count(r.seq) + Cardinality(r.free) = own + Cardinality(free)
      /\ owned_block_count(r.seq) \in Nat /\ own \in Nat
  <2> HIDE DEF r
  <2> QED BY <1>4, CountsConserved
<1>6. k > 0 => /\ r.seq = [q EXCEPT !.block_table = @ \o taken,
                             !.retry_blocks = SubSeq(@, 1, y - k),
                             !.reserved_blocks = @ \ Range(taken)]
               /\ r.free = free \ Range(taken)
  BY <1>1 DEF extend_block_table, GrowthOrder
<1>7. k = 0 => r = [seq |-> q, free |-> free]
  BY <1>1 DEF extend_block_table
<1>8. k \in Nat /\ k <= y + (c + Cardinality(free)) /\ required = t + k
  <2>1. t <= required /\ required <= own + Cardinality(free)
    OBVIOUS
  <2> HIDE DEF own, t, y, c
  <2> QED BY <1>1, <1>2, <1>3, <2>1
<1>9. a \in Seq(Blocks) /\ Len(a) = y /\ Range(a) = Range(q.retry_blocks)
  BY <1>1, ReverseProps
<1>10. ASSUME NEW S \in SUBSET Blocks
       PROVE  /\ Ascending(S) \in Seq(Blocks) /\ Len(Ascending(S)) = Cardinality(S)
              /\ Range(Ascending(S)) = S
  <2>1. IsFiniteSet(S) /\ S \in SUBSET Int
    BY FreeListFinite
  <2> QED BY <2>1, AscendingProps, SeqMonotonic
<1>11. /\ v \in Seq(Blocks) /\ Len(v) = c /\ Range(v) = q.reserved_blocks
       /\ f \in Seq(Blocks) /\ Len(f) = Cardinality(free)
  BY <1>1, <1>10
<1> HIDE DEF r, a, v, f, k, t, y, c, own
<1>12. k \in 0 .. Len(a) + (Len(v) + Len(f))
  BY <1>1, <1>2, <1>8, <1>9, <1>11
<1>13. /\ taken \in Seq(Blocks) /\ Len(taken) = k
       /\ k <= Len(a) + Len(v) => Range(taken) \subseteq Range(a) \cup Range(v)
       /\ k > Len(a) + Len(v) => Range(v) \subseteq Range(taken)
  BY <1>9, <1>11, <1>12, FrontOfOrder
<1> HIDE DEF taken
<1>14. CASE k <= y + c
  <2>1. r.free = free
    <3>1. CASE k = 0
      BY <1>7, <3>1
    <3>2. CASE k > 0
      <4>1. Range(taken) \subseteq Range(q.retry_blocks) \cup q.reserved_blocks
        BY <1>9, <1>11, <1>13, <1>14
      <4>2. Range(taken) \cap free = {}
        BY <4>1 DEF Held
      <4> QED BY <1>6, <3>2, <4>2
    <3> QED BY <1>8, <3>1, <3>2
  <2>2. owned_block_count(r.seq) = own
    BY <1>2, <1>5, <2>1
  <2>3. ~ (required > own)
    BY <1>1, <1>2, <1>3, <1>8, <1>14
  <2> QED BY <2>2, <2>3 DEF r, own
<1>15. CASE k > y + c
  <2>1. k > 0 /\ k \in Nat
    BY <1>1, <1>2, <1>8, <1>15
  <2>2. /\ r.seq.retry_blocks = SubSeq(q.retry_blocks, 1, y - k)
        /\ r.seq.reserved_blocks = q.reserved_blocks \ Range(taken)
    BY <1>6, <2>1 DEF SequenceState
  <2>3. SubSeq(q.retry_blocks, 1, y - k) = << >>
    <3>1. y - k \in Int /\ y - k < 1 /\ 1 \in Int
      BY <1>1, <1>2, <1>15, <2>1
    <3> QED BY <3>1, SubSeqEmpty
  <2>4. r.seq.reserved_blocks = {}
    BY <1>9, <1>11, <1>13, <1>15, <2>2
  <2>5. owned_block_count(r.seq) = required + 0 + 0
    <3>1. Len(<< >>) = 0 /\ Cardinality({}) = 0
      BY FS_EmptySet
    <3> QED BY <1>4, <2>2, <2>3, <2>4, <3>1 DEF owned_block_count
  <2>6. required > own
    BY <1>1, <1>2, <1>3, <1>8, <1>15
  <2> QED BY <2>5, <2>6 DEF r, own
<1> QED BY <1>1, <1>2, <1>8, <1>14, <1>15

-----------------------------------------------------------------------------
(* Vacant slots stay blank.                                                *)

(* A method that touches one sequence has to look at that one only. *)
LEMMA BlankStep ==
  ASSUME PoolInv, VacantSlotsBlank, NEW s \in Slots, NEW p,
         sequences' = [sequences EXCEPT ![s] = p],
         p.active <=> p.request_id # NoRequest,
         ~ p.active => Held(p) = {} /\ p.kv_seq_len = 0
  PROVE  VacantSlotsBlank'
<1>1. \A t \in Slots : sequences'[t] = IF t = s THEN p ELSE sequences[t]
  BY DEF PoolInv, TypeOK
<1> QED BY <1>1 DEF VacantSlotsBlank

(* A method of an owned sequence leaves it owned by the same request. *)
LEMMA BlankMethod ==
  ASSUME PoolInv, VacantSlotsBlank, NEW s \in Slots, sequences[s].active, NEW p,
         SameOwner(sequences[s], p), sequences' = [sequences EXCEPT ![s] = p]
  PROVE  VacantSlotsBlank'
<1>1. p.active /\ p.request_id # NoRequest
  BY DEF SameOwner, VacantSlotsBlank
<1> QED BY <1>1, BlankStep

(* What a caller with a valid handle finds in its slot. *)
LEMMA ValidSlot ==
  ASSUME PoolInv, VacantSlotsBlank, NEW h \in issued, validate(h)
  PROVE  /\ h.slot \in Slots /\ sequences[h.slot].active
         /\ SlotKvView!live(CountsView, h.slot)
BY HandleSlot, ViewLive DEF validate

-----------------------------------------------------------------------------
(* Each method is the interface's method of the same name.                 *)

LEMMA ReserveView ==
  ASSUME PoolInv, VacantSlotsBlank,
         NEW h \in issued, NEW n \in Tokens, reserve_capacity(h, n)
  PROVE  VacantSlotsBlank' /\ SlotKvView!KvStep(CountsView, CountsView')
<1> DEFINE s == h.slot
           q == sequences[s]
           owned == owned_block_count(q)
           target == blocks_for_tokens(n)
           r == reserve(q, free_blocks, n)
           K == CountsView
           L == CountsView'
           need == SlotKvView!shortfall(K, s, n)
<1>1. validate(h) /\ s \in Slots /\ q.active /\ SlotKvView!live(K, s)
  BY ValidSlot DEF reserve_capacity
<1>2. /\ q \in SequenceState /\ HeldOnce(q) /\ Held(q) \cap free_blocks = {}
      /\ free_blocks \in SUBSET Blocks /\ owned \in Nat /\ Cardinality(free_blocks) \in Nat
  BY <1>1, SlotFacts
<1>3. n \in Nat /\ target \in Nat
  BY BlocksForTokensType DEF Tokens
<1>4. target <= owned + Cardinality(free_blocks)
  BY DEF reserve_capacity, reserve_status
<1>5. sequences' = [sequences EXCEPT ![s] = r.seq] /\ free_blocks' = r.free
  BY DEF reserve_capacity
<1>6. need = IF target > owned THEN target - owned ELSE 0
  BY <1>1, ViewShortfall
<1>7. /\ need \in Nat /\ need <= Cardinality(free_blocks)
      /\ SameOwner(q, r.seq) /\ r.seq.kv_seq_len = q.kv_seq_len
      /\ owned_block_count(r.seq) = owned + need
      /\ Cardinality(r.free) = Cardinality(free_blocks) - need
  <2> HIDE DEF need
  <2>1. CASE target <= owned
    <3>1. r.seq = q /\ r.free = free_blocks
      BY <2>1 DEF reserve
    <3> QED BY <1>2, <1>3, <1>6, <2>1, <3>1 DEF SameOwner
  <2>2. CASE target > owned
    <3>1. need = target - owned /\ need \in 0 .. Cardinality(free_blocks)
      BY <1>2, <1>3, <1>4, <1>6, <2>2
    <3>2. r = take_reserved_blocks(q, free_blocks, need)
      BY <1>2, <1>3, <2>2, <3>1 DEF reserve
    <3> HIDE DEF r, owned, target
    <3>3. /\ Transfers(q, free_blocks, r) /\ SameOwner(q, r.seq)
          /\ r.seq.kv_seq_len = q.kv_seq_len
          /\ owned_block_count(r.seq) = owned_block_count(q) + need
      BY <1>2, <3>1, <3>2, TakeReservedProps
    <3>4. /\ owned_block_count(r.seq) + Cardinality(r.free)
                = owned_block_count(q) + Cardinality(free_blocks)
          /\ Cardinality(r.free) \in Nat
      BY <1>2, <3>3, CountsConserved
    <3>5. owned = owned_block_count(q)
      BY DEF owned
    <3> QED BY <1>2, <3>1, <3>3, <3>4, <3>5
  <2> QED BY <1>2, <1>3, <2>1, <2>2
<1> HIDE DEF r, need, K, L
<1>8. VacantSlotsBlank'
  BY <1>1, <1>5, <1>7, BlankMethod
<1>9. L = [seqs |-> [K.seqs EXCEPT ![s] = Entry(r.seq)], free |-> Cardinality(r.free)]
  BY <1>1, <1>5, ViewAfter DEF K, L
<1>10. K.seqs[s] = Entry(q) /\ K.free = Cardinality(free_blocks)
  BY <1>1, ViewParts DEF K
<1>11. [Entry(q) EXCEPT !.owned = @ + need] = Entry(r.seq)
  BY <1>7 DEF Entry, SameOwner
<1>12. L = SlotKvView!reserve_capacity(K, s, n)
  BY <1>7, <1>9, <1>10, <1>11 DEF SlotKvView!reserve_capacity, need
<1>13. SlotKvView!reserve_capacity_ok(K, s, n)
  BY <1>1, <1>7, <1>10 DEF SlotKvView!reserve_capacity_ok, need
<1>14. SlotKvView!KvStep(K, L)
  BY <1>1, <1>12, <1>13, SameConstants DEF SlotKvView!KvStep
<1> QED BY <1>8, <1>14 DEF K, L

LEMMA AppendView ==
  ASSUME PoolInv, VacantSlotsBlank,
         NEW h \in issued, NEW n \in Tokens, append(h, n)
  PROVE  VacantSlotsBlank' /\ SlotKvView!KvStep(CountsView, CountsView')
<1> DEFINE s == h.slot
           q == sequences[s]
           len == q.kv_seq_len + n
           owned == owned_block_count(q)
           target == blocks_for_tokens(len)
           g == extend_block_table(q, free_blocks, target)
           r == appended(q, free_blocks, n)
           K == CountsView
           L == CountsView'
           need == SlotKvView!shortfall(K, s, len)
<1>1. validate(h) /\ s \in Slots /\ q.active /\ SlotKvView!live(K, s)
  BY ValidSlot DEF append
<1>2. /\ q \in SequenceState /\ HeldOnce(q) /\ Held(q) \cap free_blocks = {} /\ TableFits(q)
      /\ free_blocks \in SUBSET Blocks /\ owned \in Nat /\ Cardinality(free_blocks) \in Nat
  BY <1>1, SlotFacts
<1>3. /\ n # 0 /\ append_status(q, free_blocks, n) = "Ok"
      /\ sequences' = [sequences EXCEPT ![s] = r.seq] /\ free_blocks' = r.free
  BY DEF append
<1>4. /\ AddU32(q.kv_seq_len, n) = len /\ len \in Nat /\ len <= MaxU32
      /\ q.kv_seq_len \in Nat /\ q.kv_seq_len <= len
  <2>1. q.kv_seq_len \in Tokens /\ MaxU32 \in Nat
    BY <1>2, PoolDimensions DEF SequenceState
  <2>2. ~ (n > MaxU32 - q.kv_seq_len)
    BY <1>3 DEF append_status
  <2> QED BY <2>1, <2>2 DEF AddU32, Tokens
<1> HIDE DEF len
<1>5. target \in Nat /\ Len(q.block_table) <= target
  <2>1. target \in Nat /\ blocks_for_tokens(q.kv_seq_len) <= target
    BY <1>4, BlocksForTokensType, BlocksForTokensMonotone
  <2> QED BY <1>2, <2>1 DEF TableFits
<1>6. target <= owned + Cardinality(free_blocks)
  <2>1. ~ (blocks_for_tokens(AddU32(q.kv_seq_len, n)) > owned + Cardinality(free_blocks))
    BY <1>3 DEF append_status
  <2> HIDE DEF target, owned
  <2>2. ~ (target > owned + Cardinality(free_blocks))
    BY <1>4, <2>1 DEF target
  <2> QED BY <1>2, <1>5, <2>2
<1>7. /\ Transfers(q, free_blocks, r) /\ SameOwner(q, r.seq)
      /\ r.seq.kv_seq_len = q.kv_seq_len + n
  BY <1>2, <1>3, AppendProps
<1>8. owned_block_count(g.seq) = IF target > owned THEN target ELSE owned
  BY <1>2, <1>5, <1>6, ExtendOwned
<1>9. owned_block_count(r.seq) = owned_block_count(g.seq)
  <2>1. r = [g EXCEPT !.seq.kv_seq_len = len]
    BY <1>4 DEF appended
  <2>2. \E p, f : g = [seq |-> p, free |-> f]
    BY DEF extend_block_table
  <2>3. g.seq \in SequenceState
    BY <1>2, <1>5, <1>6, ExtendProps DEF Transfers
  <2> HIDE DEF g, r
  <2>4. r.seq = [g.seq EXCEPT !.kv_seq_len = len]
    BY <2>1, <2>2
  <2>5. /\ r.seq.block_table = g.seq.block_table /\ r.seq.retry_blocks = g.seq.retry_blocks
        /\ r.seq.reserved_blocks = g.seq.reserved_blocks
    BY <2>3, <2>4 DEF SequenceState
  <2> QED BY <2>5 DEF owned_block_count
<1>10. need = IF target > owned THEN target - owned ELSE 0
  BY <1>1, ViewShortfall
<1> HIDE DEF r, g, need, K, L, target
<1>11. /\ owned_block_count(r.seq) + Cardinality(r.free) = owned + Cardinality(free_blocks)
       /\ owned_block_count(r.seq) \in Nat /\ Cardinality(r.free) \in Nat
  BY <1>2, <1>7, CountsConserved
<1>12. /\ need \in Nat /\ need <= Cardinality(free_blocks)
       /\ owned_block_count(r.seq) = owned + need
       /\ Cardinality(r.free) = Cardinality(free_blocks) - need
  <2> HIDE DEF owned
  <2> QED BY <1>2, <1>5, <1>6, <1>8, <1>9, <1>10, <1>11
<1>13. VacantSlotsBlank'
  BY <1>1, <1>3, <1>7, BlankMethod
<1>14. L = [seqs |-> [K.seqs EXCEPT ![s] = Entry(r.seq)], free |-> Cardinality(r.free)]
  BY <1>1, <1>3, ViewAfter DEF K, L
<1>15. /\ K.seqs[s] = Entry(q) /\ K.free = Cardinality(free_blocks)
       /\ K.seqs \in [Slots -> [request_id : RequestIds \cup {NoRequest},
                                kv_seq_len : Tokens, owned : Nat]]
  BY <1>1, ViewParts DEF K
<1>16. K.seqs[s].kv_seq_len + n = len
  BY <1>15 DEF Entry, len
<1>17. Entry(r.seq) = [request_id |-> q.request_id, kv_seq_len |-> q.kv_seq_len + n,
                       owned |-> owned + need]
  BY <1>7, <1>12 DEF Entry, SameOwner
<1>18. [K.seqs EXCEPT ![s].owned = @ + need, ![s].kv_seq_len = @ + n]
         = [K.seqs EXCEPT ![s] = Entry(r.seq)]
  <2> DEFINE e == [request_id |-> q.request_id, kv_seq_len |-> q.kv_seq_len,
                   owned |-> owned + need]
             F == [K.seqs EXCEPT ![s].owned = @ + need]
  <2>1. F = [K.seqs EXCEPT ![s] = e]
    BY <1>15 DEF Entry
  <2>2. F[s] = e /\ [F EXCEPT ![s] = Entry(r.seq)] = [K.seqs EXCEPT ![s] = Entry(r.seq)]
    BY <1>1, <1>15, <2>1
  <2>3. [e EXCEPT !.kv_seq_len = @ + n] = Entry(r.seq)
    BY <1>17
  <2>4. [F EXCEPT ![s].kv_seq_len = @ + n] = [F EXCEPT ![s] = Entry(r.seq)]
    <3> HIDE DEF F, e
    <3> QED BY <2>2, <2>3
  <2> QED BY <2>2, <2>4
<1>19. L = SlotKvView!append(K, s, n)
  BY <1>12, <1>14, <1>15, <1>16, <1>18 DEF SlotKvView!append, need
<1>20. SlotKvView!append_ok(K, s, n)
  BY <1>1, <1>4, <1>12, <1>15, <1>16 DEF SlotKvView!append_ok, need
<1>21. SlotKvView!KvStep(K, L)
  BY <1>1, <1>19, <1>20, SameConstants DEF SlotKvView!KvStep
<1> QED BY <1>13, <1>21 DEF K, L

LEMMA RollbackView ==
  ASSUME PoolInv, VacantSlotsBlank,
         NEW h \in issued, NEW n \in Tokens, rollback_append(h, n)
  PROVE  VacantSlotsBlank' /\ SlotKvView!KvStep(CountsView, CountsView')
<1> DEFINE s == h.slot
           q == sequences[s]
           p == rolled_back(q, n)
           K == CountsView
           L == CountsView'
<1>1. validate(h) /\ s \in Slots /\ q.active /\ SlotKvView!live(K, s)
  BY ValidSlot DEF rollback_append
<1>2. q \in SequenceState /\ HeldOnce(q) /\ TableFits(q)
  BY <1>1, SlotFacts
<1>3. /\ n <= q.kv_seq_len /\ sequences' = [sequences EXCEPT ![s] = p]
      /\ free_blocks' = free_blocks
  BY DEF rollback_append
<1>4. /\ p \in SequenceState /\ HeldOnce(p) /\ Held(p) = Held(q)
      /\ SameOwner(q, p) /\ p.kv_seq_len = q.kv_seq_len - n
  BY <1>2, <1>3, RollbackProps
<1>5. owned_block_count(p) = owned_block_count(q)
  BY <1>2, <1>4, OwnedCountsHeld
<1> HIDE DEF p, K, L
<1>6. VacantSlotsBlank'
  BY <1>1, <1>3, <1>4, BlankMethod
<1>7. L = [seqs |-> [K.seqs EXCEPT ![s] = Entry(p)], free |-> Cardinality(free_blocks)]
  BY <1>1, <1>3, ViewAfter DEF K, L
<1>8. /\ K.seqs[s] = Entry(q) /\ K.free = Cardinality(free_blocks)
      /\ K = [seqs |-> K.seqs, free |-> K.free]
  BY <1>1, ViewParts DEF K
<1>9. [Entry(q) EXCEPT !.kv_seq_len = @ - n] = Entry(p)
  BY <1>4, <1>5 DEF Entry, SameOwner
<1>10. SlotKvView!rollback_append(K, s, n)
         = [seqs |-> [K.seqs EXCEPT ![s].kv_seq_len = @ - n], free |-> K.free]
  BY <1>8 DEF SlotKvView!rollback_append
<1>11. L = SlotKvView!rollback_append(K, s, n)
  BY <1>7, <1>8, <1>9, <1>10
<1>12. SlotKvView!rollback_append_ok(K, s, n)
  BY <1>1, <1>3, <1>8 DEF SlotKvView!rollback_append_ok, Entry
<1>13. SlotKvView!KvStep(K, L)
  BY <1>1, <1>11, <1>12, SameConstants DEF SlotKvView!KvStep
<1> QED BY <1>6, <1>13 DEF K, L

(* Both clear and release give back every block of the sequence. *)
LEMMA ClearedCounts ==
  ASSUME PoolInv, NEW s \in Slots
  PROVE  LET r == cleared(sequences[s], free_blocks)
         IN  /\ owned_block_count(r.seq) = 0
             /\ Cardinality(r.free) = Cardinality(free_blocks) + owned_block_count(sequences[s])
<1> DEFINE q == sequences[s]
           r == cleared(q, free_blocks)
<1>1. /\ q \in SequenceState /\ HeldOnce(q) /\ Held(q) \cap free_blocks = {}
      /\ free_blocks \in SUBSET Blocks
  BY SlotFacts
<1>2. Transfers(q, free_blocks, r) /\ Held(r.seq) = {}
  BY <1>1, ClearProps
<1> HIDE DEF r
<1>3. r.seq \in SequenceState /\ HeldOnce(r.seq)
  BY <1>2 DEF Transfers
<1>4. owned_block_count(r.seq) = 0
  BY <1>2, <1>3, OwnedCountsHeld, FS_EmptySet
<1>5. /\ owned_block_count(r.seq) + Cardinality(r.free)
           = owned_block_count(q) + Cardinality(free_blocks)
      /\ Cardinality(r.free) \in Nat /\ owned_block_count(q) \in Nat
      /\ Cardinality(free_blocks) \in Nat
  BY <1>1, <1>2, CountsConserved
<1>6. Cardinality(r.free) = Cardinality(free_blocks) + owned_block_count(q)
  BY <1>4, <1>5
<1> QED BY <1>4, <1>6 DEF r

LEMMA ClearView ==
  ASSUME PoolInv, VacantSlotsBlank, NEW h \in issued, clear(h)
  PROVE  VacantSlotsBlank' /\ SlotKvView!KvStep(CountsView, CountsView')
<1> DEFINE s == h.slot
           q == sequences[s]
           r == cleared(q, free_blocks)
           K == CountsView
           L == CountsView'
<1>1. validate(h) /\ s \in Slots /\ q.active /\ SlotKvView!live(K, s)
  BY ValidSlot DEF clear
<1>2. q \in SequenceState /\ HeldOnce(q) /\ free_blocks \in SUBSET Blocks
  BY <1>1, SlotFacts
<1>3. sequences' = [sequences EXCEPT ![s] = r.seq] /\ free_blocks' = r.free
  BY DEF clear
<1>4. SameOwner(q, r.seq) /\ r.seq.kv_seq_len = 0
  BY <1>2, ClearProps
<1>5. /\ owned_block_count(r.seq) = 0
      /\ Cardinality(r.free) = Cardinality(free_blocks) + owned_block_count(q)
  BY <1>1, ClearedCounts
<1> HIDE DEF r, K, L
<1>6. VacantSlotsBlank'
  BY <1>1, <1>3, <1>4, BlankMethod
<1>7. L = [seqs |-> [K.seqs EXCEPT ![s] = Entry(r.seq)], free |-> Cardinality(r.free)]
  BY <1>1, <1>3, ViewAfter DEF K, L
<1>8. /\ K.seqs[s] = Entry(q) /\ K.free = Cardinality(free_blocks)
      /\ K.seqs \in [Slots -> [request_id : RequestIds \cup {NoRequest},
                               kv_seq_len : Tokens, owned : Nat]]
  BY <1>1, ViewParts DEF K
<1>9. Entry(r.seq) = [request_id |-> q.request_id, kv_seq_len |-> 0, owned |-> 0]
  BY <1>4, <1>5 DEF Entry, SameOwner
<1>10. [K.seqs EXCEPT ![s].owned = 0, ![s].kv_seq_len = 0]
         = [K.seqs EXCEPT ![s] = Entry(r.seq)]
  <2> DEFINE e == [request_id |-> q.request_id, kv_seq_len |-> q.kv_seq_len, owned |-> 0]
             F == [K.seqs EXCEPT ![s].owned = 0]
  <2>1. F = [K.seqs EXCEPT ![s] = e]
    BY <1>8 DEF Entry
  <2>2. F[s] = e /\ [F EXCEPT ![s] = Entry(r.seq)] = [K.seqs EXCEPT ![s] = Entry(r.seq)]
    BY <1>1, <1>8, <2>1
  <2>3. [e EXCEPT !.kv_seq_len = 0] = Entry(r.seq)
    BY <1>9
  <2>4. [F EXCEPT ![s].kv_seq_len = 0] = [F EXCEPT ![s] = Entry(r.seq)]
    <3> HIDE DEF F, e
    <3> QED BY <2>2, <2>3
  <2> QED BY <2>2, <2>4
<1>11. K.seqs[s].owned = owned_block_count(q)
  BY <1>8 DEF Entry
<1>12. L = SlotKvView!clear(K, s)
  BY <1>5, <1>7, <1>8, <1>10, <1>11 DEF SlotKvView!clear
<1>13. SlotKvView!KvStep(K, L)
  BY <1>1, <1>12, SameConstants DEF SlotKvView!KvStep
<1> QED BY <1>6, <1>13 DEF K, L

LEMMA ReleaseView ==
  ASSUME PoolInv, VacantSlotsBlank, NEW h \in issued, release(h)
  PROVE  VacantSlotsBlank' /\ SlotKvView!KvStep(CountsView, CountsView')
<1> DEFINE s == h.slot
           q == sequences[s]
           r == cleared(q, free_blocks)
           p == [r.seq EXCEPT !.request_id = NoRequest, !.active = FALSE]
           K == CountsView
           L == CountsView'
<1>1. validate(h) /\ s \in Slots /\ q.active /\ SlotKvView!live(K, s)
  BY ValidSlot DEF release
<1>2. q \in SequenceState /\ HeldOnce(q) /\ free_blocks \in SUBSET Blocks
  BY <1>1, SlotFacts
<1>3. sequences' = [sequences EXCEPT ![s] = p] /\ free_blocks' = r.free
  BY DEF release
<1>4. Transfers(q, free_blocks, r) /\ r.seq.kv_seq_len = 0 /\ Held(r.seq) = {}
  BY <1>2, ClearProps
<1>5. /\ owned_block_count(r.seq) = 0
      /\ Cardinality(r.free) = Cardinality(free_blocks) + owned_block_count(q)
  BY <1>1, ClearedCounts
<1> HIDE DEF r, K, L
<1>6. /\ p.active = FALSE /\ p.request_id = NoRequest /\ p.kv_seq_len = 0
      /\ p.block_table = r.seq.block_table /\ p.retry_blocks = r.seq.retry_blocks
      /\ p.reserved_blocks = r.seq.reserved_blocks
  BY <1>4 DEF Transfers, SequenceState
<1> HIDE DEF p
<1>7. Held(p) = {} /\ owned_block_count(p) = 0
  BY <1>4, <1>5, <1>6 DEF Held, owned_block_count
<1>8. VacantSlotsBlank'
  BY <1>1, <1>3, <1>6, <1>7, BlankStep
<1>9. L = [seqs |-> [K.seqs EXCEPT ![s] = Entry(p)], free |-> Cardinality(r.free)]
  BY <1>1, <1>3, ViewAfter DEF K, L
<1>10. K.free = Cardinality(free_blocks) /\ K.seqs[s].owned = owned_block_count(q)
  BY <1>1, ViewParts DEF K, Entry
<1>11. Entry(p) = SlotKvView!NoSequence
  BY <1>6, <1>7, SameConstants DEF Entry, SlotKvView!NoSequence
<1>12. L = SlotKvView!release(K, s)
  BY <1>5, <1>9, <1>10, <1>11 DEF SlotKvView!release
<1>13. SlotKvView!KvStep(K, L)
  BY <1>1, <1>12, SameConstants DEF SlotKvView!KvStep
<1> QED BY <1>8, <1>13 DEF K, L

(* take_lowest gives the lowest index. *)
LEMMA LowestOne ==
  ASSUME NEW S \in SUBSET Int, IsFiniteSet(S), NEW x \in Lowest(S, 1)
  PROVE  x \in S /\ \A y \in S : ~ (y < x)
<1>1. x \in S /\ Rank(x, S) < 1
  BY DEF Lowest
<1> DEFINE B == {y \in S : y < x}
<1>2. IsFiniteSet(B) /\ Cardinality(B) \in Nat
  <2>1. B \in SUBSET S
    OBVIOUS
  <2> QED BY <2>1, FS_Subset, FS_CardinalityType
<1>3. Cardinality(B) = 0
  BY <1>1, <1>2 DEF Rank
<1>4. B = {}
  BY <1>2, <1>3, FS_EmptySet
<1> QED BY <1>1, <1>4

LEMMA AcquireView ==
  ASSUME PoolInv, VacantSlotsBlank,
         NEW id \in RequestIds, NEW n \in Tokens, acquire_reserved(id, n)
  PROVE  VacantSlotsBlank' /\ SlotKvView!KvStep(CountsView, CountsView')
<1> DEFINE k == blocks_for_tokens(n)
           K == CountsView
           L == CountsView'
<1>1. PICK s \in Lowest(free_sequence_slots, 1) :
        LET g == sequences[s].generation + 1
            installed == [sequences[s] EXCEPT !.request_id = id,
                                              !.generation = g, !.active = TRUE]
            got == take_reserved_blocks(installed, free_blocks, k)
        IN  sequences' = [sequences EXCEPT ![s] = got.seq] /\ free_blocks' = got.free
  BY DEF acquire_reserved
<1> DEFINE q == sequences[s]
           g == q.generation + 1
           i == [q EXCEPT !.request_id = id, !.generation = g, !.active = TRUE]
           r == take_reserved_blocks(i, free_blocks, k)
<1>2. /\ s \in Slots /\ ~ q.active
      /\ \A t \in Slots : t < s => sequences[t].active
  <2>1. free_sequence_slots = {t \in Slots : ~ sequences[t].active}
    BY DEF PoolInv, IndexesAgree
  <2>2. 0 \in Int /\ NumSlots - 1 \in Int
    BY PoolDimensions
  <2>3. IsFiniteSet(Slots) /\ Slots \in SUBSET Int
    BY <2>2, FS_Interval DEF Slots
  <2>4. free_sequence_slots \in SUBSET Int /\ IsFiniteSet(free_sequence_slots)
    BY <2>1, <2>3, FS_Subset
  <2>5. s \in free_sequence_slots /\ \A t \in free_sequence_slots : ~ (t < s)
    BY <2>4, LowestOne
  <2> QED BY <2>1, <2>5
<1>3. /\ q \in SequenceState /\ HeldOnce(q) /\ Held(q) \cap free_blocks = {}
      /\ free_blocks \in SUBSET Blocks /\ owned_block_count(q) \in Nat
      /\ Cardinality(free_blocks) \in Nat
  BY <1>2, SlotFacts
<1>4. Held(q) = {} /\ q.kv_seq_len = 0 /\ owned_block_count(q) = 0
  <2>1. Held(q) = {} /\ q.kv_seq_len = 0
    BY <1>2 DEF VacantSlotsBlank
  <2> QED BY <1>3, <2>1, OwnedCountsHeld, FS_EmptySet
<1>5. k \in 0 .. Cardinality(free_blocks) /\ k \in Nat
  <2>1. k \in Nat
    BY BlocksForTokensType DEF Tokens
  <2>2. k <= Cardinality(free_blocks)
    BY DEF acquire_reserved
  <2> QED BY <1>3, <2>1, <2>2
<1>6. g \in Nat
  BY <1>3 DEF SequenceState
<1>7. /\ i \in SequenceState /\ i.request_id = id /\ i.active = TRUE
      /\ i.kv_seq_len = q.kv_seq_len /\ i.block_table = q.block_table
      /\ i.retry_blocks = q.retry_blocks /\ i.reserved_blocks = q.reserved_blocks
  <2> HIDE DEF g
  <2> QED BY <1>3, <1>6 DEF SequenceState
<1>8. sequences' = [sequences EXCEPT ![s] = r.seq] /\ free_blocks' = r.free
  BY <1>1
<1> HIDE DEF i
<1>9. HeldOnce(i) /\ Held(i) = Held(q) /\ owned_block_count(i) = 0
  BY <1>3, <1>4, <1>7 DEF HeldOnce, Held, owned_block_count
<1>10. /\ Transfers(i, free_blocks, r) /\ SameOwner(i, r.seq)
       /\ r.seq.kv_seq_len = i.kv_seq_len
       /\ owned_block_count(r.seq) = owned_block_count(i) + k
  <2> HIDE DEF k
  <2> QED BY <1>3, <1>5, <1>7, <1>9, TakeReservedProps
<1> HIDE DEF r, k, K, L
<1>11. /\ owned_block_count(r.seq) = k
       /\ Cardinality(r.free) = Cardinality(free_blocks) - k
  <2>1. /\ owned_block_count(r.seq) + Cardinality(r.free)
             = owned_block_count(i) + Cardinality(free_blocks)
        /\ Cardinality(r.free) \in Nat
    BY <1>3, <1>7, <1>9, <1>10, CountsConserved
  <2> QED BY <1>3, <1>5, <1>9, <1>10, <2>1
<1>12. /\ r.seq.request_id = id /\ r.seq.active /\ r.seq.kv_seq_len = 0
       /\ id # NoRequest
  BY <1>4, <1>7, <1>10, RequestIdsAssumption DEF SameOwner, NoRequest
<1>13. VacantSlotsBlank'
  BY <1>2, <1>8, <1>12, BlankStep
<1>14. L = [seqs |-> [K.seqs EXCEPT ![s] = Entry(r.seq)], free |-> Cardinality(r.free)]
  BY <1>2, <1>8, ViewAfter DEF K, L
<1>15. K.free = Cardinality(free_blocks) /\ \A t \in Slots : K.seqs[t] = Entry(sequences[t])
  BY ViewParts DEF K
<1>16. Entry(r.seq) = [request_id |-> id, kv_seq_len |-> 0, owned |-> k]
  BY <1>11, <1>12 DEF Entry
<1>17. L = SlotKvView!acquire_reserved(K, s, id, n)
  BY <1>11, <1>14, <1>15, <1>16, SameBlockCount DEF SlotKvView!acquire_reserved, k
<1>18. SlotKvView!vacant(K, s)
  <2>1. \A t \in Slots : SlotKvView!live(K, t) <=> sequences[t].active
    BY ViewLive DEF K
  <2>2. \A t \in 0 .. s - 1 : t \in Slots /\ t < s
    BY <1>2, PoolDimensions DEF Slots
  <2> QED BY <1>2, <2>1, <2>2 DEF SlotKvView!vacant
<1>19. \A t \in Slots : K.seqs[t].request_id # id
  <2>0. ASSUME NEW t \in Slots PROVE K.seqs[t].request_id = sequences[t].request_id
    <3>1. K.seqs[t] = Entry(sequences[t])
      BY <1>15
    <3>2. Entry(sequences[t]).request_id = sequences[t].request_id
      BY DEF Entry
    <3> QED BY <3>1, <3>2
  <2> SUFFICES ASSUME NEW t \in Slots, sequences[t].request_id = id PROVE FALSE
    BY <2>0
  <2>1. sequences[t].active
    BY <1>12 DEF VacantSlotsBlank
  <2>2. request_to_slot[id] = t
    BY <2>1 DEF PoolInv, IndexesAgree
  <2>3. request_to_slot[id] = NoSlot /\ NoSlot \notin Slots
    BY PoolDimensions DEF acquire_reserved, NoSlot, Slots
  <2> QED BY <2>2, <2>3
<1>20. SlotKvView!acquire_reserved_ok(K, id, n)
  BY <1>3, <1>5, <1>15, <1>19, SameConstants, SameBlockCount
  DEF SlotKvView!acquire_reserved_ok, k
<1>21. SlotKvView!KvStep(K, L)
  BY <1>2, <1>17, <1>18, <1>20, SameConstants DEF SlotKvView!KvStep
<1> QED BY <1>13, <1>21 DEF K, L

(* A pool nobody uses is the interface's initial state. *)
LEMMA EmptyView ==
  ASSUME NEW q, \A s \in Slots : Entry(q[s]) = SlotKvView!NoSequence
  PROVE  [seqs |-> [s \in Slots |-> Entry(q[s])], free |-> Cardinality(Blocks)]
           = SlotKvView!Fresh
<1>1. Cardinality(Blocks) = NumBlocks
  <2>1. 0 \in Int /\ NumBlocks - 1 \in Int /\ NumBlocks \in Nat \ {0}
    BY PoolDimensions
  <2>2. Cardinality(0 .. NumBlocks - 1)
          = IF 0 > NumBlocks - 1 THEN 0 ELSE (NumBlocks - 1) - 0 + 1
    BY <2>1, FS_Interval
  <2> QED BY <2>1, <2>2 DEF Blocks
<1> QED BY <1>1, SameConstants DEF SlotKvView!Fresh

(* A slot as the constructor and reset leave it. *)
LEMMA BlankSlot ==
  ASSUME NEW p, p.request_id = NoRequest, p.kv_seq_len = 0, p.active = FALSE,
         p.block_table = <<>>, p.retry_blocks = <<>>, p.reserved_blocks = {}
  PROVE  Held(p) = {} /\ Entry(p) = SlotKvView!NoSequence
<1>1. Range(<<>>) = {} /\ Cardinality({}) = 0 /\ Len(<<>>) = 0
  BY FS_EmptySet DEF Range
<1>2. Held(p) = {} /\ owned_block_count(p) = 0
  BY <1>1 DEF Held, owned_block_count
<1> QED BY <1>2, SameConstants DEF Entry, SlotKvView!NoSequence

LEMMA ResetView ==
  ASSUME PoolInv, reset
  PROVE  VacantSlotsBlank' /\ SlotKvView!KvStep(CountsView, CountsView')
<1>1. ASSUME NEW s \in Slots
      PROVE  /\ sequences'[s].request_id = NoRequest /\ sequences'[s].kv_seq_len = 0
             /\ sequences'[s].active = FALSE /\ sequences'[s].block_table = <<>>
             /\ sequences'[s].retry_blocks = <<>> /\ sequences'[s].reserved_blocks = {}
  <2>1. sequences[s] \in SequenceState
    BY SlotFacts
  <2> QED BY <2>1 DEF reset, SequenceState
<1>2. \A s \in Slots : Held(sequences'[s]) = {} /\ Entry(sequences'[s]) = SlotKvView!NoSequence
  BY <1>1, BlankSlot
<1>3. VacantSlotsBlank'
  BY <1>1, <1>2 DEF VacantSlotsBlank
<1>4. free_blocks' = Blocks
  BY DEF reset, refill, Blocks
<1>5. CountsView' = [seqs |-> [s \in Slots |-> Entry(sequences'[s])], free |-> Cardinality(Blocks)]
  BY <1>4 DEF CountsView, Entry
<1>6. CountsView' = SlotKvView!Fresh
  BY <1>2, <1>5, EmptyView
<1> QED BY <1>3, <1>6 DEF SlotKvView!KvStep

-----------------------------------------------------------------------------
(* The theorems.                                                           *)

LEMMA InitView == Init => VacantSlotsBlank /\ SlotKvView!KvInit
<1> SUFFICES ASSUME Init PROVE VacantSlotsBlank /\ SlotKvView!KvInit
  OBVIOUS
<1>1. \A s \in Slots :
        /\ sequences[s].request_id = NoRequest /\ sequences[s].kv_seq_len = 0
        /\ sequences[s].active = FALSE /\ sequences[s].block_table = <<>>
        /\ sequences[s].retry_blocks = <<>> /\ sequences[s].reserved_blocks = {}
  BY DEF Init
<1>2. \A s \in Slots : Held(sequences[s]) = {} /\ Entry(sequences[s]) = SlotKvView!NoSequence
  BY <1>1, BlankSlot
<1>3. VacantSlotsBlank
  BY <1>1, <1>2 DEF VacantSlotsBlank
<1>4. CountsView = [seqs |-> [s \in Slots |-> Entry(sequences[s])], free |-> Cardinality(Blocks)]
  BY DEF CountsView, Entry, Init, refill, Blocks
<1>5. CountsView = SlotKvView!Fresh
  BY <1>2, <1>4, EmptyView
<1> QED BY <1>3, <1>5 DEF SlotKvView!KvInit

LEMMA NextView ==
  PoolInv /\ VacantSlotsBlank /\ [Next]_poolVars
    => VacantSlotsBlank' /\ [SlotKvView!KvNext]_CountsView
<1> SUFFICES ASSUME PoolInv, VacantSlotsBlank, [Next]_poolVars
             PROVE  VacantSlotsBlank' /\ [SlotKvView!KvNext]_CountsView
  OBVIOUS
<1>1. CASE UNCHANGED poolVars
  BY <1>1 DEF poolVars, VacantSlotsBlank, CountsView
<1>2. CASE Next
  <2>1. ASSUME NEW id \in RequestIds, NEW n \in Tokens, acquire_reserved(id, n)
        PROVE  VacantSlotsBlank' /\ SlotKvView!KvStep(CountsView, CountsView')
    BY <2>1, AcquireView
  <2>2. ASSUME NEW h \in issued, NEW n \in Tokens,
               reserve_capacity(h, n) \/ append(h, n) \/ rollback_append(h, n)
        PROVE  VacantSlotsBlank' /\ SlotKvView!KvStep(CountsView, CountsView')
    BY <2>2, ReserveView, AppendView, RollbackView
  <2>3. ASSUME NEW h \in issued, clear(h) \/ release(h)
        PROVE  VacantSlotsBlank' /\ SlotKvView!KvStep(CountsView, CountsView')
    BY <2>3, ClearView, ReleaseView
  <2>4. ASSUME reset
        PROVE  VacantSlotsBlank' /\ SlotKvView!KvStep(CountsView, CountsView')
    BY <2>4, ResetView
  <2>5. VacantSlotsBlank' /\ SlotKvView!KvStep(CountsView, CountsView')
    BY <1>2, <2>1, <2>2, <2>3, <2>4 DEF Next
  <2> QED BY <2>5 DEF SlotKvView!KvNext
<1> QED BY <1>1, <1>2

(* A slot without an owner holds no block and shows no token, whatever was *)
(* called before: the next owner starts from nothing. *)
THEOREM PoolVacantSlotsBlank == Spec => []VacantSlotsBlank
BY PoolInvariant, InitView, NextView, PTL DEF Spec

(* Every behaviour of the pool is, in counts, a behaviour of the allocator *)
(* interface: a slot manager that is correct over SlotKv is correct over   *)
(* PagedKvPool, for every pool size, block size and number of slots. *)
THEOREM PoolImplementsSlotKv == Spec => ImplementsSlotKv
BY PoolInvariant, PoolVacantSlotsBlank, InitView, NextView, PTL
DEF Spec, ImplementsSlotKv, SlotKvView!KvSpec

=============================================================================
