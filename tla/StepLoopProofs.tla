---------------------------- MODULE StepLoopProofs ----------------------------
(***************************************************************************)
(* The safety of the slot manager and of the scheduler's pass over the     *)
(* engine, for every number of slots and blocks, every block size, every   *)
(* context, burst, chunk and offload budget.                               *)
(***************************************************************************)
EXTENDS StepLoop, ListProofs

-----------------------------------------------------------------------------
(* Spans of a stream.                                                      *)

LEMMA SpanProps ==
  ASSUME NEW a \in Nat, NEW b \in Int, a - 1 <= b
  PROVE  /\ Span(a, b) \in Seq(Nat) /\ Len(Span(a, b)) = b - a + 1
         /\ \A i \in 1 .. b - a + 1 : Span(a, b)[i] = a + i - 1
<1> DEFINE n == b - a + 1
           f == [i \in 1 .. n |-> a + i - 1]
<1>1. n \in Nat /\ n = IF a <= b THEN b - a + 1 ELSE 0
  OBVIOUS
<1>2. Span(a, b) = f
  BY <1>1 DEF Span
<1>3. \A i \in 1 .. n : a + i - 1 \in Nat
  BY <1>1
<1> HIDE DEF n
<1>4. f \in [1 .. n -> Nat]
  BY <1>3
<1>5. f \in Seq(Nat) /\ Len(f) = n
  BY <1>1, <1>4
<1> QED BY <1>2, <1>5 DEF n

LEMMA SpanEmpty ==
  ASSUME NEW a \in Nat
  PROVE  Span(a, a - 1) = << >> /\ Len(<< >>) = 0
<1>1. Span(a, a - 1) \in Seq(Nat) /\ Len(Span(a, a - 1)) = a - 1 - a + 1
  BY SpanProps
<1>2. Len(Span(a, a - 1)) = 0
  BY <1>1
<1> QED BY <1>1, <1>2, EmptySeq

(* The first n tokens of a stream. *)
LEMMA SpanFromOne ==
  ASSUME NEW n \in Nat
  PROVE  /\ Span(1, n) \in Seq(Nat) /\ Len(Span(1, n)) = n
         /\ \A i \in 1 .. n : Span(1, n)[i] = i
<1> DEFINE f == [i \in 1 .. n |-> i]
<1>1. Span(1, n) = f
  BY DEF Span
<1>2. f \in [1 .. n -> Nat]
  OBVIOUS
<1>3. f \in Seq(Nat) /\ Len(f) = n
  BY <1>2
<1> QED BY <1>1, <1>3

LEMMA SpanConcat ==
  ASSUME NEW m \in Nat, NEW n \in Nat
  PROVE  Span(1, m) \o Span(m + 1, m + n) = Span(1, m + n)
<1> DEFINE s == Span(1, m)
           t == Span(m + 1, m + n)
           u == Span(1, m + n)
           v == s \o t
<1>1. /\ s \in Seq(Nat) /\ Len(s) = m
      /\ \A i \in 1 .. m : s[i] = i
  BY SpanFromOne
<1>2. /\ t \in Seq(Nat) /\ Len(t) = n
      /\ \A i \in 1 .. n : t[i] = m + i
  <2>1. /\ t \in Seq(Nat) /\ Len(t) = m + n - (m + 1) + 1
        /\ \A i \in 1 .. m + n - (m + 1) + 1 : t[i] = m + 1 + i - 1
    BY SpanProps
  <2> QED BY <2>1
<1>3. /\ u \in Seq(Nat) /\ Len(u) = m + n
      /\ \A i \in 1 .. m + n : u[i] = i
  BY SpanFromOne
<1> HIDE DEF s, t, u
<1>4. /\ v \in Seq(Nat) /\ Len(v) = m + n
      /\ \A i \in 1 .. m + n : v[i] = IF i <= m THEN s[i] ELSE t[i - m]
  BY <1>1, <1>2, ConcatProperties
<1> HIDE DEF v
<1>5. ASSUME NEW i \in 1 .. m + n PROVE v[i] = u[i]
  <2>1. CASE i <= m
    BY <1>1, <1>3, <1>4, <2>1
  <2>2. CASE i > m
    <3>1. i - m \in 1 .. n /\ m + (i - m) = i
      BY <2>2
    <3> QED BY <1>2, <1>3, <1>4, <2>2, <3>1
  <2> QED BY <2>1, <2>2
<1>6. v = u
  BY <1>3, <1>4, <1>5, SeqEqual
<1> QED BY <1>6 DEF s, t, u, v

LEMMA SpanSub ==
  ASSUME NEW n \in Nat, NEW i \in Nat, NEW k \in Nat, i + k <= n
  PROVE  SubSeq(Span(1, n), i + 1, i + k) = Span(i + 1, i + k)
<1> DEFINE s == Span(1, n)
           t == SubSeq(s, i + 1, i + k)
           u == Span(i + 1, i + k)
<1>1. /\ s \in Seq(Nat) /\ Len(s) = n /\ \A j \in 1 .. n : s[j] = j
  BY SpanFromOne
<1>2. /\ u \in Seq(Nat) /\ Len(u) = k /\ \A j \in 1 .. k : u[j] = i + j
  <2>1. /\ u \in Seq(Nat) /\ Len(u) = i + k - (i + 1) + 1
        /\ \A j \in 1 .. i + k - (i + 1) + 1 : u[j] = i + 1 + j - 1
    BY SpanProps
  <2> QED BY <2>1
<1> HIDE DEF s, u
<1>3. /\ t \in Seq(Nat) /\ Len(t) = k /\ \A j \in 1 .. k : t[j] = s[i + j]
  <2>1. i + 1 \in Int /\ i + k \in Int /\ \A j \in i + 1 .. i + k : s[j] \in Nat
    BY <1>1
  <2>2. /\ t \in Seq(Nat)
        /\ Len(t) = IF i + 1 <= i + k THEN i + k - (i + 1) + 1 ELSE 0
        /\ \A j \in 1 .. i + k - (i + 1) + 1 : t[j] = s[(i + 1) + j - 1]
    BY <1>1, <2>1, SubSeqProperties
  <2> QED BY <2>2
<1> HIDE DEF t
<1>4. ASSUME NEW j \in 1 .. k PROVE t[j] = u[j]
  <2>1. i + j \in 1 .. n
    OBVIOUS
  <2> QED BY <1>1, <1>2, <1>3, <2>1
<1>5. t = u
  BY <1>2, <1>3, <1>4, SeqEqual
<1> QED BY <1>5 DEF s, t, u

(* The front of a span. *)
LEMMA SpanFront ==
  ASSUME NEW n \in Nat, NEW k \in Nat, k <= n
  PROVE  SubSeq(Span(1, n), 1, k) = Span(1, k)
<1>1. 0 \in Nat /\ 0 + k <= n /\ 0 + 1 = 1 /\ 0 + k = k
  OBVIOUS
<1>2. SubSeq(Span(1, n), 0 + 1, 0 + k) = Span(0 + 1, 0 + k)
  BY <1>1, SpanSub, Zenon
<1> QED BY <1>1, <1>2, Zenon

LEMMA SpanAppend ==
  ASSUME NEW n \in Nat
  PROVE  Append(Span(1, n), n + 1) = Span(1, n + 1)
<1> DEFINE s == Span(1, n)
           u == Span(1, n + 1)
           v == Append(s, n + 1)
<1>1. /\ s \in Seq(Nat) /\ Len(s) = n /\ \A j \in 1 .. n : s[j] = j
  BY SpanFromOne
<1>2. /\ u \in Seq(Nat) /\ Len(u) = n + 1 /\ \A j \in 1 .. n + 1 : u[j] = j
  BY SpanFromOne
<1> HIDE DEF s, u
<1>3. /\ v \in Seq(Nat) /\ Len(v) = n + 1 /\ v[n + 1] = n + 1
      /\ \A j \in 1 .. n : v[j] = s[j]
  BY <1>1, AppendProperties
<1> HIDE DEF v
<1>4. \A j \in 1 .. n + 1 : v[j] = u[j]
  BY <1>1, <1>2, <1>3
<1>5. v = u
  BY <1>2, <1>3, <1>4, SeqEqual
<1> QED BY <1>5 DEF s, u, v

-----------------------------------------------------------------------------
(* Capacities.                                                             *)

LEMMA BlocksType ==
  ASSUME NEW n \in Nat
  PROVE  blocks_for_tokens(n) \in Nat
BY ManagerDimensions DEF blocks_for_tokens

LEMMA BlocksMonotone ==
  ASSUME NEW m \in Nat, NEW n \in Nat, m <= n
  PROVE  blocks_for_tokens(m) <= blocks_for_tokens(n)
BY ManagerDimensions DEF blocks_for_tokens

LEMMA BlocksZero == blocks_for_tokens(0) = 0
BY DEF blocks_for_tokens

(* One more token needs at most one more block. *)
LEMMA BlocksNext ==
  ASSUME NEW n \in Nat
  PROVE  blocks_for_tokens(n + 1) <= blocks_for_tokens(n) + 1
BY ManagerDimensions DEF blocks_for_tokens

LEMMA ReservationCovers ==
  ASSUME NEW n \in 0 .. MaxCtx
  PROVE  /\ reservation_capacity(n) \in Nat /\ n <= reservation_capacity(n)
         /\ reservation_capacity(n) <= MaxCtx
         /\ decode_headroom_capacity(n) \in Nat
BY ManagerDimensions DEF reservation_capacity, decode_headroom_capacity, Least

LEMMA SlotsFinite == IsFiniteSet(Slots) /\ Slots \in SUBSET Nat
<1>1. 0 \in Int /\ NumSlots - 1 \in Int
  BY ManagerDimensions
<1> QED BY <1>1, FS_Interval DEF Slots

-----------------------------------------------------------------------------
(* The allocator's methods.                                                *)

KvTyped(K) == K \in [seqs : [Slots -> KvSequence], free : Nat]

Owned(K) == [p \in Slots |-> K.seqs[p].owned]

(* The blocks of the pool, wherever they are. *)
Balance(K) == K.free + Total(Owned(K), Slots)

(* L is K with the sequence p replaced by e, and no block lost. *)
Updates(K, L, p, e) ==
  /\ KvTyped(L)
  /\ \A t \in Slots : L.seqs[t] = IF t = p THEN e ELSE K.seqs[t]
  /\ Balance(L) = Balance(K)

LEMMA KvUpdate ==
  ASSUME NEW K, KvTyped(K), NEW p \in Slots, NEW e \in KvSequence, NEW f \in Nat,
         f + e.owned = K.free + K.seqs[p].owned
  PROVE  Updates(K, [seqs |-> [K.seqs EXCEPT ![p] = e], free |-> f], p, e)
<1> DEFINE L == [seqs |-> [K.seqs EXCEPT ![p] = e], free |-> f]
<1>1. K.seqs \in [Slots -> KvSequence] /\ K.free \in Nat
  BY DEF KvTyped
<1>2. KvTyped(L) /\ L.free = f
  BY <1>1 DEF KvTyped
<1>3. \A t \in Slots : L.seqs[t] = IF t = p THEN e ELSE K.seqs[t]
  BY <1>1
<1> HIDE DEF L
<1>4. \A t \in Slots : /\ Owned(K)[t] = K.seqs[t].owned /\ Owned(K)[t] \in Nat
                       /\ Owned(L)[t] = L.seqs[t].owned /\ Owned(L)[t] \in Nat
  BY <1>1, <1>2 DEF Owned, KvSequence, KvTyped
<1>5. \A t \in Slots \ {p} : Owned(L)[t] = Owned(K)[t]
  BY <1>3, <1>4
<1>6. /\ Total(Owned(L), Slots) + Owned(K)[p] = Total(Owned(K), Slots) + Owned(L)[p]
      /\ Total(Owned(K), Slots) \in Nat /\ Total(Owned(L), Slots) \in Nat
  <2>1. \A t \in Slots : Owned(K)[t] \in Nat /\ Owned(L)[t] \in Nat
    BY <1>4
  <2>2. IsFiniteSet(Slots)
    BY SlotsFinite
  <2> QED BY <1>5, <2>1, <2>2, TotalChange
<1>7. Owned(L)[p] = e.owned /\ Owned(K)[p] = K.seqs[p].owned /\ e.owned \in Nat
      /\ K.seqs[p].owned \in Nat
  BY <1>3, <1>4 DEF KvSequence
<1>8. Balance(L) = Balance(K)
  BY <1>1, <1>2, <1>6, <1>7 DEF Balance
<1> QED BY <1>2, <1>3, <1>8 DEF Updates, L

LEMMA ShortfallProps ==
  ASSUME NEW K, KvTyped(K), NEW p \in Slots, NEW n \in Nat
  PROVE  /\ shortfall(K, p, n) \in Nat
         /\ blocks_for_tokens(n) <= K.seqs[p].owned + shortfall(K, p, n)
         /\ K.seqs[p].owned + shortfall(K, p, n)
              = Greatest(K.seqs[p].owned, blocks_for_tokens(n))
         /\ shortfall(K, p, n) = 0 <=> blocks_for_tokens(n) <= K.seqs[p].owned
<1>1. K.seqs[p].owned \in Nat
  BY DEF KvTyped, KvSequence
<1>2. blocks_for_tokens(n) \in Nat
  BY BlocksType
<1> QED BY <1>1, <1>2 DEF shortfall, owned_block_count, Greatest

LEMMA SeqFacts ==
  ASSUME NEW K, KvTyped(K), NEW p \in Slots
  PROVE  /\ K.seqs[p] \in KvSequence /\ K.seqs \in [Slots -> KvSequence] /\ K.free \in Nat
         /\ K.seqs[p] = [request_id |-> K.seqs[p].request_id,
                         kv_seq_len |-> K.seqs[p].kv_seq_len, owned |-> K.seqs[p].owned]
         /\ K.seqs[p].owned \in Nat /\ K.seqs[p].kv_seq_len \in Nat
         /\ K.seqs[p].kv_seq_len \in Tokens
         /\ K.seqs[p].request_id \in RequestIds \cup {NoRequest}
<1>1. K.seqs[p] \in KvSequence /\ K.seqs \in [Slots -> KvSequence] /\ K.free \in Nat
  BY DEF KvTyped
<1> QED BY <1>1 DEF KvSequence, Tokens

LEMMA ReserveUpdates ==
  ASSUME NEW K, KvTyped(K), NEW p \in Slots, NEW n \in Nat, shortfall(K, p, n) <= K.free
  PROVE  Updates(K, reserve_capacity(K, p, n), p,
                 [request_id |-> K.seqs[p].request_id, kv_seq_len |-> K.seqs[p].kv_seq_len,
                  owned |-> Greatest(K.seqs[p].owned, blocks_for_tokens(n))])
<1> DEFINE d == shortfall(K, p, n)
           o == K.seqs[p].owned
           e == [request_id |-> K.seqs[p].request_id, kv_seq_len |-> K.seqs[p].kv_seq_len,
                 owned |-> Greatest(o, blocks_for_tokens(n))]
<1>1. d \in Nat /\ o + d = Greatest(o, blocks_for_tokens(n)) /\ d <= K.free
  BY ShortfallProps
<1>2. /\ K.seqs \in [Slots -> KvSequence] /\ K.free \in Nat /\ o \in Nat
      /\ K.seqs[p] = [request_id |-> K.seqs[p].request_id,
                      kv_seq_len |-> K.seqs[p].kv_seq_len, owned |-> o]
      /\ K.seqs[p].kv_seq_len \in Tokens /\ K.seqs[p].request_id \in RequestIds \cup {NoRequest}
  BY SeqFacts
<1>3. e \in KvSequence /\ e.owned = o + d
  <2>1. Greatest(o, blocks_for_tokens(n)) \in Nat
    BY <1>1, <1>2
  <2> QED BY <1>1, <1>2, <2>1 DEF KvSequence
<1>4. [K.seqs EXCEPT ![p].owned = @ + d] = [K.seqs EXCEPT ![p] = e]
  BY <1>1, <1>2
<1>5. reserve_capacity(K, p, n) = [seqs |-> [K.seqs EXCEPT ![p] = e], free |-> K.free - d]
  BY <1>4 DEF reserve_capacity
<1> HIDE DEF d, e
<1>6. K.free - d \in Nat /\ (K.free - d) + e.owned = K.free + o
  BY <1>1, <1>2, <1>3
<1>7. Updates(K, [seqs |-> [K.seqs EXCEPT ![p] = e], free |-> K.free - d], p, e)
  BY <1>3, <1>6, KvUpdate
<1> QED BY <1>5, <1>7 DEF e

LEMMA AppendUpdates ==
  ASSUME NEW K, KvTyped(K), NEW p \in Slots, NEW n \in Nat, append_ok(K, p, n)
  PROVE  /\ Updates(K, append(K, p, n), p,
                    [request_id |-> K.seqs[p].request_id,
                     kv_seq_len |-> K.seqs[p].kv_seq_len + n,
                     owned |-> Greatest(K.seqs[p].owned,
                                        blocks_for_tokens(K.seqs[p].kv_seq_len + n))])
         /\ K.seqs[p].kv_seq_len + n \in Tokens
<1> DEFINE l == K.seqs[p].kv_seq_len
           d == shortfall(K, p, l + n)
           o == K.seqs[p].owned
           x == [request_id |-> K.seqs[p].request_id, kv_seq_len |-> l, owned |-> o + d]
           e == [request_id |-> K.seqs[p].request_id, kv_seq_len |-> l + n,
                 owned |-> Greatest(o, blocks_for_tokens(l + n))]
           F == [K.seqs EXCEPT ![p].owned = @ + d]
<1>1. /\ K.seqs \in [Slots -> KvSequence] /\ K.free \in Nat /\ o \in Nat /\ l \in Nat
      /\ K.seqs[p] = [request_id |-> K.seqs[p].request_id, kv_seq_len |-> l, owned |-> o]
      /\ K.seqs[p].request_id \in RequestIds \cup {NoRequest}
  BY SeqFacts
<1>2. l + n <= MaxU32 /\ d <= K.free
  BY DEF append_ok
<1>3. d \in Nat /\ o + d = Greatest(o, blocks_for_tokens(l + n)) /\ l + n \in Nat
  BY <1>1, ShortfallProps
<1>4. l + n \in Tokens
  BY <1>2, <1>3, ManagerDimensions DEF Tokens
<1>5. e \in KvSequence /\ e.owned = o + d
  <2>1. Greatest(o, blocks_for_tokens(l + n)) \in Nat
    BY <1>1, <1>3
  <2> QED BY <1>1, <1>3, <1>4, <2>1 DEF KvSequence
<1>6. [K.seqs EXCEPT ![p].owned = @ + d, ![p].kv_seq_len = @ + n] = [K.seqs EXCEPT ![p] = e]
  <2>1. F = [K.seqs EXCEPT ![p] = x]
    BY <1>1
  <2>2. F[p] = x /\ [F EXCEPT ![p] = e] = [K.seqs EXCEPT ![p] = e]
    BY <1>1, <2>1
  <2>3. [x EXCEPT !.kv_seq_len = @ + n] = e
    BY <1>3
  <2>4. [F EXCEPT ![p].kv_seq_len = @ + n] = [F EXCEPT ![p] = e]
    <3> HIDE DEF F, x, e
    <3> QED BY <2>2, <2>3
  <2> QED BY <2>2, <2>4
<1>7. append(K, p, n) = [seqs |-> [K.seqs EXCEPT ![p] = e], free |-> K.free - d]
  BY <1>6 DEF append
<1> HIDE DEF d, e
<1>8. K.free - d \in Nat /\ (K.free - d) + e.owned = K.free + o
  BY <1>1, <1>2, <1>3, <1>5
<1>9. Updates(K, [seqs |-> [K.seqs EXCEPT ![p] = e], free |-> K.free - d], p, e)
  BY <1>5, <1>8, KvUpdate
<1> QED BY <1>4, <1>7, <1>9 DEF e

LEMMA RollbackUpdates ==
  ASSUME NEW K, KvTyped(K), NEW p \in Slots, NEW n \in Nat, rollback_append_ok(K, p, n)
  PROVE  /\ Updates(K, rollback_append(K, p, n), p,
                    [request_id |-> K.seqs[p].request_id,
                     kv_seq_len |-> K.seqs[p].kv_seq_len - n, owned |-> K.seqs[p].owned])
         /\ K.seqs[p].kv_seq_len - n \in Tokens
<1> DEFINE l == K.seqs[p].kv_seq_len
           o == K.seqs[p].owned
           e == [request_id |-> K.seqs[p].request_id, kv_seq_len |-> l - n, owned |-> o]
<1>1. /\ K.seqs \in [Slots -> KvSequence] /\ K.free \in Nat /\ o \in Nat /\ l \in Tokens
      /\ K.seqs[p] = [request_id |-> K.seqs[p].request_id, kv_seq_len |-> l, owned |-> o]
      /\ K.seqs[p].request_id \in RequestIds \cup {NoRequest}
  BY SeqFacts
<1>2. l - n \in Tokens
  BY <1>1, ManagerDimensions DEF Tokens, rollback_append_ok
<1>3. e \in KvSequence /\ e.owned = o
  BY <1>1, <1>2 DEF KvSequence
<1>4. K = [seqs |-> K.seqs, free |-> K.free]
  BY DEF KvTyped
<1>5. [K.seqs EXCEPT ![p].kv_seq_len = @ - n] = [K.seqs EXCEPT ![p] = e]
  BY <1>1
<1>6. rollback_append(K, p, n) = [seqs |-> [K.seqs EXCEPT ![p].kv_seq_len = @ - n], free |-> K.free]
  BY <1>4 DEF rollback_append
<1> HIDE DEF e
<1>7. Updates(K, [seqs |-> [K.seqs EXCEPT ![p] = e], free |-> K.free], p, e)
  BY <1>1, <1>3, KvUpdate
<1> QED BY <1>2, <1>5, <1>6, <1>7 DEF e

LEMMA ClearUpdates ==
  ASSUME NEW K, KvTyped(K), NEW p \in Slots
  PROVE  Updates(K, clear(K, p), p,
                 [request_id |-> K.seqs[p].request_id, kv_seq_len |-> 0, owned |-> 0])
<1> DEFINE l == K.seqs[p].kv_seq_len
           o == K.seqs[p].owned
           x == [request_id |-> K.seqs[p].request_id, kv_seq_len |-> l, owned |-> 0]
           e == [request_id |-> K.seqs[p].request_id, kv_seq_len |-> 0, owned |-> 0]
           F == [K.seqs EXCEPT ![p].owned = 0]
<1>1. /\ K.seqs \in [Slots -> KvSequence] /\ K.free \in Nat /\ o \in Nat
      /\ K.seqs[p] = [request_id |-> K.seqs[p].request_id, kv_seq_len |-> l, owned |-> o]
      /\ K.seqs[p].request_id \in RequestIds \cup {NoRequest}
  BY SeqFacts
<1>2. e \in KvSequence /\ e.owned = 0
  BY <1>1, ManagerDimensions DEF KvSequence, Tokens
<1>3. [K.seqs EXCEPT ![p].owned = 0, ![p].kv_seq_len = 0] = [K.seqs EXCEPT ![p] = e]
  <2>1. F = [K.seqs EXCEPT ![p] = x]
    BY <1>1
  <2>2. F[p] = x /\ [F EXCEPT ![p] = e] = [K.seqs EXCEPT ![p] = e]
    BY <1>1, <2>1
  <2>3. [x EXCEPT !.kv_seq_len = 0] = e
    OBVIOUS
  <2>4. [F EXCEPT ![p].kv_seq_len = 0] = [F EXCEPT ![p] = e]
    <3> HIDE DEF F, x, e
    <3> QED BY <2>2, <2>3
  <2> QED BY <2>2, <2>4
<1>4. clear(K, p) = [seqs |-> [K.seqs EXCEPT ![p] = e], free |-> K.free + o]
  BY <1>3 DEF clear
<1> HIDE DEF e
<1>5. K.free + o \in Nat /\ (K.free + o) + e.owned = K.free + o
  BY <1>1, <1>2
<1>6. Updates(K, [seqs |-> [K.seqs EXCEPT ![p] = e], free |-> K.free + o], p, e)
  BY <1>2, <1>5, KvUpdate
<1> QED BY <1>4, <1>6 DEF e

LEMMA ReleaseUpdates ==
  ASSUME NEW K, KvTyped(K), NEW p \in Slots
  PROVE  Updates(K, release(K, p), p, NoSequence)
<1> DEFINE o == K.seqs[p].owned
<1>1. K.free \in Nat /\ o \in Nat
  BY SeqFacts
<1>2. NoSequence \in KvSequence /\ NoSequence.owned = 0
  BY ManagerDimensions DEF NoSequence, KvSequence, Tokens
<1>3. K.free + o \in Nat /\ (K.free + o) + NoSequence.owned = K.free + o
  BY <1>1, <1>2
<1>4. Updates(K, [seqs |-> [K.seqs EXCEPT ![p] = NoSequence], free |-> K.free + o], p, NoSequence)
  BY <1>2, <1>3, KvUpdate
<1> QED BY <1>4 DEF release

LEMMA AcquireUpdates ==
  ASSUME NEW K, KvTyped(K), NEW p \in Slots, NEW id \in RequestIds, NEW n \in Nat,
         blocks_for_tokens(n) <= K.free, K.seqs[p].owned = 0
  PROVE  Updates(K, acquire_reserved(K, p, id, n), p,
                 [request_id |-> id, kv_seq_len |-> 0, owned |-> blocks_for_tokens(n)])
<1> DEFINE b == blocks_for_tokens(n)
           e == [request_id |-> id, kv_seq_len |-> 0, owned |-> b]
<1>1. K.free \in Nat /\ b \in Nat
  BY SeqFacts, BlocksType
<1>2. e \in KvSequence /\ e.owned = b
  BY <1>1, ManagerDimensions DEF KvSequence, Tokens
<1>3. acquire_reserved(K, p, id, n) = [seqs |-> [K.seqs EXCEPT ![p] = e], free |-> K.free - b]
  BY DEF acquire_reserved
<1> HIDE DEF e, b
<1>4. b <= K.free
  BY DEF b
<1>5. K.free - b \in Nat /\ (K.free - b) + e.owned = K.free + K.seqs[p].owned
  BY <1>1, <1>2, <1>4
<1>6. Updates(K, [seqs |-> [K.seqs EXCEPT ![p] = e], free |-> K.free - b], p, e)
  BY <1>2, <1>5, KvUpdate
<1> QED BY <1>3, <1>6 DEF e, b

(* A cohort reservation gives every member what it lacks, to nobody else    *)
(* anything, and takes the sum of it from the free list: the sequences of   *)
(* the members are distinct. *)
LEMMA CohortUpdates ==
  ASSUME KvTyped(kv), \A s \in Slots : slots[s].handle \in Slots, HandlesExclusive,
         NEW S \in SUBSET Slots, \A s \in S : active(s),
         NEW capacity, \A s \in S : capacity[s] \in Nat,
         cohort_shortfall(S, capacity) <= kv.free
  PROVE  LET L == reserve_cohort(S, capacity)
         IN  /\ KvTyped(L) /\ Balance(L) = Balance(kv)
             /\ \A p \in Slots : /\ L.seqs[p].request_id = kv.seqs[p].request_id
                                 /\ L.seqs[p].kv_seq_len = kv.seqs[p].kv_seq_len
                                 /\ kv.seqs[p].owned <= L.seqs[p].owned
             /\ \A p \in Slots : (\A s \in S : slots[s].handle # p) => L.seqs[p] = kv.seqs[p]
             /\ \A s \in S : L.seqs[slots[s].handle].owned
                               = Greatest(kv.seqs[slots[s].handle].owned,
                                          blocks_for_tokens(capacity[s]))
<1> DEFINE L == reserve_cohort(S, capacity)
           h == [s \in Slots |-> slots[s].handle]
           f == [s \in Slots |-> shortfall(kv, slots[s].handle, capacity[s])]
           who(p) == CHOOSE t \in S : slots[t].handle = p
           g == [p \in Slots |-> IF \E s \in S : slots[s].handle = p
                                 THEN shortfall(kv, p, capacity[who(p)]) ELSE 0]
           T == {h[s] : s \in S}
<1>1. \A s, t \in S : slots[s].handle = slots[t].handle => s = t
  BY DEF HandlesExclusive
<1>2. \A s \in S : who(slots[s].handle) = s
  BY <1>1
<1>3. /\ kv.seqs \in [Slots -> KvSequence] /\ kv.free \in Nat
      /\ \A p \in Slots : /\ kv.seqs[p].owned \in Nat
                          /\ kv.seqs[p].kv_seq_len \in Tokens
                          /\ kv.seqs[p].request_id \in RequestIds \cup {NoRequest}
  <2>1. kv.seqs \in [Slots -> KvSequence] /\ kv.free \in Nat
    BY DEF KvTyped
  <2> QED BY <2>1, SeqFacts
<1>19. ASSUME NEW p \in Slots
       PROVE  kv.seqs[p] = [request_id |-> kv.seqs[p].request_id,
                            kv_seq_len |-> kv.seqs[p].kv_seq_len,
                            owned |-> kv.seqs[p].owned]
  BY SeqFacts
<1>4. \A s \in S : /\ f[s] \in Nat /\ f[s] = shortfall(kv, slots[s].handle, capacity[s])
                   /\ kv.seqs[slots[s].handle].owned + f[s]
                        = Greatest(kv.seqs[slots[s].handle].owned, blocks_for_tokens(capacity[s]))
  BY ShortfallProps
<1>5. \A s \in S : g[slots[s].handle] = f[s] /\ h[s] = slots[s].handle /\ h[s] \in Slots
  BY <1>2, <1>4
<1>6. \A p \in Slots : (\A s \in S : slots[s].handle # p) => g[p] = 0
  OBVIOUS
<1>7. \A p \in Slots : g[p] \in Nat
  BY <1>4, <1>5, <1>6
<1>8. \A p \in Slots : L.seqs[p] = [request_id |-> kv.seqs[p].request_id,
                                    kv_seq_len |-> kv.seqs[p].kv_seq_len,
                                    owned |-> kv.seqs[p].owned + g[p]]
  <2> SUFFICES ASSUME NEW p \in Slots
               PROVE  L.seqs[p] = [request_id |-> kv.seqs[p].request_id,
                                   kv_seq_len |-> kv.seqs[p].kv_seq_len,
                                   owned |-> kv.seqs[p].owned + g[p]]
    OBVIOUS
  <2>1. CASE \E s \in S : slots[s].handle = p
    <3>1. L.seqs[p] = [kv.seqs[p] EXCEPT !.owned = @ + g[p]]
      BY <2>1 DEF reserve_cohort
    <3>2. kv.seqs[p] = [request_id |-> kv.seqs[p].request_id,
                        kv_seq_len |-> kv.seqs[p].kv_seq_len, owned |-> kv.seqs[p].owned]
      BY <1>19
    <3> HIDE DEF g, L
    <3> QED BY <3>1, <3>2
  <2>2. CASE \A s \in S : slots[s].handle # p
    <3>1. L.seqs[p] = kv.seqs[p] /\ g[p] = 0
      BY <2>2 DEF reserve_cohort
    <3> HIDE DEF g, L
    <3>2. kv.seqs[p].owned + g[p] = kv.seqs[p].owned
      BY <1>3, <3>1
    <3> QED BY <1>19, <3>1, <3>2
  <2> QED BY <2>1, <2>2
<1>9. L.free = kv.free - Total(f, S) /\ Total(f, S) = cohort_shortfall(S, capacity)
  BY DEF reserve_cohort, cohort_shortfall
<1>10. IsFiniteSet(S)
  BY SlotsFinite, FS_Subset
<1>11. L = [seqs |-> L.seqs, free |-> L.free] /\ L.seqs = [p \in Slots |-> L.seqs[p]]
  BY DEF reserve_cohort
<1> HIDE DEF L, g, f
<1>12. Total(f, S) \in Nat
  BY <1>4, <1>10, UnitsFinite
<1>13. L.free \in Nat
  BY <1>3, <1>9, <1>12
<1>14. \A p \in Slots : /\ L.seqs[p].request_id = kv.seqs[p].request_id
                        /\ L.seqs[p].kv_seq_len = kv.seqs[p].kv_seq_len
                        /\ L.seqs[p].owned = kv.seqs[p].owned + g[p]
                        /\ kv.seqs[p].owned <= L.seqs[p].owned
                        /\ L.seqs[p] \in KvSequence
  <2> SUFFICES ASSUME NEW p \in Slots
               PROVE  /\ L.seqs[p].request_id = kv.seqs[p].request_id
                      /\ L.seqs[p].kv_seq_len = kv.seqs[p].kv_seq_len
                      /\ L.seqs[p].owned = kv.seqs[p].owned + g[p]
                      /\ kv.seqs[p].owned <= L.seqs[p].owned
                      /\ L.seqs[p] \in KvSequence
    OBVIOUS
  <2>1. kv.seqs[p].owned + g[p] \in Nat /\ kv.seqs[p].owned <= kv.seqs[p].owned + g[p]
    BY <1>3, <1>7
  <2> DEFINE o == kv.seqs[p].owned + g[p]
  <2>2. L.seqs[p] = [request_id |-> kv.seqs[p].request_id,
                     kv_seq_len |-> kv.seqs[p].kv_seq_len, owned |-> o]
    BY <1>8
  <2>3. kv.seqs[p].kv_seq_len \in Tokens /\ kv.seqs[p].request_id \in RequestIds \cup {NoRequest}
    BY <1>3
  <2> HIDE DEF o
  <2>4. /\ L.seqs[p].request_id = kv.seqs[p].request_id
        /\ L.seqs[p].kv_seq_len = kv.seqs[p].kv_seq_len /\ L.seqs[p].owned = o
    BY <2>2
  <2>5. o \in Nat
    BY <2>1 DEF o
  <2>6. L.seqs[p] \in KvSequence
    BY <2>2, <2>3, <2>5 DEF KvSequence
  <2> QED BY <2>1, <2>4, <2>6 DEF o
<1>15. KvTyped(L)
  BY <1>11, <1>13, <1>14 DEF KvTyped
<1>16. Balance(L) = Balance(kv)
  <2>1. \A p \in Slots : /\ Owned(kv)[p] \in Nat /\ g[p] \in Nat
                         /\ Owned(L)[p] = Owned(kv)[p] + g[p]
    BY <1>3, <1>7, <1>14 DEF Owned
  <2>2. Total(Owned(L), Slots) = Total(Owned(kv), Slots) + Total(g, Slots)
    BY <2>1, SlotsFinite, TotalAdd
  <2>3. T \in SUBSET Slots /\ \A p \in Slots \ T : g[p] = 0
    BY <1>5, <1>6
  <2>4. Total(g, Slots) = Total(g, T)
    BY <2>3, TotalSupport
  <2>5. Total(g, T) = Total(f, S)
    <3>1. \A s \in S : f[s] \in Nat /\ g[h[s]] = f[s]
      BY <1>4, <1>5
    <3>2. \A s, t \in S : h[s] = h[t] => s = t
      BY <1>1, <1>5
    <3> HIDE DEF h
    <3> QED BY <1>10, <3>1, <3>2, TotalReindex
  <2>6. Total(Owned(kv), Slots) \in Nat
    BY <2>1, SlotsFinite, UnitsFinite
  <2> QED BY <1>3, <1>9, <1>12, <2>2, <2>4, <2>5, <2>6 DEF Balance
<1>17. \A p \in Slots : (\A s \in S : slots[s].handle # p) => L.seqs[p] = kv.seqs[p]
  <2> SUFFICES ASSUME NEW p \in Slots, \A s \in S : slots[s].handle # p
               PROVE  L.seqs[p] = kv.seqs[p]
    OBVIOUS
  <2>1. g[p] = 0
    BY <1>6
  <2>2. kv.seqs[p].owned + g[p] = kv.seqs[p].owned
    BY <1>3, <2>1
  <2> QED BY <1>8, <1>19, <2>2
<1>18. \A s \in S : L.seqs[slots[s].handle].owned
                      = Greatest(kv.seqs[slots[s].handle].owned, blocks_for_tokens(capacity[s]))
  <2> SUFFICES ASSUME NEW s \in S
               PROVE  L.seqs[slots[s].handle].owned
                        = Greatest(kv.seqs[slots[s].handle].owned, blocks_for_tokens(capacity[s]))
    OBVIOUS
  <2>1. slots[s].handle \in Slots /\ g[slots[s].handle] = f[s]
    BY <1>5
  <2>2. L.seqs[slots[s].handle].owned = kv.seqs[slots[s].handle].owned + g[slots[s].handle]
    BY <1>14, <2>1
  <2>3. kv.seqs[slots[s].handle].owned + f[s]
          = Greatest(kv.seqs[slots[s].handle].owned, blocks_for_tokens(capacity[s]))
    BY <1>4
  <2> QED BY <2>1, <2>2, <2>3
<1> QED BY <1>14, <1>15, <1>16, <1>17, <1>18 DEF L

-----------------------------------------------------------------------------
(* SlotInStep, phase by phase.                                             *)

PhasePrefill(q, e, r, st, pd) ==
  /\ q.staged_tokens = << >> /\ q.sample_history = Span(1, st)
  /\ st >= 1 /\ pd = NoToken /\ q.prompt_len = st /\ q.cur_pos <= st
  /\ r = Span(1, q.cur_pos) /\ e.kv_seq_len = q.cur_pos
  /\ blocks_for_tokens(st) <= e.owned

PhaseDecode(q, e, r, st, pd) ==
  LET k == Len(q.staged_tokens)
  IN  /\ q.staged_tokens = Span(st, st + k - 1) /\ q.sample_history = Span(1, st - 1)
      /\ st >= 1 /\ pd = st /\ q.cur_pos = st - 1 /\ q.prompt_len <= q.cur_pos
      /\ q.cur_pos + k <= MaxCtx
      /\ r = Span(1, q.cur_pos + k) /\ e.kv_seq_len = q.cur_pos + k
      /\ blocks_for_tokens(e.kv_seq_len) <= e.owned

PhaseSuspended(q, e, r, sv, st, pd) ==
  /\ q.staged_tokens = << >> /\ r = << >> /\ st >= 1
  /\ e.kv_seq_len = 0 /\ e.owned = 0 /\ sv = Span(1, q.cur_pos)
  /\ \/ /\ pd = NoToken /\ st = q.prompt_len /\ q.cur_pos < st
        /\ q.sample_history = Span(1, st)
     \/ /\ pd = st /\ q.cur_pos = st - 1 /\ q.prompt_len <= q.cur_pos
        /\ q.sample_history = Span(1, st - 1)

PhaseRecompute(q, e, r, st, pd) ==
  /\ q.staged_tokens = << >> /\ r = << >> /\ st >= 1
  /\ e.kv_seq_len = 0 /\ e.owned = 0
  /\ q.cur_pos = 0 /\ q.prompt_len = st /\ q.sample_history = Span(1, st)
  /\ pd \in {NoToken, st}

LEMMA SlotTyped ==
  ASSUME NEW q \in SeqSlot
  PROVE  /\ q.prompt_len \in Nat /\ q.cur_pos \in Nat /\ q.handle \in Slots
         /\ q.prompt_len <= MaxCtx /\ q.cur_pos <= MaxCtx
         /\ q.sample_history \in Seq(Nat) /\ q.staged_tokens \in Seq(Nat)
         /\ Len(q.sample_history) \in Nat /\ Len(q.staged_tokens) \in Nat
         /\ q.phase \in {"free", "prefill", "decode", "suspended", "recompute"}
BY ManagerDimensions DEF SeqSlot

(* No staged token. *)
LEMMA NothingStaged ==
  ASSUME NEW q \in SeqSlot, NEW st \in Nat
  PROVE  /\ q.staged_tokens = << >> <=> Len(q.staged_tokens) = 0
         /\ q.staged_tokens = << >> => q.staged_tokens = Span(st, st + Len(q.staged_tokens) - 1)
<1>1. q.staged_tokens \in Seq(Nat)
  BY SlotTyped
<1>2. q.staged_tokens = << >> <=> Len(q.staged_tokens) = 0
  BY <1>1, EmptySeq
<1>3. Span(st, st - 1) = << >>
  BY SpanEmpty
<1>4. st + 0 - 1 = st - 1
  OBVIOUS
<1> QED BY <1>2, <1>3, <1>4

LEMMA PrefillPhase ==
  ASSUME NEW q \in SeqSlot, q.phase = "prefill", NEW e \in KvSequence, NEW r, NEW sv,
         NEW st \in Nat, NEW pd
  PROVE  SlotInStep(q, e, r, sv, st, pd) <=> PhasePrefill(q, e, r, st, pd)
<1> DEFINE k == Len(q.staged_tokens)
<1>1. /\ q.prompt_len \in Nat /\ q.cur_pos \in Nat /\ q.cur_pos <= MaxCtx
      /\ q.sample_history \in Seq(Nat) /\ Len(q.sample_history) \in Nat
  BY SlotTyped
<1>2. e.owned \in Nat /\ MaxCtx \in Nat
  BY ManagerDimensions DEF KvSequence
<1>3. q.staged_tokens = << >> <=> k = 0
  BY NothingStaged
<1>4. q.staged_tokens = << >> => q.staged_tokens = Span(st, st + k - 1)
  BY NothingStaged
<1>5. Len(Span(1, st)) = st
  BY SpanFromOne
<1>6. blocks_for_tokens(st) \in Nat /\ blocks_for_tokens(q.cur_pos) \in Nat
      /\ (q.cur_pos <= st => blocks_for_tokens(q.cur_pos) <= blocks_for_tokens(st))
  BY <1>1, BlocksType, BlocksMonotone
<1> HIDE DEF k
<1>7. ASSUME SlotInStep(q, e, r, sv, st, pd) PROVE PhasePrefill(q, e, r, st, pd)
  <2>1. k = 0 /\ q.cur_pos + k = q.cur_pos
    BY <1>1, <1>7 DEF SlotInStep, k
  <2>2. MidPrompt(q, st, pd) /\ q.sample_history = Span(1, Len(q.sample_history))
    BY <1>7 DEF SlotInStep
  <2>3. /\ r = Span(1, q.cur_pos + k) /\ e.kv_seq_len = q.cur_pos + k
        /\ q.cur_pos <= q.prompt_len /\ blocks_for_tokens(q.prompt_len) <= e.owned /\ st >= 1
    BY <1>7 DEF SlotInStep, k
  <2> QED BY <1>3, <2>1, <2>2, <2>3 DEF PhasePrefill, MidPrompt
<1>8. ASSUME PhasePrefill(q, e, r, st, pd) PROVE SlotInStep(q, e, r, sv, st, pd)
  <2>1. k = 0 /\ q.cur_pos + k = q.cur_pos
    BY <1>1, <1>3, <1>8 DEF PhasePrefill
  <2>2. MidPrompt(q, st, pd) /\ q.sample_history = Span(1, Len(q.sample_history))
    BY <1>5, <1>8 DEF PhasePrefill, MidPrompt
  <2>3. /\ r = Span(1, q.cur_pos + k) /\ e.kv_seq_len = q.cur_pos + k /\ q.cur_pos + k <= MaxCtx
        /\ blocks_for_tokens(e.kv_seq_len) <= e.owned
        /\ q.cur_pos <= q.prompt_len /\ blocks_for_tokens(q.prompt_len) <= e.owned /\ st >= 1
        /\ q.staged_tokens = Span(st, st + k - 1)
    BY <1>1, <1>2, <1>4, <1>6, <1>8, <2>1 DEF PhasePrefill
  <2> QED BY <2>1, <2>2, <2>3 DEF SlotInStep, k
<1> QED BY <1>7, <1>8

LEMMA DecodePhase ==
  ASSUME NEW q \in SeqSlot, q.phase = "decode", NEW e \in KvSequence, NEW r, NEW sv,
         NEW st \in Nat, NEW pd
  PROVE  SlotInStep(q, e, r, sv, st, pd) <=> PhaseDecode(q, e, r, st, pd)
<1>1. q.cur_pos \in Nat /\ q.prompt_len \in Nat
  BY SlotTyped
<1>2. st >= 1 => Len(Span(1, st - 1)) = st - 1
  BY SpanFromOne
<1>3. ASSUME SlotInStep(q, e, r, sv, st, pd) PROVE PhaseDecode(q, e, r, st, pd)
  <2>1. Generating(q, st, pd) /\ q.sample_history = Span(1, Len(q.sample_history))
    BY <1>3 DEF SlotInStep
  <2>2. q.cur_pos = st - 1
    BY <1>1, <2>1 DEF Generating
  <2> QED BY <1>3, <2>1, <2>2 DEF SlotInStep, PhaseDecode, Generating
<1>4. ASSUME PhaseDecode(q, e, r, st, pd) PROVE SlotInStep(q, e, r, sv, st, pd)
  <2>1. Generating(q, st, pd) /\ q.sample_history = Span(1, Len(q.sample_history))
    BY <1>1, <1>2, <1>4 DEF PhaseDecode, Generating
  <2> QED BY <1>4, <2>1 DEF SlotInStep, PhaseDecode
<1> QED BY <1>3, <1>4

LEMMA SuspendedPhase ==
  ASSUME NEW q \in SeqSlot, q.phase = "suspended", NEW e \in KvSequence, NEW r, NEW sv,
         NEW st \in Nat, NEW pd
  PROVE  SlotInStep(q, e, r, sv, st, pd) <=> PhaseSuspended(q, e, r, sv, st, pd)
<1> DEFINE k == Len(q.staged_tokens)
           A == MidPrompt(q, st, pd) /\ q.cur_pos < q.prompt_len
           B == Generating(q, st, pd)
           hist == q.sample_history = Span(1, Len(q.sample_history))
           A2 == /\ pd = NoToken /\ st = q.prompt_len /\ q.cur_pos < st
                 /\ q.sample_history = Span(1, st)
           B2 == /\ pd = st /\ q.cur_pos = st - 1 /\ q.prompt_len <= q.cur_pos
                 /\ q.sample_history = Span(1, st - 1)
<1>1. q.cur_pos \in Nat /\ q.prompt_len \in Nat
  BY SlotTyped
<1>2. (q.staged_tokens = << >> <=> k = 0)
      /\ (q.staged_tokens = << >> => q.staged_tokens = Span(st, st + k - 1))
  BY NothingStaged
<1>3. Len(Span(1, st)) = st /\ (st >= 1 => Len(Span(1, st - 1)) = st - 1)
  BY SpanFromOne
<1>4. st >= 1 => (hist /\ A <=> A2)
  BY <1>1, <1>3 DEF MidPrompt
<1>5. st >= 1 => (hist /\ B <=> B2)
  <2>1. ASSUME st >= 1, hist, B PROVE B2
    <3>1. q.cur_pos = st - 1
      BY <1>1, <2>1 DEF Generating
    <3> QED BY <2>1, <3>1 DEF Generating
  <2>2. ASSUME st >= 1, B2 PROVE hist /\ B
    BY <1>1, <1>3, <2>2 DEF Generating
  <2> QED BY <2>1, <2>2
<1>6. SlotInStep(q, e, r, sv, st, pd)
        <=> /\ hist /\ q.staged_tokens = Span(st, st + k - 1) /\ k = 0 /\ st >= 1 /\ r = << >>
            /\ e.kv_seq_len = 0 /\ e.owned = 0 /\ sv = Span(1, q.cur_pos) /\ (A \/ B)
  BY DEF SlotInStep
<1>7. PhaseSuspended(q, e, r, sv, st, pd)
        <=> /\ q.staged_tokens = << >> /\ st >= 1 /\ r = << >>
            /\ e.kv_seq_len = 0 /\ e.owned = 0 /\ sv = Span(1, q.cur_pos) /\ (A2 \/ B2)
  BY DEF PhaseSuspended
<1> HIDE DEF A, B, A2, B2, hist, k
<1> QED BY <1>2, <1>4, <1>5, <1>6, <1>7

LEMMA RecomputePhase ==
  ASSUME NEW q \in SeqSlot, q.phase = "recompute", NEW e \in KvSequence, NEW r, NEW sv,
         NEW st \in Nat, NEW pd
  PROVE  SlotInStep(q, e, r, sv, st, pd) <=> PhaseRecompute(q, e, r, st, pd)
<1>1. (q.staged_tokens = << >> <=> Len(q.staged_tokens) = 0)
      /\ (q.staged_tokens = << >> => q.staged_tokens = Span(st, st + Len(q.staged_tokens) - 1))
  BY NothingStaged
<1>2. Len(Span(1, st)) = st
  BY SpanFromOne
<1> QED BY <1>1, <1>2 DEF SlotInStep, PhaseRecompute

(* A slot without a request. *)
LEMMA FreePhase ==
  /\ FreeSlot \in SeqSlot /\ FreeSlot.phase = "free"
  /\ \A e, sv, pd : SlotInStep(FreeSlot, e, << >>, sv, 0, pd)
<1>1. 0 \in Slots /\ 0 \in Nat /\ 0 \in 0 .. MaxCtx
  BY ManagerDimensions DEF Slots
<1>2. FreeSlot \in SeqSlot
  BY <1>1 DEF FreeSlot, SeqSlot
<1>3. Span(1, 1 - 1) = << >> /\ Span(0, 0 - 1) = << >> /\ Len(<< >>) = 0
  BY <1>1, SpanEmpty
<1>4. /\ FreeSlot.phase = "free" /\ FreeSlot.sample_history = << >>
      /\ FreeSlot.staged_tokens = << >>
  BY DEF FreeSlot
<1>5. 1 - 1 = 0 /\ 0 + 0 - 1 = 0 - 1
  OBVIOUS
<1>6. Span(1, 0) = << >> /\ Span(0, 0 + 0 - 1) = << >>
  BY <1>3, <1>5
<1> QED BY <1>2, <1>3, <1>4, <1>6 DEF SlotInStep

-----------------------------------------------------------------------------
(* One operation on one slot.                                              *)

(* ManagerInv, with K for the allocator. *)
Carries(K) ==
  /\ KvTyped(K) /\ Balance(K) = NumBlocks
  /\ \A p \in Slots : ~ live(K, p) => K.seqs[p].owned = 0
  /\ \A t \in Slots : active(t) => live(K, slots[t].handle)
  /\ \A t \in Slots : SlotInStep(slots[t], K.seqs[slots[t].handle], rows[t], saved[t],
                                 stream[t], pending[t])

SlotVarsTyped ==
  /\ slots \in [Slots -> SeqSlot]
  /\ saved \in [Slots -> Seq(Nat)] /\ rows \in [Slots -> Seq(Nat)]
  /\ stream \in [Slots -> Nat] /\ pending \in [Slots -> Nat]

HandlesDistinct ==
  \A s, t \in Slots : active(s) /\ active(t) /\ slots[t].handle = slots[s].handle => t = s

LEMMA InvParts == ManagerInv <=> SlotVarsTyped /\ HandlesDistinct /\ Carries(kv)
<1>1. BlocksAddUp <=> Balance(kv) = NumBlocks
  BY DEF BlocksAddUp, Balance, Owned
<1>2. HandlesExclusive <=> /\ HandlesDistinct
                           /\ \A p \in Slots : ~ live(kv, p) => kv.seqs[p].owned = 0
                           /\ \A t \in Slots : active(t) => live(kv, slots[t].handle)
  BY DEF HandlesExclusive, HandlesDistinct
<1>3. ManagerTypeOK <=> SlotVarsTyped /\ KvTyped(kv)
  BY DEF ManagerTypeOK, SlotVarsTyped, KvTyped
<1> QED BY <1>1, <1>2, <1>3 DEF ManagerInv, Carries, SlotsInStep

LEMMA InvPartsNext == ManagerInv' <=> SlotVarsTyped' /\ HandlesDistinct' /\ Carries(kv)'
<1>1. BlocksAddUp' <=> Balance(kv)' = NumBlocks
  BY DEF BlocksAddUp, Balance, Owned
<1>2. HandlesExclusive' <=> /\ HandlesDistinct'
                            /\ \A p \in Slots : ~ live(kv, p)' => kv'.seqs[p].owned = 0
                            /\ \A t \in Slots : active(t)' => live(kv, slots[t].handle)'
  BY DEF HandlesExclusive, HandlesDistinct
<1>3. ManagerTypeOK' <=> SlotVarsTyped' /\ KvTyped(kv)'
  BY DEF ManagerTypeOK, SlotVarsTyped, KvTyped
<1> QED BY <1>1, <1>2, <1>3 DEF ManagerInv, Carries, SlotsInStep

(* The step changes slot s and the sequence p, which no other slot uses. *)
LEMMA SlotStep ==
  ASSUME NEW K, Carries(K), SlotVarsTyped, HandlesDistinct,
         NEW s \in Slots, NEW p \in Slots, NEW e \in KvSequence,
         \A t \in Slots \ {s} : active(t) => slots[t].handle # p,
         Updates(K, kv', p, e), e.request_id = NoRequest => e.owned = 0,
         SlotVarsTyped',
         \A t \in Slots \ {s} :
           /\ slots'[t] = slots[t] /\ rows'[t] = rows[t] /\ saved'[t] = saved[t]
           /\ stream'[t] = stream[t] /\ pending'[t] = pending[t],
         slots'[s].phase # "free" => slots'[s].handle = p /\ e.request_id # NoRequest,
         SlotInStep(slots'[s], e, rows'[s], saved'[s], stream'[s], pending'[s])
  PROVE  ManagerInv'
<1>1. /\ KvTyped(kv') /\ Balance(kv') = NumBlocks
      /\ \A t \in Slots : kv'.seqs[t] = IF t = p THEN e ELSE K.seqs[t]
  BY DEF Updates, Carries
<1>2. \A t \in Slots \ {s} : active(t)' = active(t)
  BY DEF active
<1>3. \A t \in Slots : slots[t].handle \in Slots /\ slots'[t].handle \in Slots
  BY DEF SlotVarsTyped, SeqSlot
<1>4. HandlesDistinct'
  BY <1>2 DEF HandlesDistinct, active
<1>5. \A t \in Slots : ~ live(kv', t) => kv'.seqs[t].owned = 0
  BY <1>1 DEF Carries, live
<1>6. ASSUME NEW t \in Slots, slots'[t].phase # "free" PROVE live(kv', slots'[t].handle)
  <2>1. CASE t = s
    BY <1>1, <1>6, <2>1 DEF live
  <2>2. CASE t # s
    <3>1. active(t) /\ slots[t].handle # p /\ slots'[t].handle = slots[t].handle
      BY <1>6, <2>2 DEF active
    <3> QED BY <1>1, <1>3, <3>1 DEF live, Carries
  <2> QED BY <2>1, <2>2
<1>7. ASSUME NEW t \in Slots
      PROVE  SlotInStep(slots'[t], kv'.seqs[slots'[t].handle], rows'[t], saved'[t],
                        stream'[t], pending'[t])
  <2>1. CASE t = s
    <3>1. CASE slots'[s].phase # "free"
      BY <1>1, <2>1, <3>1
    <3>2. CASE slots'[s].phase = "free"
      BY <2>1, <3>2 DEF SlotInStep
    <3> QED BY <3>1, <3>2
  <2>2. CASE t # s
    <3>1. SlotInStep(slots[t], K.seqs[slots[t].handle], rows[t], saved[t], stream[t], pending[t])
      BY DEF Carries
    <3>2. SlotInStep(slots'[t], K.seqs[slots[t].handle], rows'[t], saved'[t], stream'[t],
                     pending'[t])
      BY <2>2, <3>1
    <3>3. CASE slots'[t].phase # "free"
      <4>1. kv'.seqs[slots'[t].handle] = K.seqs[slots[t].handle]
        BY <1>1, <1>3, <2>2, <3>3 DEF active
      <4> QED BY <3>2, <4>1
    <3>4. CASE slots'[t].phase = "free"
      BY <3>2, <3>4 DEF SlotInStep
    <3> QED BY <3>3, <3>4
  <2> QED BY <2>1, <2>2
<1>8. Carries(kv)'
  BY <1>1, <1>5, <1>6, <1>7 DEF Carries, active
<1> QED BY <1>4, <1>8, InvPartsNext

(* What the invariant says of one slot. *)
LEMMA SlotFacts ==
  ASSUME ManagerInv, NEW s \in Slots
  PROVE  /\ slots[s] \in SeqSlot /\ slots[s].handle \in Slots
         /\ kv.seqs[slots[s].handle] \in KvSequence
         /\ rows[s] \in Seq(Nat) /\ saved[s] \in Seq(Nat)
         /\ stream[s] \in Nat /\ pending[s] \in Nat
         /\ SlotInStep(slots[s], kv.seqs[slots[s].handle], rows[s], saved[s], stream[s],
                       pending[s])
         /\ active(s) => live(kv, slots[s].handle)
         /\ KvTyped(kv) /\ SlotVarsTyped
<1>1. SlotVarsTyped /\ Carries(kv)
  BY InvParts
<1>2. slots[s] \in SeqSlot /\ slots[s].handle \in Slots
  BY <1>1 DEF SlotVarsTyped, SeqSlot
<1> QED BY <1>1, <1>2 DEF SlotVarsTyped, Carries, KvTyped

LEMMA KvSame ==
  ASSUME NEW p \in Slots, KvTyped(kv), kv' = kv
  PROVE  Updates(kv, kv', p, kv.seqs[p])
BY DEF Updates

(* A slot that stays with its sequence. *)
LEMMA OwnSlotStep ==
  ASSUME ManagerInv, NEW s \in Slots, active(s),
         NEW q \in SeqSlot, q.handle = slots[s].handle, q.phase # "free",
         NEW e \in KvSequence, e.request_id = kv.seqs[slots[s].handle].request_id,
         Updates(kv, kv', slots[s].handle, e),
         NEW r \in Seq(Nat), NEW sv \in Seq(Nat), NEW st \in Nat, NEW pd \in Nat,
         slots' = [slots EXCEPT ![s] = q],
         (rows' = rows /\ r = rows[s]) \/ rows' = [rows EXCEPT ![s] = r],
         (saved' = saved /\ sv = saved[s]) \/ saved' = [saved EXCEPT ![s] = sv],
         (stream' = stream /\ st = stream[s]) \/ stream' = [stream EXCEPT ![s] = st],
         (pending' = pending /\ pd = pending[s]) \/ pending' = [pending EXCEPT ![s] = pd],
         SlotInStep(q, e, r, sv, st, pd)
  PROVE  ManagerInv'
<1>1. SlotVarsTyped /\ HandlesDistinct /\ Carries(kv)
  BY InvParts
<1>2. slots[s].handle \in Slots /\ e.request_id # NoRequest
  <2>1. slots[s].handle \in Slots /\ live(kv, slots[s].handle)
    BY SlotFacts
  <2> QED BY <2>1 DEF live
<1>3. SlotVarsTyped'
  <2>1. slots' \in [Slots -> SeqSlot]
    BY <1>1 DEF SlotVarsTyped
  <2>2. rows' \in [Slots -> Seq(Nat)] /\ saved' \in [Slots -> Seq(Nat)]
    BY <1>1 DEF SlotVarsTyped
  <2>3. stream' \in [Slots -> Nat] /\ pending' \in [Slots -> Nat]
    BY <1>1 DEF SlotVarsTyped
  <2> QED BY <2>1, <2>2, <2>3 DEF SlotVarsTyped
<1>4. \A t \in Slots \ {s} :
        /\ slots'[t] = slots[t] /\ rows'[t] = rows[t] /\ saved'[t] = saved[t]
        /\ stream'[t] = stream[t] /\ pending'[t] = pending[t]
  BY <1>1 DEF SlotVarsTyped
<1>5. /\ slots'[s] = q /\ rows'[s] = r /\ saved'[s] = sv
      /\ stream'[s] = st /\ pending'[s] = pd
  BY <1>1 DEF SlotVarsTyped
<1>6. \A t \in Slots \ {s} : active(t) => slots[t].handle # slots[s].handle
  BY <1>1 DEF HandlesDistinct
<1>7. /\ slots'[s].phase # "free" => slots'[s].handle = slots[s].handle /\ e.request_id # NoRequest
      /\ e.request_id = NoRequest => e.owned = 0
      /\ SlotInStep(slots'[s], e, rows'[s], saved'[s], stream'[s], pending'[s])
  BY <1>2, <1>5
<1> QED BY <1>1, <1>2, <1>3, <1>4, <1>6, <1>7, SlotStep

LEMMA PrefillInv ==
  ASSUME ManagerInv, NEW s \in Slots, NEW n \in Nat, append_prefill(s, n)
  PROVE  ManagerInv'
<1> DEFINE q == slots[s]
           p == q.handle
           k == kv.seqs[p]
           c == q.cur_pos + n
           e == [request_id |-> k.request_id, kv_seq_len |-> k.kv_seq_len + n,
                 owned |-> Greatest(k.owned, blocks_for_tokens(k.kv_seq_len + n))]
           q2 == [q EXCEPT !.cur_pos = c]
           r == rows[s] \o SubSeq(q.sample_history, q.cur_pos + 1, c)
<1>1. /\ q \in SeqSlot /\ p \in Slots /\ k \in KvSequence /\ KvTyped(kv)
      /\ stream[s] \in Nat /\ saved[s] \in Seq(Nat) /\ pending[s] \in Nat
      /\ q.phase = "prefill" /\ active(s)
      /\ SlotInStep(q, k, rows[s], saved[s], stream[s], pending[s])
  BY SlotFacts DEF append_prefill, prefilling, active
<1>2. PhasePrefill(q, k, rows[s], stream[s], pending[s])
  BY <1>1, PrefillPhase
<1>3. /\ n >= 1 /\ n <= q.prompt_len - q.cur_pos /\ append_ok(kv, p, n)
      /\ kv' = append(kv, p, n) /\ slots' = [slots EXCEPT ![s] = q2]
      /\ rows' = [rows EXCEPT ![s] = r] /\ UNCHANGED <<saved, stream, pending>>
  BY <1>1, SlotFacts DEF append_prefill, SlotVarsTyped
<1>4. Updates(kv, kv', p, e) /\ k.kv_seq_len + n \in Tokens
  BY <1>1, <1>3, AppendUpdates
<1>5. /\ q.prompt_len \in Nat /\ q.cur_pos \in Nat /\ q.prompt_len <= MaxCtx
      /\ k.owned \in Nat /\ k.kv_seq_len \in Nat
      /\ k.request_id \in RequestIds \cup {NoRequest}
  BY <1>1, SlotTyped DEF KvSequence, Tokens
<1>6. c \in 0 .. MaxCtx /\ c <= stream[s] /\ k.kv_seq_len = q.cur_pos
  <2>1. n >= 1 /\ n <= q.prompt_len - q.cur_pos /\ MaxCtx \in Nat
    BY <1>3, ManagerDimensions
  <2>2. q.prompt_len = stream[s] /\ k.kv_seq_len = q.cur_pos
    BY <1>2 DEF PhasePrefill
  <2> HIDE DEF q, k
  <2> QED BY <1>5, <2>1, <2>2
<1>7. q2 \in SeqSlot /\ q2.phase = "prefill" /\ q2.handle = p /\ q2.cur_pos = c
      /\ q2.staged_tokens = q.staged_tokens /\ q2.sample_history = q.sample_history
      /\ q2.prompt_len = q.prompt_len
  BY <1>1, <1>6 DEF SeqSlot
<1>8. /\ e \in KvSequence /\ e.request_id = k.request_id /\ e.kv_seq_len = c
      /\ blocks_for_tokens(stream[s]) <= e.owned
  <2>1. blocks_for_tokens(k.kv_seq_len + n) \in Nat /\ blocks_for_tokens(stream[s]) \in Nat
    <3>1. k.kv_seq_len + n \in Nat
      BY <1>5
    <3> QED BY <1>1, <3>1, BlocksType
  <2>2. Greatest(k.owned, blocks_for_tokens(k.kv_seq_len + n)) \in Nat
        /\ k.owned <= Greatest(k.owned, blocks_for_tokens(k.kv_seq_len + n))
    BY <1>5, <2>1 DEF Greatest
  <2>3. blocks_for_tokens(stream[s]) <= k.owned
    BY <1>2 DEF PhasePrefill
  <2>4. e \in KvSequence
    BY <1>4, <1>5, <2>2 DEF KvSequence
  <2>5. e.kv_seq_len = c /\ e.owned = Greatest(k.owned, blocks_for_tokens(k.kv_seq_len + n))
    BY <1>6
  <2> HIDE DEF e
  <2>6. e.owned \in Nat /\ k.owned <= e.owned
    BY <2>2, <2>5
  <2>7. blocks_for_tokens(stream[s]) <= e.owned
    BY <1>5, <2>1, <2>3, <2>6
  <2> QED BY <2>4, <2>5, <2>7 DEF e
<1>9. r = Span(1, c)
  <2>1. SubSeq(Span(1, stream[s]), q.cur_pos + 1, q.cur_pos + n) = Span(q.cur_pos + 1, q.cur_pos + n)
    BY <1>1, <1>5, <1>6, SpanSub
  <2>2. Span(1, q.cur_pos) \o Span(q.cur_pos + 1, q.cur_pos + n) = Span(1, q.cur_pos + n)
    BY <1>5, SpanConcat
  <2> QED BY <1>2, <2>1, <2>2 DEF PhasePrefill
<1> HIDE DEF q2, e, r, c
<1>10. r \in Seq(Nat)
  BY <1>6, <1>9, ManagerDimensions, SpanFromOne
<1>11. PhasePrefill(q2, e, r, stream[s], pending[s])
  BY <1>2, <1>6, <1>7, <1>8, <1>9 DEF PhasePrefill
<1>12. SlotInStep(q2, e, r, saved[s], stream[s], pending[s])
  BY <1>1, <1>7, <1>8, <1>11, PrefillPhase
<1>13. q2.phase # "free" /\ saved' = saved /\ stream' = stream /\ pending' = pending
  BY <1>3, <1>7
<1> QED BY <1>1, <1>3, <1>4, <1>7, <1>8, <1>10, <1>12, <1>13, OwnSlotStep

LEMMA CommitPrefillInv ==
  ASSUME ManagerInv, NEW s \in Slots, commit_prefill(s)
  PROVE  ManagerInv'
<1> DEFINE q == slots[s]
           p == q.handle
           k == kv.seqs[p]
           q2 == [q EXCEPT !.phase = "decode"]
           st == stream[s] + 1
<1>1. /\ q \in SeqSlot /\ p \in Slots /\ k \in KvSequence /\ KvTyped(kv)
      /\ stream[s] \in Nat /\ saved[s] \in Seq(Nat) /\ rows[s] \in Seq(Nat)
      /\ q.phase = "prefill" /\ active(s)
      /\ SlotInStep(q, k, rows[s], saved[s], stream[s], pending[s])
  BY SlotFacts DEF commit_prefill, prefilling, active
<1>2. PhasePrefill(q, k, rows[s], stream[s], pending[s])
  BY <1>1, PrefillPhase
<1>3. /\ q.cur_pos = q.prompt_len /\ kv' = kv /\ slots' = [slots EXCEPT ![s] = q2]
      /\ stream' = [stream EXCEPT ![s] = st] /\ pending' = [pending EXCEPT ![s] = st]
      /\ rows' = rows /\ saved' = saved
  BY <1>1, SlotFacts DEF commit_prefill, SlotVarsTyped
<1>4. Updates(kv, kv', p, k)
  BY <1>1, <1>3, KvSame
<1>5. /\ q.prompt_len \in Nat /\ q.cur_pos \in Nat /\ q.cur_pos <= MaxCtx
      /\ k.owned \in Nat /\ MaxCtx \in Nat
  BY <1>1, SlotTyped, ManagerDimensions DEF KvSequence
<1>6. q2 \in SeqSlot /\ q2.phase = "decode" /\ q2.handle = p /\ q2.cur_pos = q.cur_pos
      /\ q2.staged_tokens = q.staged_tokens /\ q2.sample_history = q.sample_history
      /\ q2.prompt_len = q.prompt_len
  BY <1>1 DEF SeqSlot
<1>7. st \in Nat /\ st - 1 = stream[s] /\ st >= 1
  BY <1>1
<1>8. Span(st, st - 1) = << >> /\ Len(<< >>) = 0
  BY <1>7, SpanEmpty
<1> HIDE DEF q2, st
<1>9. PhaseDecode(q2, k, rows[s], st, st)
  <2>1. q.cur_pos = stream[s] /\ q2.staged_tokens = << >> /\ k.kv_seq_len = q.cur_pos
        /\ rows[s] = Span(1, q.cur_pos) /\ q.sample_history = Span(1, stream[s])
        /\ blocks_for_tokens(stream[s]) <= k.owned
    BY <1>2, <1>3, <1>6 DEF PhasePrefill
  <2>2. Len(q2.staged_tokens) = 0 /\ q.cur_pos + 0 = q.cur_pos /\ st + 0 - 1 = st - 1
    BY <1>5, <1>7, <1>8, <2>1
  <2>3. q2.staged_tokens = Span(st, st + Len(q2.staged_tokens) - 1)
    BY <1>8, <2>1, <2>2
  <2> QED BY <1>3, <1>5, <1>6, <1>7, <2>1, <2>2, <2>3 DEF PhaseDecode
<1>10. SlotInStep(q2, k, rows[s], saved[s], st, st)
  BY <1>1, <1>6, <1>7, <1>9, DecodePhase
<1>11. q2.phase # "free"
  BY <1>6
<1> HIDE DEF q, k
<1> QED BY <1>1, <1>3, <1>4, <1>6, <1>7, <1>10, <1>11, OwnSlotStep DEF q, k

LEMMA AppendTokensInv ==
  ASSUME ManagerInv, NEW s \in Slots, NEW n \in Nat, append_tokens(s, n)
  PROVE  ManagerInv'
<1> DEFINE q == slots[s]
           p == q.handle
           k == kv.seqs[p]
           c == q.cur_pos + n
           e == [request_id |-> k.request_id, kv_seq_len |-> k.kv_seq_len + n,
                 owned |-> Greatest(k.owned, blocks_for_tokens(k.kv_seq_len + n))]
           st == stream[s]
           fed == Span(pending[s], pending[s] + n - 1)
           q2 == [q EXCEPT !.staged_tokens = fed]
           r == rows[s] \o fed
<1>1. /\ q \in SeqSlot /\ p \in Slots /\ k \in KvSequence /\ KvTyped(kv)
      /\ st \in Nat /\ saved[s] \in Seq(Nat) /\ pending[s] \in Nat
      /\ q.phase = "decode" /\ active(s)
      /\ SlotInStep(q, k, rows[s], saved[s], st, pending[s])
  BY SlotFacts DEF append_tokens, decoding, active
<1>2. PhaseDecode(q, k, rows[s], st, pending[s])
  BY <1>1, DecodePhase
<1>3. n >= 1 /\ q.staged_tokens = << >> /\ n <= MaxCtx - q.cur_pos /\ append_ok(kv, p, n)
  BY DEF append_tokens
<1>4. /\ kv' = append(kv, p, n) /\ slots' = [slots EXCEPT ![s] = q2]
      /\ rows' = [rows EXCEPT ![s] = r] /\ UNCHANGED <<saved, stream, pending>>
  BY <1>1, SlotFacts DEF append_tokens, SlotVarsTyped
<1>5. Updates(kv, kv', p, e) /\ k.kv_seq_len + n \in Tokens
  BY <1>1, <1>3, <1>4, AppendUpdates
<1>6. /\ q.prompt_len \in Nat /\ q.cur_pos \in Nat /\ q.prompt_len <= MaxCtx
      /\ k.owned \in Nat /\ k.kv_seq_len \in Nat /\ MaxCtx \in Nat
      /\ k.request_id \in RequestIds \cup {NoRequest}
  BY <1>1, SlotTyped, ManagerDimensions DEF KvSequence, Tokens
<1>7. /\ st >= 1 /\ pending[s] = st /\ q.cur_pos = st - 1 /\ q.prompt_len <= q.cur_pos
      /\ q.sample_history = Span(1, st - 1) /\ rows[s] = Span(1, q.cur_pos)
      /\ k.kv_seq_len = q.cur_pos
  <2>1. Len(q.staged_tokens) = 0
    BY <1>3, SpanEmpty
  <2>2. q.cur_pos + Len(q.staged_tokens) = q.cur_pos
    BY <1>6, <2>1
  <2> QED BY <1>2, <2>2 DEF PhaseDecode
<1>8. fed = Span(st, st + n - 1) /\ fed \in Seq(Nat) /\ Len(fed) = n
  <2>1. st + n - 1 \in Int /\ st - 1 <= st + n - 1 /\ st + n - 1 - st + 1 = n
    BY <1>1, <1>3
  <2>2. Span(st, st + n - 1) \in Seq(Nat) /\ Len(Span(st, st + n - 1)) = st + n - 1 - st + 1
    <3> DEFINE b == st + n - 1
    <3>1. b \in Int /\ st - 1 <= b
      BY <2>1
    <3> HIDE DEF b, st
    <3>2. Span(st, b) \in Seq(Nat) /\ Len(Span(st, b)) = b - st + 1
      BY <1>1, <3>1, SpanProps
    <3>3. b - st + 1 = n
      BY <1>1 DEF b, st
    <3> QED BY <2>1, <3>2, <3>3 DEF b
  <2> QED BY <1>7, <2>1, <2>2
<1> HIDE DEF fed
<1>9. q2 \in SeqSlot /\ q2.phase = "decode" /\ q2.handle = p /\ q2.cur_pos = q.cur_pos
      /\ q2.staged_tokens = fed /\ q2.sample_history = q.sample_history
      /\ q2.prompt_len = q.prompt_len
  BY <1>1, <1>8 DEF SeqSlot
<1>10. c \in Nat /\ c <= MaxCtx /\ st - 1 + n = c /\ st - 1 + 1 = st /\ st - 1 \in Nat
       /\ st + n - 1 = c /\ k.kv_seq_len + n = c
  <2> HIDE DEF q, k, st
  <2> QED BY <1>1, <1>3, <1>6, <1>7
<1>11. r = Span(1, c)
  <2>1. Span(1, st - 1) \o Span(st - 1 + 1, st - 1 + n) = Span(1, st - 1 + n)
    BY <1>10, SpanConcat
  <2>2. rows[s] = Span(1, st - 1) /\ fed = Span(st - 1 + 1, st - 1 + n)
    BY <1>7, <1>8, <1>10
  <2> QED BY <1>10, <2>1, <2>2
<1>12. e \in KvSequence /\ e.request_id = k.request_id /\ e.kv_seq_len = c
       /\ blocks_for_tokens(c) <= e.owned
  <2>1. blocks_for_tokens(c) \in Nat
    BY <1>10, BlocksType
  <2>2. Greatest(k.owned, blocks_for_tokens(k.kv_seq_len + n)) \in Nat
        /\ blocks_for_tokens(c) <= Greatest(k.owned, blocks_for_tokens(k.kv_seq_len + n))
    BY <1>6, <1>10, <2>1 DEF Greatest
  <2> QED BY <1>5, <1>6, <1>10, <2>2 DEF KvSequence
<1> HIDE DEF q2, e, r, c
<1>13. r \in Seq(Nat)
  BY <1>10, <1>11, SpanFromOne
<1>14. PhaseDecode(q2, e, r, st, pending[s])
  <2>1. q2.cur_pos + Len(q2.staged_tokens) = c
    BY <1>8, <1>9 DEF c
  <2> QED BY <1>7, <1>8, <1>9, <1>10, <1>11, <1>12, <2>1 DEF PhaseDecode
<1>15. SlotInStep(q2, e, r, saved[s], st, pending[s])
  BY <1>1, <1>9, <1>12, <1>14, DecodePhase
<1>16. q2.phase # "free" /\ saved' = saved /\ stream' = stream /\ pending' = pending
  BY <1>4, <1>9
<1> HIDE DEF q, k, st
<1> QED BY <1>1, <1>4, <1>5, <1>9, <1>12, <1>13, <1>15, <1>16, OwnSlotStep DEF q, k, st

(* Only a decoder has staged tokens. *)
LEMMA StagedDecodes ==
  ASSUME ManagerInv, NEW s \in Slots, Len(slots[s].staged_tokens) > 0
  PROVE  /\ slots[s].phase = "decode" /\ active(s)
         /\ PhaseDecode(slots[s], kv.seqs[slots[s].handle], rows[s], stream[s], pending[s])
<1>1. /\ slots[s] \in SeqSlot /\ kv.seqs[slots[s].handle] \in KvSequence /\ stream[s] \in Nat
      /\ SlotInStep(slots[s], kv.seqs[slots[s].handle], rows[s], saved[s], stream[s], pending[s])
  BY SlotFacts
<1>2. Len(slots[s].staged_tokens) # 0
  BY <1>1, SlotTyped
<1>3. slots[s].phase = "decode"
  BY <1>1, <1>2 DEF SlotInStep
<1> QED BY <1>1, <1>3, DecodePhase DEF active

LEMMA CommitStepInv ==
  ASSUME ManagerInv, NEW s \in Slots, commit_step(s)
  PROVE  ManagerInv'
<1> DEFINE q == slots[s]
           p == q.handle
           k == kv.seqs[p]
           n == Len(q.staged_tokens)
           c == q.cur_pos + n
           h == q.sample_history \o q.staged_tokens
           q2 == [q EXCEPT !.sample_history = h, !.cur_pos = c, !.staged_tokens = <<>>]
           st == stream[s] + n
<1>1. /\ q \in SeqSlot /\ p \in Slots /\ k \in KvSequence /\ KvTyped(kv)
      /\ stream[s] \in Nat /\ saved[s] \in Seq(Nat) /\ rows[s] \in Seq(Nat)
      /\ q.cur_pos \in Nat /\ q.prompt_len \in Nat /\ n \in Nat /\ MaxCtx \in Nat
  BY SlotFacts, SlotTyped, ManagerDimensions
<1>2. /\ n > 0 /\ kv' = kv /\ slots' = [slots EXCEPT ![s] = q2]
      /\ stream' = [stream EXCEPT ![s] = st] /\ pending' = [pending EXCEPT ![s] = st]
      /\ rows' = rows /\ saved' = saved
  <2>1. slots' = [slots EXCEPT ![s] = q2]
    BY DEF commit_step
  <2>2. n > 0 /\ kv' = kv /\ rows' = rows /\ saved' = saved
    BY DEF commit_step
  <2>3. stream' = [stream EXCEPT ![s] = st] /\ pending' = [pending EXCEPT ![s] = st]
    BY SlotFacts DEF commit_step, SlotVarsTyped
  <2> QED BY <2>1, <2>2, <2>3
<1>3. q.phase = "decode" /\ active(s) /\ PhaseDecode(q, k, rows[s], stream[s], pending[s])
  BY <1>2, StagedDecodes
<1>4. Updates(kv, kv', p, k)
  BY <1>1, <1>2, KvSame
<1>5. /\ stream[s] >= 1 /\ q.cur_pos = stream[s] - 1 /\ q.prompt_len <= q.cur_pos
      /\ q.cur_pos + n <= MaxCtx /\ q.sample_history = Span(1, stream[s] - 1)
      /\ q.staged_tokens = Span(stream[s], stream[s] + n - 1)
      /\ rows[s] = Span(1, c) /\ k.kv_seq_len = c /\ blocks_for_tokens(k.kv_seq_len) <= k.owned
  BY <1>3 DEF PhaseDecode
<1> HIDE DEF n
<1>6. /\ c \in Nat /\ c <= MaxCtx /\ st \in Nat /\ st >= 1 /\ c = st - 1
      /\ stream[s] - 1 \in Nat /\ stream[s] - 1 + 1 = stream[s] /\ stream[s] - 1 + n = c
      /\ stream[s] + n - 1 = c
  <2>1. /\ stream[s] \in Nat /\ stream[s] >= 1 /\ q.cur_pos = stream[s] - 1
        /\ q.cur_pos + n <= MaxCtx /\ n \in Nat /\ q.cur_pos \in Nat /\ n > 0
    BY <1>1, <1>2, <1>5
  <2> QED BY <2>1
<1>7. h = Span(1, c) /\ h \in Seq(Nat)
  <2>2. Span(1, stream[s] - 1) \o Span(stream[s] - 1 + 1, stream[s] - 1 + n)
          = Span(1, stream[s] - 1 + n)
    BY <1>1, <1>6, SpanConcat
  <2>3. h = Span(1, c)
    BY <1>5, <1>6, <2>2
  <2> QED BY <1>6, <2>3, SpanFromOne
<1>8. Span(st, st - 1) = << >> /\ Len(<< >>) = 0
  BY <1>6, SpanEmpty
<1>9. << >> \in Seq(Nat)
  OBVIOUS
<1> HIDE DEF h, c, st
<1>10. q2 \in SeqSlot /\ q2.phase = "decode" /\ q2.handle = p /\ q2.cur_pos = c
       /\ q2.staged_tokens = << >> /\ q2.sample_history = h /\ q2.prompt_len = q.prompt_len
  <2>1. c \in 0 .. MaxCtx
    BY <1>1, <1>6
  <2> QED BY <1>1, <1>3, <1>7, <1>9, <2>1 DEF SeqSlot
<1> HIDE DEF q2, q, k
<1>11. PhaseDecode(q2, k, rows[s], st, st)
  <2>1. Len(q2.staged_tokens) = 0 /\ q2.cur_pos + 0 = c /\ st + 0 - 1 = st - 1
    BY <1>6, <1>8, <1>10
  <2>2. q2.prompt_len <= q2.cur_pos
    BY <1>1, <1>5, <1>10 DEF c
  <2>3. q2.staged_tokens = Span(st, st + Len(q2.staged_tokens) - 1)
    BY <1>8, <1>10, <2>1
  <2> QED BY <1>5, <1>6, <1>7, <1>10, <2>1, <2>2, <2>3 DEF PhaseDecode
<1>12. SlotInStep(q2, k, rows[s], saved[s], st, st) /\ q2.phase # "free"
  BY <1>1, <1>6, <1>10, <1>11, DecodePhase
<1> QED BY <1>1, <1>2, <1>3, <1>4, <1>6, <1>10, <1>12, OwnSlotStep DEF q, k

LEMMA RollbackInv ==
  ASSUME ManagerInv, NEW s \in Slots, rollback_step(s)
  PROVE  ManagerInv'
<1> DEFINE q == slots[s]
           p == q.handle
           k == kv.seqs[p]
           n == Len(q.staged_tokens)
           c == q.cur_pos
           st == stream[s]
           e == [request_id |-> k.request_id, kv_seq_len |-> k.kv_seq_len - n, owned |-> k.owned]
           q2 == [q EXCEPT !.staged_tokens = <<>>]
           r == SubSeq(rows[s], 1, Len(rows[s]) - n)
<1>1. /\ q \in SeqSlot /\ p \in Slots /\ k \in KvSequence /\ KvTyped(kv)
      /\ st \in Nat /\ saved[s] \in Seq(Nat) /\ rows[s] \in Seq(Nat) /\ pending[s] \in Nat
      /\ c \in Nat /\ c <= MaxCtx /\ n \in Nat /\ MaxCtx \in Nat
  BY SlotFacts, SlotTyped, ManagerDimensions
<1>2. /\ n > 0 /\ rollback_append_ok(kv, p, n) /\ kv' = rollback_append(kv, p, n)
      /\ slots' = [slots EXCEPT ![s] = q2] /\ rows' = [rows EXCEPT ![s] = r]
      /\ stream' = stream /\ pending' = pending /\ saved' = saved
  BY <1>1, SlotFacts DEF rollback_step, SlotVarsTyped
<1>3. q.phase = "decode" /\ active(s) /\ PhaseDecode(q, k, rows[s], st, pending[s])
  BY <1>2, StagedDecodes
<1>4. Updates(kv, kv', p, e) /\ k.kv_seq_len - n \in Tokens
  BY <1>1, <1>2, RollbackUpdates
<1>5. /\ st >= 1 /\ pending[s] = st /\ c = st - 1 /\ q.prompt_len <= c
      /\ q.sample_history = Span(1, st - 1)
      /\ rows[s] = Span(1, c + n) /\ k.kv_seq_len = c + n
      /\ blocks_for_tokens(k.kv_seq_len) <= k.owned
  BY <1>3 DEF PhaseDecode
<1>6. k.request_id \in RequestIds \cup {NoRequest} /\ k.owned \in Nat
  BY <1>1 DEF KvSequence
<1> HIDE DEF n, c, q, k, st
<1>7. e.kv_seq_len = c /\ e.request_id = k.request_id /\ e.owned = k.owned /\ e \in KvSequence
  <2>1. k.kv_seq_len - n = c
    BY <1>1, <1>5
  <2> QED BY <1>4, <1>6, <2>1 DEF KvSequence
<1>8. blocks_for_tokens(c) <= k.owned
  <2>1. blocks_for_tokens(c) \in Nat /\ blocks_for_tokens(c + n) \in Nat
    <3>1. c + n \in Nat
      BY <1>1
    <3> QED BY <1>1, <3>1, BlocksType
  <2>2. blocks_for_tokens(c) <= blocks_for_tokens(c + n)
    BY <1>1, BlocksMonotone
  <2> QED BY <1>5, <1>6, <2>1, <2>2
<1>9. r = Span(1, c) /\ r \in Seq(Nat)
  <2>1. c + n \in Nat /\ c <= c + n
    BY <1>1
  <2>2. Len(rows[s]) = c + n
    BY <1>5, <2>1, SpanFromOne
  <2>3. Len(rows[s]) - n = c
    BY <1>1, <2>2
  <2>4. SubSeq(Span(1, c + n), 1, c) = Span(1, c)
    BY <1>1, <2>1, SpanFront
  <2> QED BY <1>1, <1>5, <2>3, <2>4, SpanFromOne
<1>10. << >> \in Seq(Nat)
  OBVIOUS
<1>11. q2 \in SeqSlot /\ q2.phase = "decode" /\ q2.handle = p /\ q2.cur_pos = c
       /\ q2.staged_tokens = << >> /\ q2.sample_history = q.sample_history
       /\ q2.prompt_len = q.prompt_len
  BY <1>1, <1>3, <1>10 DEF SeqSlot, c
<1>12. Span(st, st - 1) = << >> /\ Len(<< >>) = 0
  BY <1>1, SpanEmpty
<1> HIDE DEF q2, e, r
<1>13. PhaseDecode(q2, e, r, st, pending[s])
  <2>1. Len(q2.staged_tokens) = 0 /\ c + 0 = c /\ st + 0 - 1 = st - 1
    BY <1>1, <1>11, <1>12
  <2>2. q2.staged_tokens = Span(st, st + Len(q2.staged_tokens) - 1)
    BY <1>11, <1>12, <2>1
  <2> QED BY <1>1, <1>5, <1>7, <1>8, <1>9, <1>11, <2>1, <2>2 DEF PhaseDecode
<1>14. SlotInStep(q2, e, r, saved[s], st, pending[s]) /\ q2.phase # "free"
  BY <1>1, <1>7, <1>11, <1>13, DecodePhase
<1> QED BY <1>1, <1>2, <1>3, <1>4, <1>7, <1>9, <1>11, <1>14, OwnSlotStep DEF q, k, st

LEMMA SuspendInv ==
  ASSUME ManagerInv, NEW s \in Slots, suspend(s)
  PROVE  ManagerInv'
<1> DEFINE q == slots[s]
           p == q.handle
           k == kv.seqs[p]
           st == stream[s]
           pd == pending[s]
           e == [request_id |-> k.request_id, kv_seq_len |-> 0, owned |-> 0]
           q2 == [q EXCEPT !.phase = "suspended"]
<1>1. /\ q \in SeqSlot /\ p \in Slots /\ k \in KvSequence /\ KvTyped(kv)
      /\ st \in Nat /\ rows[s] \in Seq(Nat) /\ pd \in Nat
      /\ q.cur_pos \in Nat /\ q.prompt_len \in Nat
      /\ SlotInStep(q, k, rows[s], saved[s], st, pd)
  BY SlotFacts, SlotTyped
<1>2. /\ q.phase \in {"prefill", "decode"} /\ active(s) /\ q.staged_tokens = << >>
      /\ q.phase = "prefill" => q.cur_pos < q.prompt_len
      /\ kv' = clear(kv, p)
      /\ rows' = [rows EXCEPT ![s] = << >>] /\ saved' = [saved EXCEPT ![s] = rows[s]]
      /\ stream' = stream /\ pending' = pending
  BY DEF suspend, resident, prefilling, decoding, active, detach_kv, StepBoundary
<1>3. slots' = [slots EXCEPT ![s] = q2]
  BY SlotFacts DEF suspend, SlotVarsTyped
<1>4. Updates(kv, kv', p, e)
  BY <1>1, <1>2, ClearUpdates
<1>5. e \in KvSequence /\ e.request_id = k.request_id /\ e.kv_seq_len = 0 /\ e.owned = 0
  <2>1. k.request_id \in RequestIds \cup {NoRequest}
    BY <1>1 DEF KvSequence
  <2> QED BY <2>1, ManagerDimensions DEF KvSequence, Tokens
<1>6. q2 \in SeqSlot /\ q2.phase = "suspended" /\ q2.handle = p /\ q2.cur_pos = q.cur_pos
      /\ q2.staged_tokens = << >> /\ q2.sample_history = q.sample_history
      /\ q2.prompt_len = q.prompt_len
  BY <1>1, <1>2 DEF SeqSlot
<1>7. << >> \in Seq(Nat)
  OBVIOUS
<1>8. PhaseSuspended(q2, e, << >>, rows[s], st, pd)
  <2>1. CASE q.phase = "prefill"
    <3>1. PhasePrefill(q, k, rows[s], st, pd)
      BY <1>1, <2>1, PrefillPhase
    <3> HIDE DEF q2, e, q, k, st, pd
    <3> QED BY <1>2, <1>5, <1>6, <2>1, <3>1 DEF PhasePrefill, PhaseSuspended
  <2>2. CASE q.phase = "decode"
    <3>1. PhaseDecode(q, k, rows[s], st, pd)
      BY <1>1, <2>2, DecodePhase
    <3>2. q.cur_pos + Len(q.staged_tokens) = q.cur_pos
      <4>1. Len(q.staged_tokens) = 0
        BY <1>2, SpanEmpty
      <4> QED BY <1>1, <4>1
    <3> HIDE DEF q2, e, q, k, st, pd
    <3> QED BY <1>2, <1>5, <1>6, <3>1, <3>2 DEF PhaseDecode, PhaseSuspended
  <2> QED BY <1>2, <2>1, <2>2
<1> HIDE DEF q2, e
<1>9. SlotInStep(q2, e, << >>, rows[s], st, pd) /\ q2.phase # "free"
  BY <1>1, <1>5, <1>6, <1>8, SuspendedPhase
<1> QED BY <1>1, <1>2, <1>3, <1>4, <1>5, <1>6, <1>7, <1>9, OwnSlotStep

(* Two calls of the allocator for the same sequence. *)
LEMMA UpdatesTwice ==
  ASSUME NEW K, NEW L, NEW M, NEW p \in Slots, NEW d, NEW e,
         Updates(K, L, p, d), Updates(L, M, p, e)
  PROVE  Updates(K, M, p, e)
BY DEF Updates

LEMMA ResumeCapacity ==
  ASSUME ManagerInv, NEW s \in Slots, suspended(s)
  PROVE  /\ resume_token_capacity(s) \in Nat
         /\ slots[s].prompt_len <= resume_token_capacity(s)
         /\ slots[s].cur_pos <= resume_token_capacity(s)
<1>1. slots[s] \in SeqSlot
  BY SlotFacts
<1>2. /\ slots[s].prompt_len \in Nat /\ slots[s].cur_pos \in Nat /\ slots[s].cur_pos <= MaxCtx
      /\ MaxCtx \in Nat
  BY <1>1, SlotTyped, ManagerDimensions
<1>3. resume_token_capacity(s) = Greatest(slots[s].prompt_len, Least(MaxCtx, slots[s].cur_pos + 1))
  BY DEF resume_token_capacity, suspended, recomputing
<1> QED BY <1>2, <1>3 DEF Greatest, Least

LEMMA RestoreInv ==
  ASSUME ManagerInv, NEW s \in Slots, restore(s)
  PROVE  ManagerInv'
<1> DEFINE q == slots[s]
           p == q.handle
           k == kv.seqs[p]
           st == stream[s]
           pd == pending[s]
           c == q.cur_pos
           m == resume_token_capacity(s)
           L == reserve_capacity(kv, p, m)
           ph == IF c < q.prompt_len THEN "prefill" ELSE "decode"
           q2 == [q EXCEPT !.phase = ph]
<1>1. /\ q \in SeqSlot /\ p \in Slots /\ k \in KvSequence /\ KvTyped(kv)
      /\ st \in Nat /\ saved[s] \in Seq(Nat) /\ pd \in Nat
      /\ c \in Nat /\ c <= MaxCtx /\ q.prompt_len \in Nat /\ MaxCtx \in Nat
      /\ SlotInStep(q, k, rows[s], saved[s], st, pd)
  BY SlotFacts, SlotTyped, ManagerDimensions
<1>2. /\ q.phase = "suspended" /\ active(s) /\ suspended(s)
      /\ reserve_capacity_ok(kv, p, m) /\ append_ok(L, p, c) /\ kv' = append(L, p, c)
      /\ rows' = [rows EXCEPT ![s] = saved[s]] /\ saved' = [saved EXCEPT ![s] = << >>]
      /\ stream' = stream /\ pending' = pending
  BY DEF restore, attach_kv_ok, attach_kv, suspended, active
<1>3. slots' = [slots EXCEPT ![s] = q2]
  BY SlotFacts DEF restore, SlotVarsTyped
<1>4. PhaseSuspended(q, k, rows[s], saved[s], st, pd)
  BY <1>1, <1>2, SuspendedPhase
<1>5. m \in Nat /\ q.prompt_len <= m /\ c <= m
  BY <1>2, ResumeCapacity
<1> HIDE DEF m
<1>6. /\ blocks_for_tokens(m) \in Nat /\ blocks_for_tokens(c) \in Nat
      /\ blocks_for_tokens(q.prompt_len) \in Nat
      /\ blocks_for_tokens(q.prompt_len) <= blocks_for_tokens(m)
      /\ blocks_for_tokens(c) <= blocks_for_tokens(m)
  BY <1>1, <1>5, BlocksType, BlocksMonotone
<1>7. k.kv_seq_len = 0 /\ k.owned = 0 /\ k.request_id \in RequestIds \cup {NoRequest}
  BY <1>1, <1>4 DEF PhaseSuspended, KvSequence
<1> DEFINE d == [request_id |-> k.request_id, kv_seq_len |-> k.kv_seq_len,
                 owned |-> Greatest(k.owned, blocks_for_tokens(m))]
           e == [request_id |-> L.seqs[p].request_id, kv_seq_len |-> L.seqs[p].kv_seq_len + c,
                 owned |-> Greatest(L.seqs[p].owned,
                                    blocks_for_tokens(L.seqs[p].kv_seq_len + c))]
<1>8. Updates(kv, L, p, d)
  BY <1>1, <1>2, <1>5, ReserveUpdates DEF reserve_capacity_ok
<1>9. KvTyped(L) /\ L.seqs[p] = d
  BY <1>1, <1>8 DEF Updates
<1> HIDE DEF L
<1>10. Updates(L, kv', p, e) /\ L.seqs[p].kv_seq_len + c \in Tokens
  BY <1>1, <1>2, <1>9, AppendUpdates
<1>11. Updates(kv, kv', p, e)
  BY <1>1, <1>8, <1>10, UpdatesTwice
<1>12. d.owned = blocks_for_tokens(m) /\ d.kv_seq_len = 0 /\ d.request_id = k.request_id
  BY <1>6, <1>7 DEF Greatest
<1> HIDE DEF d
<1>13. L.seqs[p].kv_seq_len + c = c /\ L.seqs[p].owned = blocks_for_tokens(m)
       /\ L.seqs[p].request_id = k.request_id
  BY <1>1, <1>9, <1>12
<1>14. e \in KvSequence /\ e.request_id = k.request_id /\ e.kv_seq_len = c
       /\ e.owned = blocks_for_tokens(m)
  <2>1. Greatest(blocks_for_tokens(m), blocks_for_tokens(c)) = blocks_for_tokens(m)
    BY <1>6 DEF Greatest
  <2>2. e = [request_id |-> k.request_id, kv_seq_len |-> c, owned |-> blocks_for_tokens(m)]
    BY <1>13, <2>1
  <2>3. c \in Tokens
    BY <1>10, <1>13
  <2> HIDE DEF e
  <2> QED BY <1>6, <1>7, <2>2, <2>3 DEF KvSequence
<1> HIDE DEF e
<1>15. q2 \in SeqSlot /\ q2.phase = ph /\ q2.handle = p /\ q2.cur_pos = c
       /\ q2.staged_tokens = q.staged_tokens /\ q2.sample_history = q.sample_history
       /\ q2.prompt_len = q.prompt_len /\ ph \in {"prefill", "decode"}
  BY <1>1 DEF SeqSlot
<1>16. << >> \in Seq(Nat)
  OBVIOUS
<1>17. q.staged_tokens = << >> /\ saved[s] = Span(1, c) /\ st >= 1
  BY <1>4 DEF PhaseSuspended
<1>18. CASE c < q.prompt_len
  <2>1. q2.phase = "prefill"
    BY <1>15, <1>18
  <2>2. pd = NoToken /\ st = q.prompt_len /\ q.sample_history = Span(1, st)
    BY <1>1, <1>4, <1>18 DEF PhaseSuspended
  <2> HIDE DEF q2, q, k, st, pd, c, ph
  <2>3. PhasePrefill(q2, e, saved[s], st, pd)
    BY <1>1, <1>6, <1>14, <1>15, <1>17, <1>18, <2>2 DEF PhasePrefill
  <2>4. SlotInStep(q2, e, saved[s], << >>, st, pd) /\ q2.phase # "free"
    BY <1>1, <1>14, <1>15, <2>1, <2>3, PrefillPhase
  <2> QED BY <1>1, <1>2, <1>3, <1>11, <1>14, <1>15, <1>16, <2>4, OwnSlotStep DEF q, k, st, pd
<1>19. CASE ~ (c < q.prompt_len)
  <2>1. q2.phase = "decode"
    BY <1>15, <1>19
  <2>2. /\ pd = st /\ c = st - 1 /\ q.prompt_len <= c /\ q.sample_history = Span(1, st - 1)
    BY <1>1, <1>4, <1>19 DEF PhaseSuspended
  <2>3. Span(st, st - 1) = << >> /\ Len(<< >>) = 0
    BY <1>1, SpanEmpty
  <2> HIDE DEF q2, q, k, st, pd, c, ph
  <2>4. Len(q2.staged_tokens) = 0 /\ c + 0 = c /\ st + 0 - 1 = st - 1
    BY <1>1, <1>15, <1>17, <2>3
  <2>5. q2.staged_tokens = Span(st, st + Len(q2.staged_tokens) - 1)
    BY <1>15, <1>17, <2>3, <2>4
  <2>6. PhaseDecode(q2, e, saved[s], st, pd)
    BY <1>1, <1>6, <1>14, <1>15, <1>17, <2>2, <2>4, <2>5 DEF PhaseDecode
  <2>7. SlotInStep(q2, e, saved[s], << >>, st, pd) /\ q2.phase # "free"
    BY <1>1, <1>14, <1>15, <2>1, <2>6, DecodePhase
  <2> QED BY <1>1, <1>2, <1>3, <1>11, <1>14, <1>15, <1>16, <2>7, OwnSlotStep DEF q, k, st, pd
<1> QED BY <1>18, <1>19

(* The replayed history is the stream, whether a token is pending or not. *)
LEMMA ReplayIsStream ==
  ASSUME ManagerInv, NEW s \in Slots, active(s), ~ recomputing(s),
         slots[s].staged_tokens = << >>
  PROVE  /\ replayed_history(s) = Span(1, stream[s]) /\ stream[s] >= 1
         /\ pending[s] \in {NoToken, stream[s]}
<1> DEFINE q == slots[s]
           k == kv.seqs[q.handle]
           st == stream[s]
           pd == pending[s]
<1>1. /\ q \in SeqSlot /\ k \in KvSequence /\ st \in Nat
      /\ SlotInStep(q, k, rows[s], saved[s], st, pd)
      /\ q.phase \in {"prefill", "decode", "suspended"}
  <2>1. q \in SeqSlot
    BY SlotFacts
  <2>2. q.phase \in {"free", "prefill", "decode", "suspended", "recompute"}
    BY <2>1, SlotTyped
  <2> QED BY <2>2, SlotFacts DEF active, recomputing
<1>2. /\ st >= 1
      /\ \/ pd = NoToken /\ q.sample_history = Span(1, st)
         \/ pd = st /\ q.sample_history = Span(1, st - 1)
  <2>1. CASE q.phase = "prefill"
    BY <1>1, <2>1, PrefillPhase DEF PhasePrefill
  <2>2. CASE q.phase = "decode"
    BY <1>1, <2>2, DecodePhase DEF PhaseDecode
  <2>3. CASE q.phase = "suspended"
    <3>1. PhaseSuspended(q, k, rows[s], saved[s], st, pd)
      BY <1>1, <2>3, SuspendedPhase
    <3> QED BY <3>1 DEF PhaseSuspended
  <2> QED BY <1>1, <2>1, <2>2, <2>3
<1>3. Append(Span(1, st - 1), st) = Span(1, st)
  <2>1. st - 1 \in Nat /\ st - 1 + 1 = st
    BY <1>1, <1>2
  <2>2. Append(Span(1, st - 1), st - 1 + 1) = Span(1, st - 1 + 1)
    BY <2>1, SpanAppend
  <2> QED BY <2>1, <2>2
<1>4. pd = st => pd # NoToken
  BY <1>1, <1>2 DEF NoToken
<1> QED BY <1>2, <1>3, <1>4 DEF replayed_history

LEMMA EvictInv ==
  ASSUME ManagerInv, NEW s \in Slots, evict_kv(s)
  PROVE  ManagerInv'
<1> DEFINE q == slots[s]
           p == q.handle
           k == kv.seqs[p]
           st == stream[s]
           pd == pending[s]
           h == replayed_history(s)
           q2 == [q EXCEPT !.sample_history = h, !.prompt_len = Len(h), !.cur_pos = 0,
                           !.phase = "recompute"]
           e == [request_id |-> k.request_id, kv_seq_len |-> 0, owned |-> 0]
<1>1. /\ q \in SeqSlot /\ p \in Slots /\ k \in KvSequence /\ KvTyped(kv)
      /\ st \in Nat /\ pd \in Nat /\ k.request_id \in RequestIds \cup {NoRequest}
      /\ SlotInStep(q, k, rows[s], saved[s], st, pd)
  BY SlotFacts DEF KvSequence
<1>2. /\ active(s) /\ ~ recomputing(s) /\ q.staged_tokens = << >>
      /\ Len(h) \in 1 .. MaxCtx
      /\ kv' = IF suspended(s) THEN kv ELSE clear(kv, p)
      /\ rows' = [rows EXCEPT ![s] = << >>] /\ saved' = [saved EXCEPT ![s] = << >>]
      /\ stream' = stream /\ pending' = pending
      /\ slots' = [slots EXCEPT ![s] = q2]
  BY DEF evict_kv
<1>3. h = Span(1, st) /\ st >= 1 /\ pd \in {NoToken, st}
  BY <1>2, ReplayIsStream
<1>4. Len(h) = st /\ h \in Seq(Nat)
  BY <1>1, <1>3, SpanFromOne
<1> HIDE DEF h
<1>5. e \in KvSequence /\ e.request_id = k.request_id /\ e.kv_seq_len = 0 /\ e.owned = 0
  BY <1>1, ManagerDimensions DEF KvSequence, Tokens
<1>6. Updates(kv, kv', p, e)
  <2>1. CASE suspended(s)
    <3>1. k.kv_seq_len = 0 /\ k.owned = 0
      BY <1>1, <2>1, SuspendedPhase DEF PhaseSuspended, suspended
    <3>2. k = [request_id |-> k.request_id, kv_seq_len |-> k.kv_seq_len, owned |-> k.owned]
      BY <1>1, SeqFacts
    <3>3. k = e
      BY <3>1, <3>2
    <3>4. Updates(kv, kv', p, k)
      BY <1>1, <1>2, <2>1, KvSame
    <3> QED BY <3>3, <3>4
  <2>2. CASE ~ suspended(s)
    BY <1>1, <1>2, <2>2, ClearUpdates
  <2> QED BY <2>1, <2>2
<1>7. << >> \in Seq(Nat)
  OBVIOUS
<1>8. q2 \in SeqSlot /\ q2.phase = "recompute" /\ q2.handle = p /\ q2.cur_pos = 0
      /\ q2.staged_tokens = << >> /\ q2.sample_history = h /\ q2.prompt_len = st
  <2>1. Len(h) \in 0 .. MaxCtx /\ 0 \in 0 .. MaxCtx
    BY <1>2, ManagerDimensions
  <2> QED BY <1>1, <1>2, <1>4, <2>1 DEF SeqSlot
<1> HIDE DEF q2, e
<1>9. PhaseRecompute(q2, e, << >>, st, pd)
  BY <1>3, <1>5, <1>8 DEF PhaseRecompute
<1>10. SlotInStep(q2, e, << >>, << >>, st, pd) /\ q2.phase # "free"
  BY <1>1, <1>5, <1>8, <1>9, RecomputePhase
<1> HIDE DEF q, k, st, pd
<1> QED BY <1>1, <1>2, <1>5, <1>6, <1>7, <1>8, <1>10, OwnSlotStep DEF q, k, st, pd

LEMMA RecomputeInv ==
  ASSUME ManagerInv, NEW s \in Slots, resume_recompute(s)
  PROVE  ManagerInv'
<1> DEFINE q == slots[s]
           p == q.handle
           k == kv.seqs[p]
           st == stream[s]
           m == resume_token_capacity(s)
           q2 == [q EXCEPT !.phase = "prefill"]
           d == [request_id |-> k.request_id, kv_seq_len |-> k.kv_seq_len,
                 owned |-> Greatest(k.owned, blocks_for_tokens(m))]
<1>1. /\ q \in SeqSlot /\ p \in Slots /\ k \in KvSequence /\ KvTyped(kv)
      /\ st \in Nat /\ k.request_id \in RequestIds \cup {NoRequest}
      /\ saved[s] \in Seq(Nat) /\ rows[s] \in Seq(Nat)
      /\ q.cur_pos \in Nat /\ q.prompt_len \in 0 .. MaxCtx
      /\ SlotInStep(q, k, rows[s], saved[s], st, pending[s])
  BY SlotFacts, SlotTyped DEF KvSequence, SeqSlot
<1>2. /\ active(s) /\ recomputing(s) /\ q.phase = "recompute"
      /\ reserve_capacity_ok(kv, p, m) /\ kv' = reserve_capacity(kv, p, m)
      /\ pending' = [pending EXCEPT ![s] = NoToken]
      /\ rows' = rows /\ saved' = saved /\ stream' = stream
  BY DEF resume_recompute, recomputing, active
<1>3. slots' = [slots EXCEPT ![s] = q2]
  BY SlotFacts DEF resume_recompute, SlotVarsTyped
<1>4. PhaseRecompute(q, k, rows[s], st, pending[s])
  BY <1>1, <1>2, RecomputePhase
<1>5. m \in Nat /\ q.prompt_len <= m
  <2>1. m = reservation_capacity(q.prompt_len)
    BY <1>2 DEF resume_token_capacity
  <2> QED BY <1>1, <2>1, ReservationCovers
<1> HIDE DEF m
<1>6. Updates(kv, kv', p, d)
  BY <1>1, <1>2, <1>5, ReserveUpdates DEF reserve_capacity_ok
<1>7. k.kv_seq_len = 0 /\ k.owned = 0 /\ st = q.prompt_len /\ st >= 1 /\ q.cur_pos = 0
      /\ q.staged_tokens = << >> /\ q.sample_history = Span(1, st) /\ rows[s] = << >>
  BY <1>4 DEF PhaseRecompute
<1>8. blocks_for_tokens(m) \in Nat /\ blocks_for_tokens(st) <= blocks_for_tokens(m)
  BY <1>1, <1>5, <1>7, BlocksType, BlocksMonotone
<1>9. d \in KvSequence /\ d.request_id = k.request_id /\ d.kv_seq_len = 0
      /\ blocks_for_tokens(st) <= d.owned
  <2>1. Greatest(k.owned, blocks_for_tokens(m)) = blocks_for_tokens(m)
    BY <1>7, <1>8 DEF Greatest
  <2>2. d = [request_id |-> k.request_id, kv_seq_len |-> 0, owned |-> blocks_for_tokens(m)]
    BY <1>7, <2>1
  <2>3. 0 \in Tokens
    BY ManagerDimensions DEF Tokens
  <2> HIDE DEF d
  <2> QED BY <1>1, <1>8, <2>2, <2>3 DEF KvSequence
<1>10. q2 \in SeqSlot /\ q2.phase = "prefill" /\ q2.handle = p /\ q2.cur_pos = q.cur_pos
      /\ q2.staged_tokens = q.staged_tokens /\ q2.sample_history = q.sample_history
      /\ q2.prompt_len = q.prompt_len
  BY <1>1 DEF SeqSlot
<1>11. Span(1, 0) = << >> /\ NoToken \in Nat
  <2>1. 1 - 1 = 0 /\ 1 \in Nat
    OBVIOUS
  <2>2. Span(1, 1 - 1) = << >>
    BY <2>1, SpanEmpty
  <2> QED BY <2>1, <2>2 DEF NoToken
<1> HIDE DEF q2, d, q, k, st
<1>12. PhasePrefill(q2, d, rows[s], st, NoToken)
  BY <1>1, <1>7, <1>9, <1>10, <1>11 DEF PhasePrefill
<1>13. SlotInStep(q2, d, rows[s], saved[s], st, NoToken) /\ q2.phase # "free"
  BY <1>1, <1>9, <1>10, <1>12, PrefillPhase
<1> QED BY <1>1, <1>2, <1>3, <1>6, <1>9, <1>10, <1>11, <1>13, OwnSlotStep DEF q, k, st

LEMMA RetireInv ==
  ASSUME ManagerInv, NEW s \in Slots, retire(s)
  PROVE  ManagerInv'
<1> DEFINE p == slots[s].handle
<1>1. p \in Slots /\ KvTyped(kv) /\ SlotVarsTyped
  BY SlotFacts
<1>2. HandlesDistinct /\ Carries(kv)
  BY InvParts
<1>3. Updates(kv, kv', p, NoSequence)
  BY <1>1, ReleaseUpdates DEF retire
<1>4. NoSequence \in KvSequence /\ NoSequence.owned = 0
  BY ManagerDimensions DEF NoSequence, KvSequence, Tokens
<1>5. /\ slots'[s] = FreeSlot /\ rows'[s] = << >> /\ stream'[s] = 0
      /\ \A t \in Slots \ {s} :
           /\ slots'[t] = slots[t] /\ rows'[t] = rows[t] /\ saved'[t] = saved[t]
           /\ stream'[t] = stream[t] /\ pending'[t] = pending[t]
  BY <1>1 DEF retire, SlotVarsTyped
<1>6. FreeSlot \in SeqSlot /\ FreeSlot.phase = "free"
  BY FreePhase
<1>7. SlotVarsTyped'
  <2>1. << >> \in Seq(Nat) /\ 0 \in Nat /\ NoToken \in Nat
    BY DEF NoToken
  <2> QED BY <1>1, <1>6, <2>1 DEF retire, SlotVarsTyped
<1>8. \A t \in Slots \ {s} : active(t) => slots[t].handle # p
  BY <1>2 DEF HandlesDistinct, retire
<1>9. SlotInStep(FreeSlot, NoSequence, << >>, saved'[s], 0, pending'[s])
  BY FreePhase
<1>10. /\ slots'[s].phase # "free" => slots'[s].handle = p /\ NoSequence.request_id # NoRequest
       /\ NoSequence.request_id = NoRequest => NoSequence.owned = 0
       /\ SlotInStep(slots'[s], NoSequence, rows'[s], saved'[s], stream'[s], pending'[s])
  BY <1>4, <1>5, <1>6, <1>9
<1> HIDE DEF p
<1> QED BY <1>1, <1>2, <1>3, <1>4, <1>5, <1>7, <1>8, <1>10, SlotStep DEF p

-----------------------------------------------------------------------------
(* Operations on several slots.                                            *)

(* Topping up decoders changes nothing any slot depends on. *)
LEMMA CohortCarries ==
  ASSUME ManagerInv, NEW S \in SUBSET Slots, \A s \in S : decoding(s),
         NEW capacity, \A s \in S : capacity[s] \in Nat,
         cohort_shortfall(S, capacity) <= kv.free
  PROVE  Carries(reserve_cohort(S, capacity))
<1> DEFINE L == reserve_cohort(S, capacity)
<1>1. SlotVarsTyped /\ HandlesDistinct /\ Carries(kv) /\ HandlesExclusive
  BY InvParts DEF ManagerInv
<1>2. \A s \in Slots : slots[s].handle \in Slots
  BY SlotFacts
<1>3. \A s \in S : active(s)
  BY DEF active, decoding
<1>4. /\ KvTyped(L) /\ Balance(L) = Balance(kv)
      /\ \A p \in Slots : /\ L.seqs[p].request_id = kv.seqs[p].request_id
                          /\ L.seqs[p].kv_seq_len = kv.seqs[p].kv_seq_len
                          /\ kv.seqs[p].owned <= L.seqs[p].owned
      /\ \A p \in Slots : (\A s \in S : slots[s].handle # p) => L.seqs[p] = kv.seqs[p]
  BY <1>1, <1>2, <1>3, CohortUpdates DEF Carries
<1> HIDE DEF L
<1>5. \A p \in Slots : live(L, p) <=> live(kv, p)
  BY <1>4 DEF live
<1>6. ASSUME NEW p \in Slots, ~ live(L, p) PROVE L.seqs[p].owned = 0
  <2>1. ~ live(kv, p)
    BY <1>5, <1>6
  <2>2. \A s \in S : slots[s].handle # p
    BY <1>1, <1>3, <2>1 DEF Carries
  <2> QED BY <1>1, <1>4, <2>1, <2>2 DEF Carries
<1>7. ASSUME NEW t \in Slots
      PROVE  SlotInStep(slots[t], L.seqs[slots[t].handle], rows[t], saved[t], stream[t],
                        pending[t])
  <2> DEFINE p == slots[t].handle
  <2>1. /\ p \in Slots /\ slots[t] \in SeqSlot /\ stream[t] \in Nat
        /\ kv.seqs[p] \in KvSequence /\ L.seqs[p] \in KvSequence
        /\ SlotInStep(slots[t], kv.seqs[p], rows[t], saved[t], stream[t], pending[t])
    BY <1>4, SlotFacts DEF KvTyped
  <2>2. CASE t \in S
    <3>1. slots[t].phase = "decode"
      BY <2>2 DEF decoding
    <3>2. PhaseDecode(slots[t], kv.seqs[p], rows[t], stream[t], pending[t])
      BY <2>1, <3>1, DecodePhase
    <3>3. /\ kv.seqs[p].owned \in Nat /\ L.seqs[p].owned \in Nat
          /\ kv.seqs[p].owned <= L.seqs[p].owned
          /\ L.seqs[p].kv_seq_len = kv.seqs[p].kv_seq_len
          /\ blocks_for_tokens(kv.seqs[p].kv_seq_len) \in Nat
      <4>1. kv.seqs[p].kv_seq_len \in Nat
        BY <2>1 DEF KvSequence, Tokens
      <4> QED BY <1>4, <2>1, <4>1, BlocksType DEF KvSequence
    <3>4. blocks_for_tokens(L.seqs[p].kv_seq_len) <= L.seqs[p].owned
      <4>1. blocks_for_tokens(kv.seqs[p].kv_seq_len) <= kv.seqs[p].owned
        BY <3>2 DEF PhaseDecode
      <4> QED BY <3>3, <4>1
    <3>5. PhaseDecode(slots[t], L.seqs[p], rows[t], stream[t], pending[t])
      BY <3>2, <3>3, <3>4 DEF PhaseDecode
    <3> QED BY <2>1, <3>1, <3>5, DecodePhase
  <2>3. CASE t \notin S /\ active(t)
    <3>1. \A s \in S : slots[s].handle # p
      BY <1>1, <1>3, <2>3 DEF HandlesDistinct
    <3>2. L.seqs[p] = kv.seqs[p]
      BY <1>4, <2>1, <3>1
    <3> QED BY <2>1, <3>2
  <2>4. CASE ~ active(t)
    <3>1. slots[t].phase = "free"
      BY <2>4 DEF active
    <3> QED BY <2>1, <3>1 DEF SlotInStep
  <2> QED BY <2>2, <2>3, <2>4
<1>8. \A t \in Slots : active(t) => live(L, slots[t].handle)
  BY <1>1, <1>2, <1>5 DEF Carries
<1>9. Carries(L)
  BY <1>1, <1>4, <1>6, <1>7, <1>8 DEF Carries
<1> QED BY <1>9 DEF L

LEMMA SameSlots ==
  ASSUME ManagerInv, Carries(kv'), UNCHANGED <<slots, saved, rows, stream, pending>>
  PROVE  ManagerInv'
<1>1. SlotVarsTyped /\ HandlesDistinct
  BY InvParts
<1>2. SlotVarsTyped' /\ HandlesDistinct'
  BY <1>1 DEF SlotVarsTyped, HandlesDistinct, active
<1>3. Carries(kv)'
  BY DEF Carries, active
<1> QED BY <1>2, <1>3, InvPartsNext

LEMMA ReserveDecodeInv ==
  ASSUME ManagerInv, NEW growth \in [Slots -> 0 .. MaxBurst], reserve_decode(growth)
  PROVE  ManagerInv'
<1> DEFINE D == {s \in Slots : decoding(s)}
           extent == [s \in Slots |-> slots[s].cur_pos + growth[s]]
<1>1. \A s \in D : decoding(s)
  OBVIOUS
<1>2. \A s \in D : extent[s] \in Nat
  <2> SUFFICES ASSUME NEW s \in D PROVE extent[s] \in Nat
    OBVIOUS
  <2>1. slots[s].cur_pos \in Nat
    BY SlotFacts, SlotTyped
  <2>2. growth[s] \in Nat
    BY ManagerDimensions
  <2> QED BY <2>1, <2>2
<1>3. /\ cohort_shortfall(D, extent) <= kv.free /\ kv' = reserve_cohort(D, extent)
      /\ UNCHANGED <<slots, saved, rows, stream, pending>>
  BY DEF reserve_decode
<1> HIDE DEF extent
<1>4. Carries(reserve_cohort(D, extent))
  BY <1>1, <1>2, <1>3, CohortCarries
<1> QED BY <1>3, <1>4, SameSlots

LEMMA ProtectedCarries ==
  ASSUME ManagerInv, cohort_shortfall(Protected, Headroom) <= kv.free
  PROVE  Carries(reserve_cohort(Protected, Headroom))
<1>1. Protected \in SUBSET Slots /\ \A s \in Protected : decoding(s)
  BY DEF Protected
<1>2. \A s \in Protected : Headroom[s] \in Nat
  <2> SUFFICES ASSUME NEW s \in Slots PROVE Headroom[s] \in Nat
    BY <1>1
  <2>1. slots[s].cur_pos \in 0 .. MaxCtx
    BY SlotFacts DEF SeqSlot
  <2> QED BY <2>1, ReservationCovers DEF Headroom
<1> QED BY <1>1, <1>2, CohortCarries

LEMMA AdmitInv ==
  ASSUME ManagerInv, NEW s \in Slots, NEW n \in 1 .. MaxCtx, admit(s, n)
  PROVE  ManagerInv'
<1> DEFINE K == reserve_cohort(Protected, Headroom)
           c == reservation_capacity(n)
<1>1. Carries(K)
  BY ProtectedCarries DEF admit
<1>2. SlotVarsTyped /\ HandlesDistinct
  BY InvParts
<1>3. c \in Nat /\ n <= c /\ n \in Nat
  BY ManagerDimensions, ReservationCovers
<1> HIDE DEF K, c
<1>4. CASE kv' = K /\ UNCHANGED <<slots, saved, rows, stream, pending>>
  BY <1>1, <1>4, SameSlots
<1>5. ASSUME NEW id \in RequestIds, NEW p \in Slots,
             vacant(K, p), acquire_reserved_ok(K, id, c), ~ active(s),
             kv' = acquire_reserved(K, p, id, c),
             slots' = [slots EXCEPT ![s] =
               [phase |-> "prefill", handle |-> p,
                original_prompt_len |-> n, prompt_len |-> n, cur_pos |-> 0,
                sample_history |-> Span(1, n), staged_tokens |-> <<>>]],
             stream' = [stream EXCEPT ![s] = n],
             pending' = [pending EXCEPT ![s] = NoToken],
             UNCHANGED <<saved, rows>>
      PROVE  ManagerInv'
  <2> DEFINE q == [phase |-> "prefill", handle |-> p,
                   original_prompt_len |-> n, prompt_len |-> n, cur_pos |-> 0,
                   sample_history |-> Span(1, n), staged_tokens |-> <<>>]
             e == [request_id |-> id, kv_seq_len |-> 0, owned |-> blocks_for_tokens(c)]
  <2>1. ~ live(K, p) /\ K.seqs[p].owned = 0 /\ KvTyped(K)
    BY <1>1, <1>5 DEF vacant, Carries
  <2>2. Updates(K, kv', p, e)
    BY <1>3, <1>5, <2>1, AcquireUpdates DEF acquire_reserved_ok
  <2>3. /\ blocks_for_tokens(c) \in Nat /\ blocks_for_tokens(n) <= blocks_for_tokens(c)
    BY <1>3, BlocksType, BlocksMonotone
  <2>4. e \in KvSequence /\ e.kv_seq_len = 0 /\ e.owned = blocks_for_tokens(c)
        /\ e.request_id = id /\ id # NoRequest
    BY <1>5, <2>3, ManagerDimensions DEF KvSequence, Tokens
  <2>5. Span(1, n) \in Seq(Nat)
    BY <1>3, SpanFromOne
  <2>6. q \in SeqSlot
    <3>1. << >> \in Seq(Nat) /\ n \in 0 .. MaxCtx /\ 0 \in 0 .. MaxCtx
      BY <1>3, ManagerDimensions
    <3> QED BY <1>3, <2>5, <3>1 DEF SeqSlot
  <2>7. /\ q.phase = "prefill" /\ q.handle = p /\ q.prompt_len = n /\ q.cur_pos = 0
        /\ q.sample_history = Span(1, n) /\ q.staged_tokens = << >>
    OBVIOUS
  <2> HIDE DEF e, q
  <2>8. /\ slots'[s] = q /\ rows'[s] = rows[s] /\ stream'[s] = n /\ pending'[s] = NoToken
        /\ \A t \in Slots \ {s} :
             /\ slots'[t] = slots[t] /\ rows'[t] = rows[t] /\ saved'[t] = saved[t]
             /\ stream'[t] = stream[t] /\ pending'[t] = pending[t]
    BY <1>2, <1>5 DEF SlotVarsTyped, q
  <2>9. SlotVarsTyped'
    <3>1. NoToken \in Nat /\ slots' = [slots EXCEPT ![s] = q]
      BY <1>5 DEF NoToken, q
    <3> QED BY <1>2, <1>3, <1>5, <2>6, <3>1 DEF SlotVarsTyped
  <2>10. \A t \in Slots \ {s} : active(t) => slots[t].handle # p
    BY <1>1, <2>1 DEF Carries
  <2>11. rows[s] = << >>
    BY <1>1, <1>5 DEF Carries, SlotInStep, active
  <2>12. Span(1, 0) = << >>
    <3>1. 1 - 1 = 0 /\ 1 \in Nat
      OBVIOUS
    <3>2. Span(1, 1 - 1) = << >>
      BY <3>1, SpanEmpty
    <3> QED BY <3>1, <3>2
  <2>13. PhasePrefill(q, e, rows[s], n, NoToken)
    BY <1>3, <2>3, <2>4, <2>7, <2>11, <2>12 DEF PhasePrefill
  <2>14. SlotInStep(q, e, rows[s], saved'[s], n, NoToken)
    BY <1>3, <2>4, <2>6, <2>7, <2>13, PrefillPhase
  <2>15. /\ slots'[s].phase # "free" => slots'[s].handle = p /\ e.request_id # NoRequest
         /\ e.request_id = NoRequest => e.owned = 0
         /\ SlotInStep(slots'[s], e, rows'[s], saved'[s], stream'[s], pending'[s])
    BY <2>4, <2>7, <2>8, <2>14
  <2> QED BY <1>1, <1>2, <2>2, <2>4, <2>8, <2>9, <2>10, <2>15, SlotStep
<1> QED BY <1>4, <1>5 DEF admit, K, c

-----------------------------------------------------------------------------
(* The invariant.                                                          *)

LEMMA InitInv == Init => ManagerInv
<1> SUFFICES ASSUME Init PROVE ManagerInv
  OBVIOUS
<1>1. FreeSlot \in SeqSlot /\ << >> \in Seq(Nat) /\ 0 \in Nat /\ NoToken \in Nat
  BY FreePhase DEF NoToken
<1>2. SlotVarsTyped
  BY <1>1 DEF Init, SlotVarsTyped
<1>3. \A s \in Slots : slots[s] = FreeSlot /\ rows[s] = << >> /\ stream[s] = 0
  BY DEF Init
<1>4. \A s \in Slots : ~ active(s)
  BY <1>3, FreePhase DEF active
<1>5. NoSequence \in KvSequence /\ NoSequence.owned = 0
  BY ManagerDimensions DEF NoSequence, KvSequence, Tokens
<1>6. KvTyped(Fresh) /\ Fresh.free = NumBlocks /\ \A p \in Slots : Fresh.seqs[p] = NoSequence
  BY <1>5, ManagerDimensions DEF Fresh, KvTyped
<1>7. Balance(Fresh) = NumBlocks
  <2>1. \A p \in Slots : Owned(Fresh)[p] = 0
    BY <1>5, <1>6 DEF Owned
  <2>2. Total(Owned(Fresh), Slots) = Total(Owned(Fresh), {})
    BY <2>1, TotalSupport
  <2>3. Units(Owned(Fresh), {}) = {}
    BY DEF Units
  <2>4. Total(Owned(Fresh), {}) = 0
    BY <2>3, FS_EmptySet DEF Total
  <2> QED BY <1>6, <2>2, <2>4, ManagerDimensions DEF Balance
<1>8. Carries(kv)
  <2>1. kv = Fresh
    BY DEF Init
  <2>2. \A t \in Slots : SlotInStep(slots[t], kv.seqs[slots[t].handle], rows[t], saved[t],
                                   stream[t], pending[t])
    BY <1>3, FreePhase
  <2> QED BY <1>4, <1>5, <1>6, <1>7, <2>1, <2>2 DEF Carries
<1> QED BY <1>2, <1>4, <1>8, InvParts DEF HandlesDistinct

LEMMA NextInv == ManagerInv /\ [Next]_managerVars => ManagerInv'
<1> SUFFICES ASSUME ManagerInv, [Next]_managerVars PROVE ManagerInv'
  OBVIOUS
<1>1. ASSUME NEW s \in Slots, NEW n \in 1 .. MaxCtx,
             admit(s, n) \/ append_prefill(s, n) \/ seed_restored_prefix(s, n)
      PROVE  ManagerInv'
  <2>1. n \in Nat
    OBVIOUS
  <2> QED BY <1>1, <2>1, AdmitInv, PrefillInv DEF seed_restored_prefix
<1>2. ASSUME NEW s \in Slots, NEW n \in 1 .. MaxBurst, append_tokens(s, n)
      PROVE  ManagerInv'
  <2>1. n \in Nat
    OBVIOUS
  <2> QED BY <1>2, <2>1, AppendTokensInv
<1>3. ASSUME NEW s \in Slots, commit_prefill(s) \/ commit_step(s) \/ rollback_step(s)
      PROVE  ManagerInv'
  BY <1>3, CommitPrefillInv, CommitStepInv, RollbackInv
<1>4. ASSUME NEW s \in Slots,
             suspend(s) \/ restore(s) \/ evict_kv(s) \/ resume_recompute(s) \/ retire(s)
      PROVE  ManagerInv'
  BY <1>4, SuspendInv, RestoreInv, EvictInv, RecomputeInv, RetireInv
<1>5. ASSUME NEW growth \in [Slots -> 0 .. MaxBurst], reserve_decode(growth)
      PROVE  ManagerInv'
  BY <1>5, ReserveDecodeInv
<1>6. CASE UNCHANGED managerVars
  <2>1. Carries(kv) /\ kv' = kv
    BY <1>6, InvParts DEF managerVars
  <2> QED BY <1>6, <2>1, SameSlots DEF managerVars
<1> QED BY <1>1, <1>2, <1>3, <1>4, <1>5, <1>6 DEF Next

(* The inductive invariant: every slot's phase, positions, cache, checkpoint *)
(* and history agree with its request's stream and with the pool, through   *)
(* every order of rollbacks, suspensions, evictions and restores.           *)
THEOREM ManagerInvariant == Spec => []ManagerInv
<1>1. Init => ManagerInv
  BY InitInv
<1>2. ManagerInv /\ [Next]_managerVars => ManagerInv'
  BY NextInv
<1> QED BY <1>1, <1>2, PTL DEF Spec

-----------------------------------------------------------------------------
(* What it implies.                                                        *)

(* The phase of a slot determines which of the four forms it has. *)
LEMMA SlotForm ==
  ASSUME ManagerInv, NEW s \in Slots
  PROVE  LET q == slots[s]
             k == kv.seqs[q.handle]
         IN  /\ q.phase = "prefill" => PhasePrefill(q, k, rows[s], stream[s], pending[s])
             /\ q.phase = "decode" => PhaseDecode(q, k, rows[s], stream[s], pending[s])
             /\ q.phase = "suspended" =>
                  PhaseSuspended(q, k, rows[s], saved[s], stream[s], pending[s])
             /\ q.phase = "recompute" =>
                  PhaseRecompute(q, k, rows[s], stream[s], pending[s])
BY SlotFacts, PrefillPhase, DecodePhase, SuspendedPhase, RecomputePhase

LEMMA CacheMatches == ManagerInv => CacheMatchesHistory
<1> SUFFICES ASSUME ManagerInv, NEW s \in Slots
             PROVE  LET q == slots[s]
                    IN  /\ resident(s) =>
                             /\ rows[s] = SubSeq(q.sample_history, 1, q.cur_pos)
                                            \o q.staged_tokens
                             /\ kv.seqs[q.handle].kv_seq_len
                                  = q.cur_pos + Len(q.staged_tokens)
                        /\ suspended(s) => saved[s] = SubSeq(q.sample_history, 1, q.cur_pos)
  BY DEF CacheMatchesHistory
<1> DEFINE q == slots[s]
           k == kv.seqs[q.handle]
           st == stream[s]
           n == Len(q.staged_tokens)
<1>1. /\ q \in SeqSlot /\ st \in Nat /\ q.cur_pos \in Nat /\ n \in Nat
      /\ q.staged_tokens \in Seq(Nat)
  BY SlotFacts, SlotTyped
<1>2. Len(<< >>) = 0
  BY SpanEmpty
<1>3. CASE q.phase = "prefill"
  <2>1. /\ q.staged_tokens = << >> /\ q.sample_history = Span(1, st) /\ q.cur_pos <= st
        /\ rows[s] = Span(1, q.cur_pos) /\ k.kv_seq_len = q.cur_pos
    BY <1>3, SlotForm DEF PhasePrefill
  <2>2. SubSeq(q.sample_history, 1, q.cur_pos) = Span(1, q.cur_pos)
    BY <1>1, <2>1, SpanFront
  <2>3. Span(1, q.cur_pos) \o << >> = Span(1, q.cur_pos)
    <3>1. Span(1, q.cur_pos) \in Seq(Nat)
      BY <1>1, SpanFromOne
    <3> QED BY <3>1, ConcatEmptySeq
  <2>4. k.kv_seq_len = q.cur_pos + n
    BY <1>1, <1>2, <2>1
  <2>5. rows[s] = SubSeq(q.sample_history, 1, q.cur_pos) \o q.staged_tokens
    BY <2>1, <2>2, <2>3
  <2> QED BY <1>3, <2>4, <2>5 DEF suspended
<1>4. CASE q.phase = "decode"
  <2>1. /\ q.staged_tokens = Span(st, st + n - 1) /\ q.sample_history = Span(1, st - 1)
        /\ st >= 1 /\ q.cur_pos = st - 1
        /\ rows[s] = Span(1, q.cur_pos + n) /\ k.kv_seq_len = q.cur_pos + n
    BY <1>4, SlotForm DEF PhaseDecode
  <2>2. SubSeq(q.sample_history, 1, q.cur_pos) = Span(1, q.cur_pos)
    BY <1>1, <2>1, SpanFront
  <2>3. Span(1, q.cur_pos) \o Span(q.cur_pos + 1, q.cur_pos + n) = Span(1, q.cur_pos + n)
    BY <1>1, SpanConcat
  <2>4. q.cur_pos + 1 = st /\ q.cur_pos + n = st + n - 1
    BY <1>1, <2>1
  <2>5. rows[s] = SubSeq(q.sample_history, 1, q.cur_pos) \o q.staged_tokens
    BY <2>1, <2>2, <2>3, <2>4
  <2> QED BY <1>4, <2>1, <2>5 DEF suspended
<1>5. CASE q.phase = "suspended"
  <2>1. /\ saved[s] = Span(1, q.cur_pos) /\ st >= 1
        /\ \/ q.cur_pos < st /\ q.sample_history = Span(1, st)
           \/ q.cur_pos = st - 1 /\ q.sample_history = Span(1, st - 1)
    <3>1. PhaseSuspended(q, k, rows[s], saved[s], st, pending[s])
      BY <1>5, SlotForm
    <3> HIDE DEF q, st
    <3> QED BY <3>1 DEF PhaseSuspended
  <2>2. SubSeq(q.sample_history, 1, q.cur_pos) = Span(1, q.cur_pos)
    <3>1. PICK m \in Nat : q.cur_pos <= m /\ q.sample_history = Span(1, m)
      <4>1. st - 1 \in Nat /\ (q.cur_pos < st => q.cur_pos <= st)
            /\ (q.cur_pos = st - 1 => q.cur_pos <= st - 1)
        BY <1>1, <2>1
      <4> QED BY <1>1, <2>1, <4>1
    <3> QED BY <1>1, <3>1, SpanFront
  <2> QED BY <1>5, <2>1, <2>2 DEF resident, prefilling, decoding
<1> QED BY <1>3, <1>4, <1>5 DEF resident, suspended, prefilling, decoding

(* An attention row never belongs to another token than the one its        *)
(* position names, in the pool or in the copy a suspended slot keeps in RAM. *)
THEOREM CacheAlwaysMatches == Spec => []CacheMatchesHistory
<1> QED BY ManagerInvariant, CacheMatches, PTL

LEMMA HistoryMatches == ManagerInv => HistoryIsStream
<1> SUFFICES ASSUME ManagerInv, NEW s \in Slots, active(s)
             PROVE  LET fed == IF pending[s] = NoToken \/ recomputing(s)
                               THEN stream[s] ELSE stream[s] - 1
                    IN  /\ slots[s].sample_history = Span(1, fed)
                        /\ decoding(s) => pending[s] = stream[s]
  BY DEF HistoryIsStream
<1>1. slots[s] \in SeqSlot /\ stream[s] \in Nat
  BY SlotFacts
<1>2. slots[s].phase \in {"prefill", "decode", "suspended", "recompute"}
  BY <1>1, SlotTyped DEF active
<1>3. CASE slots[s].phase = "prefill"
  BY <1>3, SlotForm DEF PhasePrefill, decoding
<1>4. CASE slots[s].phase = "decode"
  BY <1>1, <1>4, SlotForm DEF PhaseDecode, recomputing, NoToken
<1>5. CASE slots[s].phase = "suspended"
  <2>1. PhaseSuspended(slots[s], kv.seqs[slots[s].handle], rows[s], saved[s], stream[s],
                       pending[s])
    BY <1>5, SlotForm
  <2> QED BY <1>1, <1>5, <2>1 DEF PhaseSuspended, decoding, recomputing, NoToken
<1>6. CASE slots[s].phase = "recompute"
  BY <1>6, SlotForm DEF PhaseRecompute, decoding, recomputing
<1> QED BY <1>2, <1>3, <1>4, <1>5, <1>6

(* Nothing sampled for the client is dropped from the history a recompute  *)
(* replays, and nothing is in it twice. *)
THEOREM HistoryIsTheStream == Spec => []HistoryIsStream
<1> QED BY ManagerInvariant, HistoryMatches, PTL

LEMMA PromptsOwnTheirBlocks == ManagerInv => PrefillCannotStarve
<1> SUFFICES ASSUME ManagerInv, NEW s \in Slots
             PROVE  LET owned == owned_block_count(kv, slots[s].handle)
                    IN  /\ prefilling(s) => blocks_for_tokens(slots[s].prompt_len) <= owned
                        /\ parked(s) => owned = 0
  BY DEF PrefillCannotStarve
<1>1. prefilling(s) => blocks_for_tokens(slots[s].prompt_len)
                         <= owned_block_count(kv, slots[s].handle)
  BY SlotForm DEF prefilling, PhasePrefill, owned_block_count
<1>2. suspended(s) => owned_block_count(kv, slots[s].handle) = 0
  BY SlotForm DEF suspended, PhaseSuspended, owned_block_count
<1>3. recomputing(s) => owned_block_count(kv, slots[s].handle) = 0
  BY SlotForm DEF recomputing, PhaseRecompute, owned_block_count
<1> QED BY <1>1, <1>2, <1>3 DEF parked

(* append_prefill cannot run out of blocks in the middle of a prompt, and a *)
(* parked slot keeps none from the others.                                  *)
THEOREM PrefillNeverStarves == Spec => []PrefillCannotStarve
<1> QED BY ManagerInvariant, PromptsOwnTheirBlocks, PTL

(* The next token of a decoder needs at most one block. *)
LEMMA NextTokenBlock ==
  ASSUME ManagerInv, NEW t \in Slots, decoding(t)
  PROVE  shortfall(kv, slots[t].handle, slots[t].cur_pos + 1) \in {0, 1}
<1> DEFINE q == slots[t]
           k == kv.seqs[q.handle]
           c == q.cur_pos
           n == Len(q.staged_tokens)
<1>1. /\ q.handle \in Slots /\ KvTyped(kv) /\ k.owned \in Nat
      /\ c \in Nat /\ n \in Nat
  BY SlotFacts, SlotTyped DEF KvSequence
<1>2. k.kv_seq_len = c + n /\ blocks_for_tokens(k.kv_seq_len) <= k.owned
  BY SlotForm DEF decoding, PhaseDecode
<1> HIDE DEF c, n
<1>3. /\ blocks_for_tokens(c) \in Nat /\ blocks_for_tokens(c + n) \in Nat
      /\ blocks_for_tokens(c + 1) \in Nat
      /\ blocks_for_tokens(c) <= blocks_for_tokens(c + n)
      /\ blocks_for_tokens(c + 1) <= blocks_for_tokens(c) + 1
  <2>1. c + n \in Nat /\ c + 1 \in Nat /\ c <= c + n
    BY <1>1
  <2>2. blocks_for_tokens(c) <= blocks_for_tokens(c + n)
    BY <1>1, <2>1, BlocksMonotone
  <2> QED BY <1>1, <2>1, <2>2, BlocksType, BlocksNext
<1>4. blocks_for_tokens(c + 1) <= k.owned + 1
  <2>1. blocks_for_tokens(c + n) <= k.owned
    BY <1>2
  <2> HIDE DEF k
  <2> QED BY <1>1, <1>3, <2>1
<1>5. shortfall(kv, q.handle, c + 1)
        = IF blocks_for_tokens(c + 1) > k.owned THEN blocks_for_tokens(c + 1) - k.owned ELSE 0
  BY DEF shortfall, owned_block_count
<1> HIDE DEF k, q
<1>6. shortfall(kv, q.handle, c + 1) \in {0, 1}
  BY <1>1, <1>3, <1>4, <1>5
<1> QED BY <1>6 DEF q, c

LEMMA FeasibleRestore == ManagerInv => FeasibleRestoreDoesNotThrash
<1> SUFFICES ASSUME ManagerInv, NEW s \in Slots, kv_restore_feasible(s)
             PROVE  LET grown == {t \in Slots : decoding(t) /\ slots[t].cur_pos < MaxCtx}
                        next == [t \in Slots |-> slots[t].cur_pos + 1]
                        needed == blocks_for_tokens(resume_token_capacity(s))
                    IN  /\ reserve_capacity_ok(kv, slots[s].handle, resume_token_capacity(s))
                        /\ cohort_shortfall(grown, next) + 1 <= kv.free - needed
  BY DEF FeasibleRestoreDoesNotThrash
<1> DEFINE grown == {t \in Slots : decoding(t) /\ slots[t].cur_pos < MaxCtx}
           next == [t \in Slots |-> slots[t].cur_pos + 1]
           m == resume_token_capacity(s)
           p == slots[s].handle
           R == {t \in Slots : resident(t)}
           f == [t \in Slots |-> shortfall(kv, slots[t].handle, next[t])]
<1>1. /\ slots[s] \in SeqSlot /\ p \in Slots /\ KvTyped(kv) /\ kv.free \in Nat
      /\ kv.seqs[p].owned \in Nat /\ live(kv, p)
  <2>1. active(s)
    BY DEF kv_restore_feasible, parked, suspended, recomputing, active
  <2> QED BY <2>1, SlotFacts, SeqFacts
<1>2. kv.seqs[p].owned = 0
  BY PromptsOwnTheirBlocks DEF PrefillCannotStarve, kv_restore_feasible, owned_block_count
<1>3. m \in Nat
  <2>1. CASE suspended(s)
    BY <2>1, ResumeCapacity
  <2>2. CASE recomputing(s)
    <3>1. m = reservation_capacity(slots[s].prompt_len)
      BY <2>2 DEF resume_token_capacity
    <3>2. slots[s].prompt_len \in 0 .. MaxCtx
      BY <1>1 DEF SeqSlot
    <3> QED BY <3>1, <3>2, ReservationCovers
  <2> QED BY <2>1, <2>2 DEF kv_restore_feasible, parked
<1>4. blocks_for_tokens(m) + 1 + Cardinality(R) <= kv.free
  BY DEF kv_restore_feasible
<1> HIDE DEF m
<1>5. blocks_for_tokens(m) \in Nat
  BY <1>3, BlocksType
<1>6. IsFiniteSet(R) /\ IsFiniteSet(grown) /\ Cardinality(grown) <= Cardinality(R)
      /\ Cardinality(R) \in Nat /\ Cardinality(grown) \in Nat
  <2>1. IsFiniteSet(R)
    BY SlotsFinite, FS_Subset
  <2>2. grown \in SUBSET R
    BY DEF resident
  <2>3. IsFiniteSet(grown) /\ Cardinality(grown) <= Cardinality(R)
    BY <2>1, <2>2, FS_Subset
  <2> QED BY <2>1, <2>3, FS_CardinalityType
<1>7. reserve_capacity_ok(kv, p, m)
  <2>1. shortfall(kv, p, m) <= blocks_for_tokens(m)
    BY <1>2, <1>5 DEF shortfall, owned_block_count
  <2>2. shortfall(kv, p, m) \in Nat
    BY <1>1, <1>3, ShortfallProps
  <2>3. shortfall(kv, p, m) <= kv.free
    BY <1>1, <1>4, <1>5, <1>6, <2>1, <2>2
  <2> QED BY <1>1, <2>3 DEF reserve_capacity_ok
<1>8. Total(f, grown) <= Cardinality(grown) /\ Total(f, grown) \in Nat
  <2>1. \A t \in grown : f[t] \in {0, 1}
    <3> SUFFICES ASSUME NEW t \in grown PROVE f[t] \in {0, 1}
      OBVIOUS
    <3>1. f[t] = shortfall(kv, slots[t].handle, slots[t].cur_pos + 1)
      OBVIOUS
    <3>2. t \in Slots /\ decoding(t)
      OBVIOUS
    <3> HIDE DEF f
    <3> QED BY <3>1, <3>2, NextTokenBlock
  <2> HIDE DEF f, grown
  <2>2. \A t \in grown : f[t] \in Nat
    BY <2>1
  <2> QED BY <1>6, <2>1, <2>2, TotalOnes, UnitsFinite
<1>9. cohort_shortfall(grown, next) = Total(f, grown)
  BY DEF cohort_shortfall
<1> HIDE DEF f, grown, R, next
<1>10. cohort_shortfall(grown, next) + 1 <= kv.free - blocks_for_tokens(m)
  BY <1>1, <1>4, <1>5, <1>6, <1>8, <1>9
<1> QED BY <1>7, <1>10 DEF m, p, grown, next

(* "Restoring then cannot re-trigger eviction on the next step": what       *)
(* kv_restore_feasible leaves is enough for every decoder's next token.     *)
THEOREM FeasibleRestoreNeverThrashes == Spec => []FeasibleRestoreDoesNotThrash
<1> QED BY ManagerInvariant, FeasibleRestore, PTL

-----------------------------------------------------------------------------
(* The pass of the scheduler.                                              *)

-----------------------------------------------------------------------------
(* The order of admission.                                                 *)

(* A function to the naturals takes its smallest value on a set. *)
LEMMA SmallestImage ==
  ASSUME NEW S, S # {}, NEW f, \A s \in S : f[s] \in Nat
  PROVE  \E s \in S : \A t \in S : f[s] <= f[t]
<1> DEFINE T == {f[s] : s \in S}
<1>1. T \in SUBSET Nat /\ T # {}
  OBVIOUS
<1> HIDE DEF T
<1>2. PICK n \in T : \A m \in T : n <= m
  BY <1>1, SmallestNat
<1> QED BY <1>2 DEF T

LEMMA ActiveFinite ==
  IsFiniteSet(ActiveSlots) /\ Cardinality(ActiveSlots) \in Nat /\ ActiveSlots \in SUBSET Slots
<1>1. ActiveSlots \in SUBSET Slots
  BY DEF ActiveSlots
<1> QED BY <1>1, SlotsFinite, FS_Subset, FS_CardinalityType

LEMMA OldestExists ==
  ASSUME LoopTypeOK, OrderExact, NEW S \in SUBSET ActiveSlots, S # {}
  PROVE  Oldest(S) \in S
<1>1. \A s \in S : admission_order[s] \in Nat
  BY ActiveFinite DEF LoopTypeOK
<1>2. PICK s \in S : \A t \in S : admission_order[s] <= admission_order[t]
  BY <1>1, SmallestImage
<1>3. \A t \in S \ {s} : Older(s, t)
  BY <1>1, <1>2 DEF OrderExact, Older
<1> QED BY <1>3 DEF Oldest

LEMMA NewestExists ==
  ASSUME LoopTypeOK, OrderExact, NEW S \in SUBSET ActiveSlots, S # {}
  PROVE  Newest(S) \in S
<1> DEFINE n == Cardinality(ActiveSlots)
           f == [s \in S |-> n - admission_order[s]]
<1>1. n \in Nat /\ \A s \in S : admission_order[s] \in Nat /\ admission_order[s] < n
  BY ActiveFinite DEF LoopTypeOK, OrderExact
<1> HIDE DEF n
<1>2. \A s \in S : f[s] \in Nat /\ f[s] = n - admission_order[s]
  BY <1>1
<1> HIDE DEF f
<1>3. PICK s \in S : \A t \in S : f[s] <= f[t]
  BY <1>2, SmallestImage
<1>4. \A t \in S : admission_order[t] <= admission_order[s]
  BY <1>1, <1>2, <1>3
<1>5. \A t \in S \ {s} : Older(t, s)
  BY <1>1, <1>4 DEF OrderExact, Older
<1> QED BY <1>5 DEF Newest

(* A request leaves: the others keep their order. *)
LEMMA OrderAfterRetire ==
  ASSUME LoopTypeOK, OrderExact, NEW s \in ActiveSlots, ActiveSlots' = ActiveSlots \ {s},
         admission_order' = [t \in Slots |-> IF t = s THEN 0
                                             ELSE IF Older(s, t) THEN admission_order[t] - 1
                                             ELSE admission_order[t]]
  PROVE  OrderExact' /\ admission_order' \in [Slots -> Nat]
<1> DEFINE a == admission_order
           n == Cardinality(ActiveSlots)
<1>1. n \in Nat /\ s \in Slots /\ \A t \in Slots : a[t] \in Nat
  BY ActiveFinite DEF LoopTypeOK
<1>2. Cardinality(ActiveSlots') = n - 1
  BY ActiveFinite, FS_RemoveElement
<1>3. \A t \in Slots : /\ t = s => a'[t] = 0
                       /\ t # s /\ a[s] < a[t] => a'[t] = a[t] - 1
                       /\ t # s /\ ~ (a[s] < a[t]) => a'[t] = a[t]
  BY DEF Older
<1>4. \A t \in ActiveSlots' : t \in Slots /\ t \in ActiveSlots /\ t # s
  BY ActiveFinite
<1>5. \A t \in ActiveSlots : a[t] < n /\ \A u \in ActiveSlots : a[t] = a[u] => t = u
  BY DEF OrderExact
<1>6. \A t \in Slots : a'[t] \in Nat
  BY <1>1, <1>3
<1>7. a' \in [Slots -> Nat]
  BY <1>6
<1> HIDE DEF n, a
<1>8. \A t \in ActiveSlots' : a'[t] < n - 1
  BY <1>1, <1>3, <1>4, <1>5
<1>9. \A t, u \in ActiveSlots' : a'[t] = a'[u] => t = u
  <2> SUFFICES ASSUME NEW t \in ActiveSlots', NEW u \in ActiveSlots', a'[t] = a'[u]
               PROVE  a[t] = a[u]
    BY <1>4, <1>5
  <2>1. a[t] # a[s] /\ a[u] # a[s]
    BY <1>4, <1>5
  <2> QED BY <1>1, <1>3, <1>4, <2>1
<1> QED BY <1>2, <1>7, <1>8, <1>9 DEF OrderExact, a

(* A request arrives: it is the youngest. *)
LEMMA OrderAfterAdmit ==
  ASSUME LoopTypeOK, OrderExact, NEW s \in Slots \ ActiveSlots,
         ActiveSlots' = ActiveSlots \cup {s},
         admission_order' = [admission_order EXCEPT ![s] = Cardinality(ActiveSlots)]
  PROVE  OrderExact' /\ admission_order' \in [Slots -> Nat]
<1> DEFINE n == Cardinality(ActiveSlots)
<1>1. n \in Nat /\ admission_order \in [Slots -> Nat]
  BY ActiveFinite DEF LoopTypeOK
<1>2. Cardinality(ActiveSlots') = n + 1
  BY ActiveFinite, FS_AddElement
<1>3. \A t \in ActiveSlots : admission_order[t] < n /\ t \in Slots /\ t # s
  BY ActiveFinite DEF OrderExact
<1> HIDE DEF n
<1>4. admission_order'[s] = n /\ \A t \in ActiveSlots : admission_order'[t] = admission_order[t]
  BY <1>1, <1>3 DEF n
<1>5. \A t \in ActiveSlots' : t = s \/ t \in ActiveSlots
  OBVIOUS
<1>6. \A t \in ActiveSlots' : admission_order'[t] < n + 1
  BY <1>1, <1>3, <1>4, <1>5
<1>7. \A t, u \in ActiveSlots' : admission_order'[t] = admission_order'[u] => t = u
  BY <1>1, <1>3, <1>4, <1>5 DEF OrderExact
<1>8. admission_order' \in [Slots -> Nat]
  BY <1>1 DEF n
<1> QED BY <1>2, <1>6, <1>7, <1>8 DEF OrderExact

-----------------------------------------------------------------------------
(* The loop calls the manager, and nothing else touches its state.         *)

LEMMA LoopParts ==
  ASSUME LoopInv
  PROVE  /\ ManagerInv /\ LoopTypeOK /\ OrderExact /\ SequencesHaveSlots
         /\ WithinCaps /\ RoomReserved
         /\ SlotVarsTyped /\ HandlesDistinct /\ Carries(kv) /\ KvTyped(kv)
BY InvParts DEF LoopInv, Carries

LEMMA ActiveIn == \A s : s \in ActiveSlots <=> s \in Slots /\ active(s)
BY DEF ActiveSlots

LEMMA ParkedActive ==
  /\ Parked \in SUBSET ActiveSlots /\ Residents \in SUBSET ActiveSlots
  /\ Decoders \in SUBSET Residents /\ Suspendable \in SUBSET Residents
  /\ Prefilling \in SUBSET Residents
BY DEF Parked, Residents, Decoders, Suspendable, Prefilling, ActiveSlots, parked, suspended,
       recomputing, resident, prefilling, decoding, active

(* The victim of the reserve loop exists: without a decoder nothing is lacking. *)
LEMMA DecoderLacks ==
  ASSUME LoopInv, NEW n, ~ ReserveFits(n)
  PROVE  Decoders # {}
<1> SUFFICES ASSUME Decoders = {} PROVE FALSE
  OBVIOUS
<1> DEFINE f == [s \in Slots |-> shortfall(kv, slots[s].handle,
                                           [t \in Slots |-> slots[t].cur_pos + n][s])]
<1>1. cohort_shortfall(Decoders, [s \in Slots |-> slots[s].cur_pos + n]) = Total(f, {})
  BY DEF cohort_shortfall
<1>2. Units(f, {}) = {}
  BY DEF Units
<1>3. Total(f, {}) = 0
  BY <1>2, FS_EmptySet DEF Total
<1>4. 0 <= kv.free
  BY LoopParts DEF KvTyped
<1> QED BY <1>1, <1>3, <1>4 DEF ReserveFits

LEMMA VictimExists ==
  ASSUME LoopInv, ~ ReserveFits(ReserveWidth)
  PROVE  /\ Victim \in Decoders
         /\ kv_recomputable(Victim) \/ \A t \in Decoders : slot_has_images[t]
<1> DEFINE C == {s \in Decoders : kv_recomputable(s)}
<1>1. Decoders # {} /\ Decoders \in SUBSET ActiveSlots
  BY DecoderLacks, ParkedActive
<1>2. CASE C # {}
  <2>1. C \in SUBSET ActiveSlots
    BY <1>1
  <2>2. Newest(C) \in C
    BY <1>2, <2>1, LoopParts, NewestExists
  <2> QED BY <1>2, <2>2 DEF Victim
<1>3. CASE C = {}
  <2>1. Newest(Decoders) \in Decoders
    BY <1>1, LoopParts, NewestExists
  <2>2. Victim = Newest(Decoders)
    BY <1>3 DEF Victim
  <2> QED BY <1>3, <2>1, <2>2 DEF kv_recomputable
<1> QED BY <1>2, <1>3

(* So does the resident that is suspended. *)
LEMMA SuspendedExists ==
  ASSUME LoopInv, Suspend
  PROVE  \E v \in Slots : suspend(v)
<1>1. PICK staging \in SUBSET Prefilling :
        Suspendable \ staging # {} /\ suspend(Newest(Suspendable \ staging))
  BY DEF Suspend
<1> DEFINE S == Suspendable \ staging
<1>2. S # {} /\ S \in SUBSET ActiveSlots
  BY <1>1, ParkedActive
<1> HIDE DEF S
<1>3. Newest(S) \in Slots
  BY <1>2, LoopParts, NewestExists, ActiveIn
<1> QED BY <1>1, <1>3 DEF S

LEMMA ResumedExists ==
  ASSUME LoopInv, MayResume
  PROVE  Oldest(Parked) \in Parked
BY LoopParts, ParkedActive, OldestExists DEF MayResume

LEMMA WidthType == ReserveWidth \in 1 .. MaxBurst
BY ManagerDimensions DEF ReserveWidth

(* Every step of the loop is a step of the manager or leaves it alone. *)
LEMMA StepsTheManager ==
  ASSUME LoopInv, [LoopNext]_vars
  PROVE  [Next]_managerVars
<1>1. CASE UNCHANGED vars
  BY <1>1 DEF vars
<1>2. CASE BeginPass \/ NoResume \/ EndPass
  BY <1>2 DEF BeginPass, NoResume, EndPass
<1>3. CASE Resume
  <2> DEFINE s == Oldest(Parked)
  <2>1. s \in Slots
    BY <1>3, ResumedExists DEF Resume, Parked
  <2>2. \/ restore(s) \/ resume_recompute(s) \/ evict_kv(s) \/ retire(s)
        \/ UNCHANGED managerVars
    BY <1>3 DEF Resume, EvictElseFail, RetireSlot
  <2> HIDE DEF s
  <2> QED BY <2>1, <2>2 DEF Next
<1>4. CASE Reserve
  <2>1. reserve_decode(Growth(ReserveWidth))
    BY <1>4 DEF Reserve
  <2>2. Growth(ReserveWidth) \in [Slots -> 0 .. MaxBurst]
    <3>1. ReserveWidth \in 0 .. MaxBurst /\ 0 \in 0 .. MaxBurst
      BY WidthType, ManagerDimensions
    <3> QED BY <3>1 DEF Growth
  <2> QED BY <2>1, <2>2 DEF Next
<1>5. CASE Suspend
  BY <1>5, SuspendedExists DEF Next
<1>6. CASE EvictOrFail
  <2>1. Victim \in Slots
    BY <1>6, VictimExists DEF EvictOrFail, Decoders
  <2>2. evict_kv(Victim) \/ retire(Victim)
    BY <1>6 DEF EvictOrFail, EvictElseFail, RetireSlot
  <2> QED BY <2>1, <2>2 DEF Next
<1>7. CASE StepAll
  <2>1. PICK s \in Slots : StepDecode(s) \/ CommitDecode(s) \/ StepPrefill(s) \/ CompletePrefill(s)
    BY <1>7 DEF StepAll
  <2>2. CASE StepDecode(s)
    <3>1. PICK n \in 1 .. width : append_tokens(s, n)
      BY <2>2 DEF StepDecode
    <3>2. n \in 1 .. MaxBurst
      BY LoopParts, ManagerDimensions DEF LoopTypeOK
    <3> QED BY <3>1, <3>2 DEF Next
  <2>3. CASE CommitDecode(s)
    BY <2>3 DEF CommitDecode, Next
  <2>4. CASE StepPrefill(s)
    <3> DEFINE n == Least(Chunk, slots[s].prompt_len - slots[s].cur_pos)
    <3>1. append_prefill(s, n)
      BY <2>4 DEF StepPrefill
    <3>2. slots[s].prompt_len \in Nat /\ slots[s].cur_pos \in Nat /\ slots[s].prompt_len <= MaxCtx
      BY LoopParts, SlotFacts, SlotTyped
    <3>3. n >= 1 /\ n <= slots[s].prompt_len - slots[s].cur_pos
      BY <3>1 DEF append_prefill
    <3>4. n \in Int
      BY <3>2, LoopAssumption DEF Least
    <3> HIDE DEF n
    <3>5. n \in 1 .. MaxCtx
      BY <3>2, <3>3, <3>4, ManagerDimensions
    <3> QED BY <3>1, <3>5 DEF Next
  <2>5. CASE CompletePrefill(s)
    BY <2>5 DEF CompletePrefill, Next
  <2> QED BY <2>1, <2>2, <2>3, <2>4, <2>5
<1>8. ASSUME NEW s \in Slots, Cancel(s) \/ Reap(s) PROVE [Next]_managerVars
  BY <1>8 DEF Cancel, Reap, RetireSlot, Next
<1>9. ASSUME NEW s \in Slots, NEW n \in Prompts, NEW cap \in Caps, NEW images \in BOOLEAN,
             AdmitJob(s, n, cap, images)
      PROVE  [Next]_managerVars
  <2>1. admit(s, n) /\ n \in 1 .. MaxCtx
    BY <1>9 DEF AdmitJob, admit
  <2> QED BY <2>1 DEF Next
<1> QED BY <1>1, <1>2, <1>3, <1>4, <1>5, <1>6, <1>7, <1>8, <1>9 DEF LoopNext, Pass

-----------------------------------------------------------------------------
(* What one call leaves alone.                                             *)

LEMMA ManagerParts ==
  ASSUME ManagerInv
  PROVE  SlotVarsTyped /\ HandlesDistinct /\ Carries(kv) /\ KvTyped(kv)
BY InvParts DEF Carries

(* A call for one slot that keeps its request. *)
OwnEffects(s) ==
  /\ active(s) /\ slots'[s].phase # "free" /\ slots[s].handle \in Slots
  /\ slots'[s].handle = slots[s].handle
  /\ slots'[s].original_prompt_len = slots[s].original_prompt_len
  /\ \A t \in Slots \ {s} : slots'[t] = slots[t] /\ stream'[t] = stream[t]
  /\ \A p \in Slots : kv'.seqs[p].request_id = kv.seqs[p].request_id
  /\ \A p \in Slots \ {slots[s].handle} : kv'.seqs[p] = kv.seqs[p]

LEMMA UpdatesEffects ==
  ASSUME NEW p \in Slots, NEW e, Updates(kv, kv', p, e),
         e.request_id = kv.seqs[p].request_id
  PROVE  /\ \A t \in Slots : kv'.seqs[t].request_id = kv.seqs[t].request_id
         /\ \A t \in Slots \ {p} : kv'.seqs[t] = kv.seqs[t]
BY DEF Updates

(* reserve_capacity, append and clear leave the sequence to its request. *)
LEMMA CallsKeepTheRequest ==
  ASSUME NEW K, KvTyped(K), NEW p \in Slots
  PROVE  /\ \A n \in Nat : shortfall(K, p, n) <= K.free =>
              \E e : /\ Updates(K, reserve_capacity(K, p, n), p, e)
                    /\ e.request_id = K.seqs[p].request_id
         /\ \A n \in Nat : append_ok(K, p, n) =>
              \E e : /\ Updates(K, append(K, p, n), p, e)
                    /\ e.request_id = K.seqs[p].request_id
         /\ \E e : Updates(K, clear(K, p), p, e) /\ e.request_id = K.seqs[p].request_id
<1>1. ASSUME NEW n \in Nat, shortfall(K, p, n) <= K.free
      PROVE  \E e : /\ Updates(K, reserve_capacity(K, p, n), p, e)
                   /\ e.request_id = K.seqs[p].request_id
  <2> DEFINE e == [request_id |-> K.seqs[p].request_id, kv_seq_len |-> K.seqs[p].kv_seq_len,
                   owned |-> Greatest(K.seqs[p].owned, blocks_for_tokens(n))]
  <2>1. Updates(K, reserve_capacity(K, p, n), p, e)
    BY <1>1, ReserveUpdates
  <2>2. e.request_id = K.seqs[p].request_id
    OBVIOUS
  <2> HIDE DEF e
  <2> QED BY <2>1, <2>2
<1>2. ASSUME NEW n \in Nat, append_ok(K, p, n)
      PROVE  \E e : /\ Updates(K, append(K, p, n), p, e)
                   /\ e.request_id = K.seqs[p].request_id
  <2> DEFINE e == [request_id |-> K.seqs[p].request_id,
                   kv_seq_len |-> K.seqs[p].kv_seq_len + n,
                   owned |-> Greatest(K.seqs[p].owned,
                                      blocks_for_tokens(K.seqs[p].kv_seq_len + n))]
  <2>1. Updates(K, append(K, p, n), p, e)
    BY <1>2, AppendUpdates
  <2>2. e.request_id = K.seqs[p].request_id
    OBVIOUS
  <2> HIDE DEF e
  <2> QED BY <2>1, <2>2
<1>3. \E e : Updates(K, clear(K, p), p, e) /\ e.request_id = K.seqs[p].request_id
  <2> DEFINE e == [request_id |-> K.seqs[p].request_id, kv_seq_len |-> 0, owned |-> 0]
  <2>1. Updates(K, clear(K, p), p, e)
    BY ClearUpdates
  <2>2. e.request_id = K.seqs[p].request_id
    OBVIOUS
  <2> HIDE DEF e
  <2> QED BY <2>1, <2>2
<1> QED BY <1>1, <1>2, <1>3

LEMMA AppendEffects ==
  ASSUME ManagerInv, NEW s \in Slots, NEW n \in Nat,
         append_prefill(s, n) \/ append_tokens(s, n)
  PROVE  OwnEffects(s)
<1> DEFINE p == slots[s].handle
<1>1. p \in Slots /\ KvTyped(kv) /\ SlotVarsTyped
  BY ManagerParts, SlotFacts
<1>2. append_ok(kv, p, n) /\ kv' = append(kv, p, n) /\ active(s) /\ stream' = stream
  BY DEF append_prefill, append_tokens, prefilling, decoding, active
<1>3. PICK e : Updates(kv, kv', p, e) /\ e.request_id = kv.seqs[p].request_id
  BY <1>1, <1>2, CallsKeepTheRequest
<1>4. /\ \A t \in Slots : kv'.seqs[t].request_id = kv.seqs[t].request_id
      /\ \A t \in Slots \ {p} : kv'.seqs[t] = kv.seqs[t]
  BY <1>1, <1>3, UpdatesEffects
<1>5. slots[s] \in SeqSlot
  BY ManagerParts, SlotFacts
<1>6. /\ slots'[s].phase = slots[s].phase /\ slots'[s].handle = slots[s].handle
      /\ slots'[s].original_prompt_len = slots[s].original_prompt_len
      /\ \A t \in Slots \ {s} : slots'[t] = slots[t]
  <2>1. CASE append_prefill(s, n)
    BY <1>1, <1>5, <2>1 DEF append_prefill, SlotVarsTyped, SeqSlot
  <2>2. CASE append_tokens(s, n)
    BY <1>1, <1>5, <2>2 DEF append_tokens, SlotVarsTyped, SeqSlot
  <2> QED BY <2>1, <2>2
<1> QED BY <1>1, <1>2, <1>4, <1>6 DEF OwnEffects, active

LEMMA CommitEffects ==
  ASSUME ManagerInv, NEW s \in Slots, commit_prefill(s) \/ commit_step(s)
  PROVE  /\ OwnEffects(s) /\ slots'[s].phase = "decode"
         /\ slots'[s].staged_tokens = << >>
<1>1. slots[s].handle \in Slots /\ SlotVarsTyped /\ slots[s] \in SeqSlot
  BY ManagerParts, SlotFacts
<1>2. kv' = kv
  BY DEF commit_prefill, commit_step
<1>3. CASE commit_prefill(s)
  <2>1. slots[s].staged_tokens = << >> /\ active(s)
    BY <1>3, SlotForm DEF commit_prefill, prefilling, PhasePrefill, active
  <2>2. /\ slots'[s].handle = slots[s].handle /\ slots'[s].phase = "decode"
        /\ slots'[s].original_prompt_len = slots[s].original_prompt_len
        /\ slots'[s].staged_tokens = slots[s].staged_tokens
        /\ \A t \in Slots \ {s} : slots'[t] = slots[t] /\ stream'[t] = stream[t]
    BY <1>1, <1>3 DEF commit_prefill, SlotVarsTyped, SeqSlot
  <2> QED BY <1>1, <1>2, <2>1, <2>2 DEF OwnEffects
<1>4. CASE commit_step(s)
  <2>1. slots[s].phase = "decode" /\ active(s)
    BY <1>4, StagedDecodes DEF commit_step
  <2> DEFINE q2 == [slots[s] EXCEPT !.sample_history = @ \o slots[s].staged_tokens,
                                    !.cur_pos = @ + Len(slots[s].staged_tokens),
                                    !.staged_tokens = <<>>]
  <2>2. /\ q2.handle = slots[s].handle /\ q2.phase = slots[s].phase
        /\ q2.original_prompt_len = slots[s].original_prompt_len
        /\ q2.staged_tokens = << >>
    BY <1>1 DEF SeqSlot
  <2>3. slots' = [slots EXCEPT ![s] = q2]
    BY <1>4 DEF commit_step
  <2> HIDE DEF q2
  <2>4. \A t \in Slots \ {s} : slots'[t] = slots[t] /\ stream'[t] = stream[t]
    BY <1>1, <1>4, <2>3 DEF commit_step, SlotVarsTyped
  <2>5. slots'[s] = q2
    BY <1>1, <2>3 DEF SlotVarsTyped
  <2> QED BY <1>1, <1>2, <2>1, <2>2, <2>4, <2>5 DEF OwnEffects
<1> QED BY <1>3, <1>4

(* Parking and resuming. *)
LEMMA ParkEffects ==
  ASSUME ManagerInv, NEW s \in Slots,
         suspend(s) \/ restore(s) \/ evict_kv(s) \/ resume_recompute(s)
  PROVE  /\ OwnEffects(s) /\ stream' = stream
         /\ slots'[s].staged_tokens = slots[s].staged_tokens
<1> DEFINE p == slots[s].handle
           m == resume_token_capacity(s)
<1>1. /\ p \in Slots /\ KvTyped(kv) /\ SlotVarsTyped /\ slots[s] \in SeqSlot /\ ManagerInv
      /\ slots[s].cur_pos \in Nat /\ slots[s].prompt_len \in 0 .. MaxCtx
  BY ManagerParts, SlotFacts, SlotTyped DEF SeqSlot
<1>2. active(s) /\ stream' = stream
  BY DEF suspend, restore, evict_kv, resume_recompute, resident, prefilling, decoding,
         attach_kv_ok, suspended, recomputing, active
<1>3. PICK e : Updates(kv, kv', p, e) /\ e.request_id = kv.seqs[p].request_id
  <2>1. CASE kv' = kv
    BY <1>1, <2>1, KvSame
  <2>2. CASE kv' = clear(kv, p)
    BY <1>1, <2>2, CallsKeepTheRequest
  <2>3. CASE resume_recompute(s)
    <3>1. m = reservation_capacity(slots[s].prompt_len)
      BY <2>3 DEF resume_token_capacity, resume_recompute
    <3>2. m \in Nat
      BY <1>1, <3>1, ReservationCovers
    <3>3. shortfall(kv, p, m) <= kv.free /\ kv' = reserve_capacity(kv, p, m)
      BY <2>3 DEF resume_recompute, reserve_capacity_ok
    <3> HIDE DEF m, p
    <3> QED BY <1>1, <3>2, <3>3, CallsKeepTheRequest
  <2>4. CASE restore(s)
    <3> DEFINE L == reserve_capacity(kv, p, m)
               c == slots[s].cur_pos
    <3>1. suspended(s) /\ reserve_capacity_ok(kv, p, m) /\ append_ok(L, p, c)
          /\ kv' = append(L, p, c)
      BY <2>4 DEF restore, attach_kv_ok, attach_kv
    <3>2. m \in Nat
      BY <1>1, <3>1, ResumeCapacity
    <3> HIDE DEF m
    <3>3. PICK d : Updates(kv, L, p, d) /\ d.request_id = kv.seqs[p].request_id
      BY <1>1, <3>1, <3>2, CallsKeepTheRequest DEF reserve_capacity_ok
    <3>4. KvTyped(L) /\ L.seqs[p] = d
      BY <1>1, <3>3 DEF Updates
    <3> HIDE DEF L
    <3>5. PICK e : Updates(L, kv', p, e) /\ e.request_id = L.seqs[p].request_id
      BY <1>1, <3>1, <3>4, CallsKeepTheRequest
    <3>6. Updates(kv, kv', p, e)
      BY <1>1, <3>3, <3>5, UpdatesTwice
    <3> QED BY <3>3, <3>4, <3>5, <3>6
  <2>5. suspend(s) => kv' = clear(kv, p)
    BY DEF suspend, detach_kv
  <2>6. evict_kv(s) => kv' = kv \/ kv' = clear(kv, p)
    BY DEF evict_kv
  <2> QED BY <2>1, <2>2, <2>3, <2>4, <2>5, <2>6
<1>4. /\ \A t \in Slots : kv'.seqs[t].request_id = kv.seqs[t].request_id
      /\ \A t \in Slots \ {p} : kv'.seqs[t] = kv.seqs[t]
  BY <1>1, <1>3, UpdatesEffects
<1>5. /\ slots'[s].phase # "free" /\ slots'[s].handle = slots[s].handle
      /\ slots'[s].original_prompt_len = slots[s].original_prompt_len
      /\ slots'[s].staged_tokens = slots[s].staged_tokens
      /\ \A t \in Slots \ {s} : slots'[t] = slots[t]
  <2>1. CASE suspend(s)
    BY <1>1, <2>1 DEF suspend, SlotVarsTyped, SeqSlot
  <2>2. CASE restore(s)
    BY <1>1, <2>2 DEF restore, SlotVarsTyped, SeqSlot
  <2>3. CASE resume_recompute(s)
    BY <1>1, <2>3 DEF resume_recompute, SlotVarsTyped, SeqSlot
  <2>4. CASE evict_kv(s)
    <3> DEFINE h == replayed_history(s)
               q2 == [slots[s] EXCEPT !.sample_history = h, !.prompt_len = Len(h),
                                      !.cur_pos = 0, !.phase = "recompute"]
    <3>1. slots' = [slots EXCEPT ![s] = q2]
      BY <2>4 DEF evict_kv
    <3>2. /\ q2.handle = slots[s].handle /\ q2.phase = "recompute"
          /\ q2.original_prompt_len = slots[s].original_prompt_len
          /\ q2.staged_tokens = slots[s].staged_tokens
      BY <1>1 DEF SeqSlot
    <3> HIDE DEF q2
    <3> QED BY <1>1, <3>1, <3>2 DEF SlotVarsTyped
  <2> QED BY <2>1, <2>2, <2>3, <2>4
<1> QED BY <1>1, <1>2, <1>4, <1>5 DEF OwnEffects

(* A cohort reservation changes no sequence's id and grows what it holds to *)
(* the capacity asked for. *)
LEMMA CohortGrows ==
  ASSUME ManagerInv, NEW S \in SUBSET Slots, \A s \in S : decoding(s),
         NEW capacity, \A s \in S : capacity[s] \in Nat,
         cohort_shortfall(S, capacity) <= kv.free
  PROVE  /\ \A p \in Slots : reserve_cohort(S, capacity).seqs[p].request_id
                              = kv.seqs[p].request_id
         /\ \A s \in S : reserve_cohort(S, capacity).seqs[slots[s].handle].owned
                         = Greatest(kv.seqs[slots[s].handle].owned,
                                    blocks_for_tokens(capacity[s]))
<1> DEFINE L == reserve_cohort(S, capacity)
<1>1. /\ KvTyped(kv) /\ HandlesExclusive /\ \A s \in Slots : slots[s].handle \in Slots
      /\ \A s \in S : active(s)
  <2>1. KvTyped(kv) /\ HandlesExclusive /\ \A s \in Slots : slots[s].handle \in Slots
    BY InvParts, SlotFacts DEF ManagerInv, Carries
  <2> QED BY <2>1 DEF active, decoding
<1>2. /\ \A p \in Slots : L.seqs[p].request_id = kv.seqs[p].request_id
      /\ \A s \in S : L.seqs[slots[s].handle].owned
                      = Greatest(kv.seqs[slots[s].handle].owned, blocks_for_tokens(capacity[s]))
  BY <1>1, CohortUpdates
<1> QED BY <1>2

-----------------------------------------------------------------------------
(* Every sequence has its slot.                                            *)

(* No sequence comes to life and every active slot stays with its own. *)
LEMMA StaysWithSlots ==
  ASSUME SequencesHaveSlots,
         \A p \in Slots : live(kv, p)' => live(kv, p),
         \A t \in ActiveSlots : t \in ActiveSlots' /\ slots'[t].handle = slots[t].handle
  PROVE  SequencesHaveSlots'
BY DEF SequencesHaveSlots

LEMMA OwnHaveSlots ==
  ASSUME SequencesHaveSlots, NEW s \in Slots, OwnEffects(s)
  PROVE  SequencesHaveSlots'
<1>1. \A t \in ActiveSlots : t \in ActiveSlots' /\ slots'[t].handle = slots[t].handle
  BY DEF OwnEffects, ActiveSlots, active
<1>2. \A p \in Slots : live(kv, p)' => live(kv, p)
  BY DEF OwnEffects, live
<1> QED BY <1>1, <1>2, StaysWithSlots

LEMMA RollbackHaveSlots ==
  ASSUME ManagerInv, SequencesHaveSlots, NEW s \in Slots, rollback_step(s)
  PROVE  SequencesHaveSlots'
<1> DEFINE p == slots[s].handle
           n == Len(slots[s].staged_tokens)
<1>1. /\ kv' = [kv EXCEPT !.seqs[p].kv_seq_len = @ - n]
      /\ slots' = [slots EXCEPT ![s].staged_tokens = <<>>]
  BY DEF rollback_step, rollback_append
<1>2. SlotVarsTyped /\ KvTyped(kv) /\ p \in Slots
  BY ManagerParts, SlotFacts
<1>3. \A t \in ActiveSlots : t \in ActiveSlots' /\ slots'[t].handle = slots[t].handle
  <2>1. /\ slots'[s].handle = slots[s].handle /\ slots'[s].phase = slots[s].phase
        /\ \A t \in Slots \ {s} : slots'[t] = slots[t]
    BY <1>1, <1>2 DEF SlotVarsTyped, SeqSlot
  <2> QED BY <2>1 DEF ActiveSlots, active
<1>4. \A r \in Slots : live(kv, r)' => live(kv, r)
  BY <1>1, <1>2 DEF live, KvTyped, KvSequence
<1> QED BY <1>3, <1>4, StaysWithSlots

LEMMA RetireHaveSlots ==
  ASSUME ManagerInv, SequencesHaveSlots, NEW s \in Slots, retire(s)
  PROVE  SequencesHaveSlots'
<1> DEFINE p == slots[s].handle
<1>1. SlotVarsTyped /\ KvTyped(kv) /\ p \in Slots
  BY ManagerParts, SlotFacts
<1>2. kv' = release(kv, p) /\ slots' = [slots EXCEPT ![s] = FreeSlot]
  BY DEF retire
<1>3. Updates(kv, kv', p, NoSequence)
  BY <1>1, <1>2, ReleaseUpdates
<1>4. \A r \in Slots : live(kv, r)' => r # p /\ live(kv, r)
  BY <1>1, <1>3 DEF Updates, live, NoSequence
<1> SUFFICES ASSUME NEW r \in Slots, live(kv, r)'
             PROVE  \E t \in ActiveSlots' : slots'[t].handle = r
  BY DEF SequencesHaveSlots
<1>5. PICK t \in ActiveSlots : slots[t].handle = r
  BY <1>4 DEF SequencesHaveSlots
<1>6. t # s /\ t \in Slots
  BY <1>4, <1>5 DEF ActiveSlots
<1>7. slots'[t] = slots[t]
  BY <1>1, <1>2, <1>6 DEF SlotVarsTyped
<1> QED BY <1>5, <1>6, <1>7 DEF ActiveSlots, active

LEMMA ReserveHaveSlots ==
  ASSUME ManagerInv, SequencesHaveSlots, NEW growth \in [Slots -> 0 .. MaxBurst],
         reserve_decode(growth)
  PROVE  SequencesHaveSlots'
<1> DEFINE D == {s \in Slots : decoding(s)}
           extent == [s \in Slots |-> slots[s].cur_pos + growth[s]]
<1>1. \A s \in D : extent[s] \in Nat
  <2> SUFFICES ASSUME NEW s \in D PROVE extent[s] \in Nat
    OBVIOUS
  <2>1. slots[s].cur_pos \in Nat
    BY SlotFacts, SlotTyped
  <2>2. growth[s] \in Nat
    BY ManagerDimensions
  <2> QED BY <2>1, <2>2
<1>2. /\ cohort_shortfall(D, extent) <= kv.free /\ kv' = reserve_cohort(D, extent)
      /\ slots' = slots
  BY DEF reserve_decode
<1> HIDE DEF extent
<1>3. \A p \in Slots : kv'.seqs[p].request_id = kv.seqs[p].request_id
  BY <1>1, <1>2, CohortGrows
<1>4. \A t \in ActiveSlots : t \in ActiveSlots' /\ slots'[t].handle = slots[t].handle
  BY <1>2 DEF ActiveSlots, active
<1>5. \A p \in Slots : live(kv, p)' => live(kv, p)
  BY <1>3 DEF live
<1> QED BY <1>4, <1>5, StaysWithSlots

LEMMA AdmitHaveSlots ==
  ASSUME ManagerInv, SequencesHaveSlots, NEW s \in Slots, NEW n \in 1 .. MaxCtx, admit(s, n)
  PROVE  SequencesHaveSlots'
<1> DEFINE K == reserve_cohort(Protected, Headroom)
           q(p) == [phase |-> "prefill", handle |-> p,
                    original_prompt_len |-> n, prompt_len |-> n, cur_pos |-> 0,
                    sample_history |-> Span(1, n), staged_tokens |-> <<>>]
<1>1. SlotVarsTyped /\ ~ active(s)
  BY ManagerParts DEF admit
<1>2. \A p \in Slots : live(K, p) <=> live(kv, p)
  <2>1. Protected \in SUBSET Slots /\ \A t \in Protected : decoding(t)
    BY DEF Protected, decoding
  <2>2. \A t \in Protected : Headroom[t] \in Nat
    <3> SUFFICES ASSUME NEW t \in Slots PROVE Headroom[t] \in Nat
      BY <2>1
    <3>1. slots[t].cur_pos \in 0 .. MaxCtx
      BY SlotFacts DEF SeqSlot
    <3> QED BY <3>1, ReservationCovers DEF Headroom
  <2>3. cohort_shortfall(Protected, Headroom) <= kv.free
    BY DEF admit
  <2>4. \A p \in Slots : K.seqs[p].request_id = kv.seqs[p].request_id
    BY <2>1, <2>2, <2>3, CohortGrows
  <2> QED BY <2>4 DEF live
<1>3. CASE kv' = K /\ slots' = slots
  <2>1. \A t \in ActiveSlots : t \in ActiveSlots' /\ slots'[t].handle = slots[t].handle
    BY <1>3 DEF ActiveSlots, active
  <2>2. \A p \in Slots : live(kv, p)' => live(kv, p)
    BY <1>2, <1>3 DEF live
  <2> QED BY <2>1, <2>2, StaysWithSlots
<1>4. ASSUME NEW id \in RequestIds, NEW p \in Slots,
             kv' = acquire_reserved(K, p, id, reservation_capacity(n)),
             slots' = [slots EXCEPT ![s] = q(p)]
      PROVE  SequencesHaveSlots'
  <2>1. q(p).phase = "prefill" /\ q(p).handle = p
    OBVIOUS
  <2> HIDE DEF q
  <2>2. slots'[s] = q(p) /\ \A t \in Slots \ {s} : slots'[t] = slots[t]
    BY <1>1, <1>4 DEF SlotVarsTyped
  <2>3. \A r \in Slots : live(kv', r) => r = p \/ live(K, r)
    <3>1. K.seqs = [t \in Slots |-> K.seqs[t]]
      BY DEF reserve_cohort
    <3> HIDE DEF K
    <3> QED BY <1>4, <3>1 DEF acquire_reserved, live
  <2> SUFFICES ASSUME NEW r \in Slots, live(kv', r)
               PROVE  \E t \in ActiveSlots' : slots'[t].handle = r
    BY DEF SequencesHaveSlots
  <2>4. CASE r = p
    BY <2>1, <2>2, <2>4 DEF ActiveSlots, active
  <2>5. CASE r # p
    <3>1. PICK t \in ActiveSlots : slots[t].handle = r
      BY <1>2, <2>3, <2>5 DEF SequencesHaveSlots
    <3>2. t \in Slots \ {s} /\ active(t)
      BY <1>1, <3>1 DEF ActiveSlots
    <3> QED BY <2>2, <3>1, <3>2 DEF ActiveSlots, active
  <2> QED BY <2>4, <2>5
<1> QED BY <1>3, <1>4 DEF admit

LEMMA NextHaveSlots ==
  ASSUME ManagerInv, SequencesHaveSlots, [Next]_managerVars
  PROVE  SequencesHaveSlots'
<1>1. ASSUME NEW s \in Slots, NEW n \in 1 .. MaxCtx, admit(s, n)
      PROVE  SequencesHaveSlots'
  BY <1>1, AdmitHaveSlots
<1>2. ASSUME NEW s \in Slots, NEW n \in Nat, append_prefill(s, n) \/ append_tokens(s, n)
      PROVE  SequencesHaveSlots'
  BY <1>2, AppendEffects, OwnHaveSlots
<1>3. ASSUME NEW s \in Slots, commit_prefill(s) \/ commit_step(s)
      PROVE  SequencesHaveSlots'
  BY <1>3, CommitEffects, OwnHaveSlots
<1>4. ASSUME NEW s \in Slots,
             suspend(s) \/ restore(s) \/ evict_kv(s) \/ resume_recompute(s)
      PROVE  SequencesHaveSlots'
  BY <1>4, ParkEffects, OwnHaveSlots
<1>5. CASE UNCHANGED managerVars
  BY <1>5 DEF managerVars, SequencesHaveSlots, ActiveSlots, active, live
<1>6. \A n \in 1 .. MaxCtx : n \in Nat
  OBVIOUS
<1>7. \A n \in 1 .. MaxBurst : n \in Nat
  OBVIOUS
<1> QED BY <1>1, <1>2, <1>3, <1>4, <1>5, <1>6, <1>7, RollbackHaveSlots, RetireHaveSlots,
           ReserveHaveSlots DEF Next, seed_restored_prefix

(* Every block of the pool is free or owned by the sequence of an active     *)
(* slot, also after the two-loop cohort reservations of admit and            *)
(* reserve_decode and after a retirement from any phase.                     *)
THEOREM BlocksAreConserved == Spec => []BlocksConserved
<1>1. Init => SequencesHaveSlots
  BY DEF Init, Fresh, SequencesHaveSlots, live, NoSequence
<1>2. ManagerInv /\ SequencesHaveSlots /\ [Next]_managerVars => SequencesHaveSlots'
  BY NextHaveSlots
<1>3. ManagerInv /\ SequencesHaveSlots => BlocksConserved
  BY DEF ManagerInv, BlocksConserved
<1> QED BY <1>1, <1>2, <1>3, ManagerInvariant, PTL DEF Spec

-----------------------------------------------------------------------------
(* The invariant of the loop.                                              *)

LEMMA OwnKeeps ==
  ASSUME LoopInv, NEW s \in Slots, OwnEffects(s), admission_order' = admission_order
  PROVE  ActiveSlots' = ActiveSlots /\ OrderExact' /\ SequencesHaveSlots'
<1>1. \A t \in Slots : active(t)' <=> active(t)
  BY DEF OwnEffects, active
<1>2. ActiveSlots' = ActiveSlots
  BY <1>1 DEF ActiveSlots
<1>3. OrderExact'
  BY <1>2, LoopParts DEF OrderExact
<1>4. \A t \in Slots : slots'[t].handle = slots[t].handle
  BY DEF OwnEffects
<1>5. \A p \in Slots : live(kv, p)' <=> live(kv, p)
  BY DEF OwnEffects, live
<1>6. SequencesHaveSlots'
  BY <1>2, <1>4, <1>5, ActiveIn, LoopParts DEF SequencesHaveSlots
<1> QED BY <1>2, <1>3, <1>6

(* Parking and resuming happen outside a step and generate nothing. *)
LEMMA ParkKeeps ==
  ASSUME LoopInv, NEW s \in Slots,
         suspend(s) \/ restore(s) \/ evict_kv(s) \/ resume_recompute(s),
         UNCHANGED <<requestVars, width, todo>>,
         pc \in {"resume", "reserve"}, pc' \in {"resume", "reserve"}, ManagerInv'
  PROVE  LoopInv'
<1>1. OwnEffects(s) /\ stream' = stream /\ slots'[s].staged_tokens = slots[s].staged_tokens
  BY LoopParts, ParkEffects
<1>2. ActiveSlots' = ActiveSlots /\ OrderExact' /\ SequencesHaveSlots'
  BY <1>1, OwnKeeps DEF requestVars
<1>3. LoopTypeOK'
  BY LoopParts DEF LoopTypeOK, requestVars
<1>4. \A t \in Slots : /\ slots'[t].original_prompt_len = slots[t].original_prompt_len
                       /\ slots'[t].staged_tokens = slots[t].staged_tokens
                       /\ Generated(t)' = Generated(t)
  BY <1>1 DEF OwnEffects, Generated
<1>5. WithinCaps'
  BY <1>2, <1>4, ActiveIn, LoopParts DEF WithinCaps, requestVars
<1>6. RoomReserved'
  BY DEF RoomReserved
<1> QED BY <1>2, <1>3, <1>5, <1>6 DEF LoopInv

LEMMA RetireKeeps ==
  ASSUME LoopInv, NEW s \in Slots, RetireSlot(s), UNCHANGED <<n_gen_cap, width, todo>>,
         pc' = pc \/ (pc = "resume" /\ pc' = "reserve"), pc = "step" => todo = {}, ManagerInv'
  PROVE  LoopInv'
<1> DEFINE p == slots[s].handle
<1>1. SlotVarsTyped /\ HandlesDistinct /\ KvTyped(kv) /\ p \in Slots /\ LoopTypeOK
  BY LoopParts, SlotFacts
<1>2. /\ active(s) /\ kv' = release(kv, p)
      /\ slots' = [slots EXCEPT ![s] = FreeSlot] /\ stream' = [stream EXCEPT ![s] = 0]
  BY DEF RetireSlot, retire
<1>3. /\ slots'[s].phase = "free"
      /\ \A t \in Slots \ {s} : slots'[t] = slots[t] /\ stream'[t] = stream[t]
  BY <1>1, <1>2, FreePhase DEF SlotVarsTyped
<1>4. ActiveSlots' = ActiveSlots \ {s} /\ s \in ActiveSlots
  BY <1>2, <1>3 DEF ActiveSlots, active
<1>5. OrderExact' /\ admission_order' \in [Slots -> Nat]
  BY <1>1, <1>4, LoopParts, OrderAfterRetire DEF RetireSlot
<1>6. LoopTypeOK'
  BY <1>1, <1>5 DEF LoopTypeOK, RetireSlot
<1>7. SequencesHaveSlots'
  BY LoopParts, RetireHaveSlots DEF RetireSlot
<1>8. WithinCaps'
  <2> SUFFICES ASSUME NEW t \in ActiveSlots'
               PROVE  /\ n_gen_cap'[t] + slots'[t].original_prompt_len <= MaxCtx + 1
                      /\ pc' # "step" \/ ~ decoding(t)' => Generated(t)' < n_gen_cap'[t]
                      /\ pc' # "step" \/ t \notin todo' => slots'[t].staged_tokens = <<>>
    BY DEF WithinCaps
  <2>1. t \in ActiveSlots /\ t \in Slots \ {s}
    BY <1>4, ActiveIn
  <2>2. /\ slots'[t] = slots[t] /\ Generated(t)' = Generated(t)
        /\ decoding(t)' <=> decoding(t)
    BY <1>3, <2>1 DEF Generated, decoding
  <2> QED BY <2>1, <2>2, LoopParts DEF WithinCaps
<1>9. RoomReserved'
  BY DEF RoomReserved
<1> QED BY <1>5, <1>6, <1>7, <1>8, <1>9 DEF LoopInv

(* Every active slot but s is as it was, and so is its sequence. *)
LEMMA OthersKeep ==
  ASSUME LoopInv, NEW s \in Slots, OwnEffects(s), NEW t \in ActiveSlots, t # s
  PROVE  /\ t \in Slots /\ slots'[t] = slots[t] /\ Generated(t)' = Generated(t)
         /\ kv'.seqs[slots'[t].handle] = kv.seqs[slots[t].handle]
<1>1. t \in Slots /\ slots'[t] = slots[t] /\ Generated(t)' = Generated(t)
  BY ActiveIn DEF OwnEffects, Generated
<1>2. slots[t].handle \in Slots /\ slots[t].handle # slots[s].handle
  BY <1>1, ActiveIn, LoopParts, SlotFacts DEF HandlesDistinct, OwnEffects
<1> QED BY <1>1, <1>2 DEF OwnEffects

(* Inside a step: slot s takes its turn. *)
LEMMA TurnKeeps ==
  ASSUME LoopInv, NEW s \in Slots, OwnEffects(s),
         pc = "step", pc' = "step", s \in todo,
         UNCHANGED <<requestVars, width>>,
         todo' = todo \/ todo' = todo \ {s},
         resident(s)',
         ~ decoding(s)' => Generated(s)' = Generated(s) /\ ~ decoding(s),
         s \in todo' /\ decoding(s)' => slots'[s].staged_tokens # << >>,
         s \notin todo' => slots'[s].staged_tokens = << >>,
         ManagerInv'
  PROVE  LoopInv'
<1>1. ActiveSlots' = ActiveSlots /\ OrderExact' /\ SequencesHaveSlots'
  BY OwnKeeps DEF requestVars
<1>2. LoopTypeOK'
  BY LoopParts DEF LoopTypeOK, requestVars
<1> USE DEF requestVars
<1>3. s \in ActiveSlots /\ slots'[s].original_prompt_len = slots[s].original_prompt_len
  BY ActiveIn DEF OwnEffects
<1>4. WithinCaps'
  <2> SUFFICES ASSUME NEW t \in ActiveSlots
               PROVE  /\ n_gen_cap'[t] + slots'[t].original_prompt_len <= MaxCtx + 1
                      /\ pc' # "step" \/ ~ decoding(t)' => Generated(t)' < n_gen_cap'[t]
                      /\ pc' # "step" \/ t \notin todo' => slots'[t].staged_tokens = <<>>
    BY <1>1 DEF WithinCaps
  <2>1. /\ n_gen_cap[t] + slots[t].original_prompt_len <= MaxCtx + 1
        /\ pc # "step" \/ ~ decoding(t) => Generated(t) < n_gen_cap[t]
        /\ pc # "step" \/ t \notin todo => slots[t].staged_tokens = <<>>
    BY LoopParts DEF WithinCaps
  <2>2. CASE t = s
    BY <1>3, <2>1, <2>2
  <2>3. CASE t # s
    <3>1. slots'[t] = slots[t] /\ Generated(t)' = Generated(t) /\ (decoding(t)' <=> decoding(t))
      BY <2>3, OthersKeep DEF decoding
    <3>2. t \in todo' <=> t \in todo
      BY <2>3
    <3> QED BY <2>1, <3>1, <3>2
  <2> QED BY <2>2, <2>3
<1>5. RoomReserved'
  <2> SUFFICES ASSUME NEW t \in todo'
               PROVE  /\ resident(t)'
                      /\ decoding(t)' /\ slots'[t].staged_tokens = <<>> =>
                           /\ slots'[t].cur_pos + width' <= MaxCtx
                           /\ blocks_for_tokens(slots'[t].cur_pos + width')
                                <= kv'.seqs[slots'[t].handle].owned
    BY DEF RoomReserved, owned_block_count
  <2>1. t \in todo
    OBVIOUS
  <2>2. /\ resident(t)
        /\ decoding(t) /\ slots[t].staged_tokens = <<>> =>
             /\ slots[t].cur_pos + width <= MaxCtx
             /\ blocks_for_tokens(slots[t].cur_pos + width) <= kv.seqs[slots[t].handle].owned
    BY <2>1, LoopParts DEF RoomReserved, owned_block_count
  <2>3. CASE t = s
    BY <2>3
  <2>4. CASE t # s
    <3>1. t \in ActiveSlots
      BY <2>1, <2>2, LoopParts, ActiveIn DEF LoopTypeOK, resident, prefilling, decoding, active
    <3>2. slots'[t] = slots[t] /\ kv'.seqs[slots'[t].handle] = kv.seqs[slots[t].handle]
      BY <2>4, <3>1, OthersKeep
    <3>3. (decoding(t)' <=> decoding(t)) /\ (resident(t)' <=> resident(t))
      BY <3>2 DEF decoding, resident, prefilling
    <3> QED BY <2>2, <3>2, <3>3
  <2> QED BY <2>3, <2>4
<1> QED BY <1>1, <1>2, <1>4, <1>5 DEF LoopInv

LEMMA StepKeeps ==
  ASSUME LoopInv, StepAll, ManagerInv'
  PROVE  LoopInv'
<1>1. PICK s \in Slots : StepDecode(s) \/ CommitDecode(s) \/ StepPrefill(s) \/ CompletePrefill(s)
  BY DEF StepAll
<1>2. /\ slots[s] \in SeqSlot /\ SlotVarsTyped /\ ManagerInv /\ pending[s] \in Nat
      /\ slots[s].cur_pos \in Nat /\ slots[s].prompt_len \in Nat
  BY LoopParts, SlotFacts, SlotTyped
<1>3. CASE StepDecode(s)
  <2>1. PICK n \in 1 .. width : append_tokens(s, n)
    BY <1>3 DEF StepDecode
  <2>2. n \in Nat /\ n >= 1
    OBVIOUS
  <2>3. OwnEffects(s)
    BY <1>2, <2>1, <2>2, AppendEffects
  <2> DEFINE fed == Span(pending[s], pending[s] + n - 1)
  <2>4. Len(fed) = n /\ fed # << >>
    <3> DEFINE b == pending[s] + n - 1
    <3>1. b \in Int /\ pending[s] - 1 <= b /\ b - pending[s] + 1 = n
      BY <1>2, <2>2
    <3> HIDE DEF b
    <3>2. Len(Span(pending[s], b)) = b - pending[s] + 1
      BY <1>2, <3>1, SpanProps
    <3>3. Len(<< >>) = 0
      BY SpanEmpty
    <3> QED BY <2>2, <3>1, <3>2, <3>3 DEF b
  <2> HIDE DEF fed
  <2>5. slots'[s].staged_tokens = fed /\ slots'[s].phase = "decode"
    BY <1>2, <2>1 DEF append_tokens, fed, decoding, SlotVarsTyped, SeqSlot
  <2>6. /\ pc = "step" /\ pc' = "step" /\ s \in todo /\ todo' = todo
        /\ UNCHANGED <<requestVars, width>>
        /\ resident(s)' /\ decoding(s)'
    BY <1>3, <2>5 DEF StepDecode, loopVars, requestVars, resident, decoding
  <2> QED BY <2>3, <2>4, <2>5, <2>6, TurnKeeps
<1>4. CASE CommitDecode(s)
  <2>1. OwnEffects(s) /\ slots'[s].phase = "decode" /\ slots'[s].staged_tokens = << >>
    BY <1>2, <1>4, CommitEffects DEF CommitDecode
  <2>2. /\ pc = "step" /\ pc' = "step" /\ s \in todo /\ todo' = todo \ {s}
        /\ UNCHANGED <<requestVars, width>>
        /\ resident(s)' /\ decoding(s)'
    BY <1>4, <2>1 DEF CommitDecode, resident, decoding
  <2> QED BY <2>1, <2>2, TurnKeeps
<1>5. CASE CompletePrefill(s)
  <2>1. OwnEffects(s) /\ slots'[s].phase = "decode" /\ slots'[s].staged_tokens = << >>
    BY <1>2, <1>5, CommitEffects DEF CompletePrefill
  <2>2. /\ pc = "step" /\ pc' = "step" /\ s \in todo /\ todo' = todo \ {s}
        /\ UNCHANGED <<requestVars, width>>
        /\ resident(s)' /\ decoding(s)'
    BY <1>5, <2>1 DEF CompletePrefill, resident, decoding
  <2> QED BY <2>1, <2>2, TurnKeeps
<1>6. CASE StepPrefill(s)
  <2> DEFINE n == Least(Chunk, slots[s].prompt_len - slots[s].cur_pos)
  <2>1. append_prefill(s, n) /\ prefilling(s)
    BY <1>6 DEF StepPrefill
  <2>2. n \in Nat
    <3>1. n >= 1 /\ n \in Int
      BY <1>2, <2>1, LoopAssumption DEF append_prefill, Least
    <3> HIDE DEF n
    <3> QED BY <3>1
  <2> HIDE DEF n
  <2>3. OwnEffects(s)
    BY <1>2, <2>1, <2>2, AppendEffects
  <2>4. slots[s].staged_tokens = << >>
    BY <1>2, <2>1, SlotForm DEF prefilling, PhasePrefill
  <2>5. /\ slots'[s].phase = "prefill" /\ slots'[s].staged_tokens = slots[s].staged_tokens
        /\ slots'[s].original_prompt_len = slots[s].original_prompt_len /\ stream' = stream
    BY <1>2, <2>1 DEF append_prefill, prefilling, SlotVarsTyped, SeqSlot
  <2>6. /\ pc = "step" /\ pc' = "step" /\ s \in todo /\ (todo' = todo \/ todo' = todo \ {s})
        /\ UNCHANGED <<requestVars, width>>
    BY <1>6 DEF StepPrefill
  <2>7. /\ resident(s)' /\ ~ decoding(s)' /\ ~ decoding(s) /\ Generated(s)' = Generated(s)
    BY <2>1, <2>5 DEF resident, decoding, prefilling, Generated
  <2> QED BY <2>3, <2>4, <2>5, <2>6, <2>7, TurnKeeps
<1> QED BY <1>1, <1>3, <1>4, <1>5, <1>6

(* The manager and the ages stay as they are. *)
LEMMA IdleKeeps ==
  ASSUME LoopInv, UNCHANGED <<managerVars, admission_order, n_gen_cap>>, LoopTypeOK',
         pc' # "step",
         \A s \in ActiveSlots : decoding(s) => Generated(s) < n_gen_cap[s],
         \A s \in ActiveSlots : slots[s].staged_tokens = << >>
  PROVE  LoopInv'
<1>1. /\ UNCHANGED <<kv, slots, saved, rows, stream, pending>>
  BY DEF managerVars
<1>2. ManagerInv'
  BY <1>1, LoopParts, SameSlots
<1>3. ActiveSlots' = ActiveSlots
  BY <1>1 DEF ActiveSlots, active
<1>4. OrderExact' /\ SequencesHaveSlots'
  BY <1>1, <1>3, LoopParts DEF OrderExact, SequencesHaveSlots, live
<1>5. WithinCaps'
  BY <1>1, <1>3, LoopParts DEF WithinCaps, Generated, decoding
<1>6. RoomReserved'
  BY DEF RoomReserved
<1> QED BY <1>2, <1>4, <1>5, <1>6 DEF LoopInv

LEMMA GreatestAbove == ASSUME NEW a \in Nat, NEW b \in Nat PROVE b <= Greatest(a, b)
<1> QED BY DEF Greatest

LEMMA ReserveKeeps ==
  ASSUME LoopInv, Reserve, ManagerInv'
  PROVE  LoopInv'
<1> DEFINE w == ReserveWidth
           extent == [s \in Slots |-> slots[s].cur_pos + Growth(w)[s]]
           D == {s \in Slots : decoding(s)}
<1>1. /\ pc = "reserve" /\ reserve_decode(Growth(w)) /\ width' = w /\ pc' = "step"
      /\ todo' = Decoders \cup Selected
      /\ UNCHANGED <<slots, saved, rows, stream, pending>>
      /\ UNCHANGED <<admission_order, n_gen_cap, slot_has_images>>
  BY DEF Reserve, reserve_decode, requestVars
<1>2. w \in 1 .. MaxBurst /\ w \in Nat
  BY WidthType, ManagerDimensions
<1>3. Selected \in SUBSET Prefilling
  <2>1. Prefilling \in SUBSET ActiveSlots
    BY ParkedActive
  <2>2. Prefilling # {} => Oldest(Prefilling) \in Prefilling
    BY <2>1, LoopParts, OldestExists
  <2> QED BY <2>2 DEF Selected
<1>4. LoopTypeOK'
  <2>1. width' \in 0 .. MaxBurst
    BY <1>1, <1>2
  <2>2. todo' \in SUBSET Slots
    BY <1>1, <1>3 DEF Decoders, Prefilling
  <2> QED BY <1>1, <2>1, <2>2, LoopParts DEF LoopTypeOK
<1>5. ActiveSlots' = ActiveSlots /\ \A t \in Slots : Growth(w)[t] = IF decoding(t) THEN w ELSE 0
  BY <1>1 DEF ActiveSlots, active, Growth
<1>6. OrderExact'
  BY <1>1, <1>5, LoopParts DEF OrderExact
<1> HIDE DEF w
<1>7. \A s \in D : extent[s] \in Nat /\ extent[s] = slots[s].cur_pos + w
  <2> SUFFICES ASSUME NEW s \in D PROVE extent[s] \in Nat /\ extent[s] = slots[s].cur_pos + w
    OBVIOUS
  <2>1. slots[s].cur_pos \in Nat
    BY LoopParts, SlotFacts, SlotTyped
  <2> QED BY <1>2, <1>5, <2>1
<1>8. /\ cohort_shortfall(D, extent) <= kv.free /\ kv' = reserve_cohort(D, extent)
      /\ \A s \in D : slots[s].staged_tokens = << >> /\ Growth(w)[s] <= MaxCtx - slots[s].cur_pos
  BY <1>1 DEF reserve_decode
<1> HIDE DEF extent
<1>10. /\ \A p \in Slots : kv'.seqs[p].request_id = kv.seqs[p].request_id
       /\ \A s \in D : kv'.seqs[slots[s].handle].owned
                        = Greatest(kv.seqs[slots[s].handle].owned, blocks_for_tokens(extent[s]))
  <2> HIDE DEF D
  <2>1. D \in SUBSET Slots /\ (\A s \in D : decoding(s)) /\ (\A s \in D : extent[s] \in Nat)
    BY <1>7 DEF D
  <2>2. cohort_shortfall(D, extent) <= kv.free /\ kv' = reserve_cohort(D, extent)
    BY <1>8
  <2> QED BY <2>1, <2>2, LoopParts, CohortGrows
<1>11. SequencesHaveSlots'
  BY <1>1, <1>5, <1>10, LoopParts DEF SequencesHaveSlots, live
<1>12. WithinCaps'
  <2>1. \A s \in Slots : decoding(s)' <=> decoding(s)
    BY <1>1 DEF decoding
  <2>2. \A s \in ActiveSlots : Generated(s)' = Generated(s) /\ slots[s].staged_tokens = << >>
    BY <1>1, LoopParts DEF Generated, WithinCaps
  <2> QED BY <1>1, <1>5, <2>1, <2>2, LoopParts DEF WithinCaps
<1>13. ASSUME NEW s \in todo'
       PROVE  /\ resident(s)'
              /\ decoding(s)' =>
                   /\ slots'[s].cur_pos + width' <= MaxCtx
                   /\ blocks_for_tokens(slots'[s].cur_pos + width')
                        <= owned_block_count(kv, slots[s].handle)'
  <2>1. resident(s)' /\ s \in Slots
    BY <1>1, <1>3 DEF resident, Decoders, Prefilling, decoding, prefilling
  <2>2. CASE decoding(s)'
    <3>1. s \in D
      BY <1>1, <2>1, <2>2 DEF decoding
    <3>2. /\ slots[s].cur_pos \in Nat /\ slots[s].cur_pos + w \in Nat
          /\ kv.seqs[slots[s].handle].owned \in Nat
      BY <1>2, <2>1, LoopParts, SlotFacts, SlotTyped DEF KvSequence
    <3>3. slots[s].cur_pos + w <= MaxCtx
      BY <1>2, <1>5, <1>8, <2>1, <3>1, <3>2, ManagerDimensions
    <3>4. blocks_for_tokens(slots[s].cur_pos + w) <= kv'.seqs[slots[s].handle].owned
      <4>1. blocks_for_tokens(slots[s].cur_pos + w) \in Nat
        BY <3>2, BlocksType
      <4>2. kv'.seqs[slots[s].handle].owned
              = Greatest(kv.seqs[slots[s].handle].owned, blocks_for_tokens(slots[s].cur_pos + w))
        BY <1>7, <1>10, <3>1
      <4> QED BY <3>2, <4>1, <4>2, GreatestAbove
    <3> QED BY <1>1, <2>1, <3>3, <3>4 DEF owned_block_count
  <2> QED BY <2>1, <2>2
<1>14. RoomReserved'
  BY <1>13 DEF RoomReserved
<1> QED BY <1>4, <1>6, <1>11, <1>12, <1>14 DEF LoopInv

LEMMA AdmitKeeps ==
  ASSUME LoopInv, NEW s \in Slots, NEW n \in Prompts, NEW cap \in Caps,
         NEW images \in BOOLEAN, AdmitJob(s, n, cap, images), ManagerInv'
  PROVE  LoopInv'
<1> DEFINE K == reserve_cohort(Protected, Headroom)
<1>1. /\ admit(s, n) /\ pc' = "admit" /\ pc = "admit" /\ width' = width /\ todo' = todo
      /\ ~ active(s) /\ n \in 1 .. MaxCtx /\ n \in Nat /\ cap \in Nat /\ cap >= 1
  BY LoopAssumption DEF AdmitJob, admit
<1>2. /\ KvTyped(kv) /\ SlotVarsTyped /\ HandlesExclusive /\ LoopTypeOK
      /\ \A t \in Slots : slots[t].handle \in Slots
  BY LoopParts, SlotFacts DEF ManagerInv
<1>3. \A p \in Slots : live(K, p) <=> live(kv, p)
  <2>1. Protected \in SUBSET Slots /\ \A t \in Protected : decoding(t)
    BY DEF Protected, decoding
  <2>2. \A t \in Protected : Headroom[t] \in Nat
    <3> SUFFICES ASSUME NEW t \in Slots PROVE Headroom[t] \in Nat
      BY <2>1
    <3>1. slots[t].cur_pos \in 0 .. MaxCtx
      BY LoopParts, SlotFacts DEF SeqSlot
    <3> QED BY <3>1, ReservationCovers DEF Headroom
  <2>3. cohort_shortfall(Protected, Headroom) <= kv.free
    BY <1>1 DEF admit
  <2>4. \A p \in Slots : K.seqs[p].request_id = kv.seqs[p].request_id
    BY <2>1, <2>2, <2>3, LoopParts, CohortGrows
  <2> QED BY <2>4 DEF live
<1>4. s \in Slots \ ActiveSlots
  BY <1>1, ActiveIn
<1>5. CASE kv' = K /\ UNCHANGED <<slots, saved, rows, stream, pending>>
  <2>1. slots'[s].phase # "prefill"
    BY <1>1, <1>5 DEF active
  <2>2. UNCHANGED <<admission_order, n_gen_cap, slot_has_images>>
    BY <2>1 DEF AdmitJob, requestVars
  <2>3. ActiveSlots' = ActiveSlots
    BY <1>5 DEF ActiveSlots, active
  <2>4. OrderExact'
    BY <2>2, <2>3, LoopParts DEF OrderExact
  <2>5. SequencesHaveSlots'
    BY <1>1, LoopParts, AdmitHaveSlots
  <2>6. WithinCaps' /\ RoomReserved' /\ LoopTypeOK'
    BY <1>1, <1>2, <1>5, <2>2, <2>3, LoopParts
    DEF WithinCaps, RoomReserved, LoopTypeOK, Generated, decoding
  <2> QED BY <2>4, <2>5, <2>6 DEF LoopInv
<1> DEFINE c == reservation_capacity(n)
           q(p) == [phase |-> "prefill", handle |-> p,
                    original_prompt_len |-> n, prompt_len |-> n, cur_pos |-> 0,
                    sample_history |-> Span(1, n), staged_tokens |-> <<>>]
<1>6. ASSUME NEW id \in RequestIds, NEW p \in Slots, vacant(K, p),
             kv' = acquire_reserved(K, p, id, c), slots' = [slots EXCEPT ![s] = q(p)],
             stream' = [stream EXCEPT ![s] = n]
      PROVE  LoopInv'
  <2>1. /\ q(p).phase = "prefill" /\ q(p).handle = p /\ q(p).original_prompt_len = n
        /\ q(p).staged_tokens = << >>
    OBVIOUS
  <2> HIDE DEF q
  <2>2. /\ slots'[s] = q(p) /\ stream'[s] = n
        /\ \A t \in Slots \ {s} : slots'[t] = slots[t] /\ stream'[t] = stream[t]
    BY <1>2, <1>6 DEF SlotVarsTyped
  <2>3. /\ n_gen_cap' = [n_gen_cap EXCEPT ![s] = Least(cap, MaxCtx - n + 1)]
        /\ admission_order' = [admission_order EXCEPT ![s] = Cardinality(ActiveSlots)]
        /\ slot_has_images' = [slot_has_images EXCEPT ![s] = images]
    BY <2>1, <2>2 DEF AdmitJob, ActiveSlots
  <2>4. ActiveSlots' = ActiveSlots \cup {s}
    BY <2>1, <2>2 DEF ActiveSlots, active
  <2>5. OrderExact' /\ admission_order' \in [Slots -> Nat]
    BY <1>2, <1>4, <2>3, <2>4, LoopParts, OrderAfterAdmit
  <2> DEFINE g == Least(cap, MaxCtx - n + 1)
  <2>6. g \in Nat /\ g >= 1 /\ g + n <= MaxCtx + 1
    BY <1>1, ManagerDimensions DEF Least
  <2> HIDE DEF g
  <2>7. n_gen_cap' \in [Slots -> Nat] /\ n_gen_cap'[s] = g
        /\ \A t \in Slots \ {s} : n_gen_cap'[t] = n_gen_cap[t]
    BY <1>2, <2>3, <2>6 DEF LoopTypeOK, g
  <2>8. LoopTypeOK'
    BY <1>1, <1>2, <2>3, <2>5, <2>7 DEF LoopTypeOK
  <2>9. SequencesHaveSlots'
    BY <1>1, LoopParts, AdmitHaveSlots
  <2>10. WithinCaps'
    <3> SUFFICES ASSUME NEW t \in ActiveSlots'
                 PROVE  /\ n_gen_cap'[t] + slots'[t].original_prompt_len <= MaxCtx + 1
                        /\ Generated(t)' < n_gen_cap'[t] /\ slots'[t].staged_tokens = <<>>
      BY DEF WithinCaps
    <3>1. CASE t = s
      <4>1. Generated(s)' = n - n
        BY <2>1, <2>2 DEF Generated
      <4>2. n - n = 0
        BY <1>1
      <4> QED BY <2>1, <2>2, <2>6, <2>7, <3>1, <4>1, <4>2
    <3>2. CASE t # s
      <4>1. t \in ActiveSlots /\ t \in Slots
        BY <2>4, <3>2, ActiveIn
      <4>2. slots'[t] = slots[t] /\ Generated(t)' = Generated(t) /\ n_gen_cap'[t] = n_gen_cap[t]
        BY <2>2, <2>7, <3>2, <4>1 DEF Generated
      <4> QED BY <1>1, <4>1, <4>2, LoopParts DEF WithinCaps
    <3> QED BY <3>1, <3>2
  <2>11. RoomReserved'
    BY <1>1 DEF RoomReserved
  <2> QED BY <2>5, <2>8, <2>9, <2>10, <2>11 DEF LoopInv
<1> QED BY <1>1, <1>5, <1>6 DEF admit

LEMMA LoopInitInv == LoopInit => LoopInv
<1> SUFFICES ASSUME LoopInit PROVE LoopInv
  OBVIOUS
<1>1. ManagerInv
  BY InitInv DEF LoopInit
<1>2. ActiveSlots = {}
  BY FreePhase DEF LoopInit, Init, ActiveSlots, active
<1>3. LoopTypeOK
  BY ManagerDimensions DEF LoopInit, LoopTypeOK
<1>4. OrderExact /\ WithinCaps
  BY <1>2 DEF OrderExact, WithinCaps
<1>5. SequencesHaveSlots
  BY DEF LoopInit, Init, Fresh, SequencesHaveSlots, live, NoSequence
<1>6. RoomReserved
  BY DEF LoopInit, RoomReserved
<1> QED BY <1>1, <1>3, <1>4, <1>5, <1>6 DEF LoopInv

LEMMA LoopNextInv == LoopInv /\ [LoopNext]_vars => LoopInv'
<1> SUFFICES ASSUME LoopInv, [LoopNext]_vars PROVE LoopInv'
  OBVIOUS
<1>1. ManagerInv'
  BY StepsTheManager, LoopParts, NextInv
<1>2. LoopTypeOK /\ WithinCaps
  BY LoopParts
<1>3. CASE BeginPass \/ NoResume
  <2>1. /\ UNCHANGED <<managerVars, admission_order, n_gen_cap, slot_has_images, width, todo>>
        /\ pc # "step" /\ pc' \in {"resume", "reserve"}
    BY <1>3 DEF BeginPass, NoResume, requestVars
  <2>2. LoopTypeOK'
    BY <1>2, <2>1 DEF LoopTypeOK
  <2>3. \A s \in ActiveSlots : /\ decoding(s) => Generated(s) < n_gen_cap[s]
                               /\ slots[s].staged_tokens = << >>
    BY <1>2, <2>1 DEF WithinCaps
  <2> QED BY <2>1, <2>2, <2>3, IdleKeeps
<1>4. CASE EndPass
  <2>1. /\ UNCHANGED <<managerVars, admission_order, n_gen_cap, slot_has_images, todo>>
        /\ pc' = "admit" /\ width' = 0 /\ todo = {}
        /\ \A s \in Decoders : Generated(s) < n_gen_cap[s]
    BY <1>4 DEF EndPass, requestVars
  <2>2. LoopTypeOK'
    BY <1>2, <2>1, ManagerDimensions DEF LoopTypeOK
  <2>3. \A s \in ActiveSlots : /\ decoding(s) => Generated(s) < n_gen_cap[s]
                               /\ slots[s].staged_tokens = << >>
    BY <1>2, <2>1, ActiveIn DEF WithinCaps, Decoders
  <2> QED BY <2>1, <2>2, <2>3, IdleKeeps
<1>5. CASE Resume
  <2> DEFINE s == Oldest(Parked)
  <2>1. s \in Slots
    BY <1>5, ResumedExists DEF Resume, Parked
  <2>2. pc = "resume" /\ pc' = "reserve" /\ UNCHANGED <<n_gen_cap, width, todo>>
    BY <1>5 DEF Resume
  <2>3. \/ (restore(s) \/ resume_recompute(s) \/ evict_kv(s))
           /\ UNCHANGED <<admission_order, slot_has_images>>
        \/ RetireSlot(s)
        \/ UNCHANGED <<managerVars, admission_order, slot_has_images>>
    BY <1>5 DEF Resume, EvictElseFail
  <2> HIDE DEF s
  <2>4. CASE (restore(s) \/ resume_recompute(s) \/ evict_kv(s))
             /\ UNCHANGED <<admission_order, slot_has_images>>
    BY <1>1, <2>1, <2>2, <2>4, ParkKeeps DEF requestVars
  <2>5. CASE RetireSlot(s)
    BY <1>1, <2>1, <2>2, <2>5, RetireKeeps
  <2>6. CASE UNCHANGED <<managerVars, admission_order, slot_has_images>>
    <3>1. LoopTypeOK'
      BY <1>2, <2>2, <2>6 DEF LoopTypeOK
    <3>2. \A t \in ActiveSlots : /\ decoding(t) => Generated(t) < n_gen_cap[t]
                                 /\ slots[t].staged_tokens = << >>
      BY <1>2, <2>2 DEF WithinCaps
    <3> QED BY <2>2, <2>6, <3>1, <3>2, IdleKeeps
  <2> QED BY <2>3, <2>4, <2>5, <2>6
<1>6. CASE Suspend
  <2>1. PICK s \in Slots : suspend(s)
    BY <1>6, SuspendedExists
  <2>2. /\ pc = "reserve" /\ pc' = "reserve"
        /\ UNCHANGED <<requestVars, width, todo>>
    BY <1>6 DEF Suspend, loopVars
  <2> QED BY <1>1, <2>1, <2>2, ParkKeeps
<1>7. CASE EvictOrFail
  <2> DEFINE s == Victim
  <2>1. s \in Slots
    BY <1>7, VictimExists DEF EvictOrFail, Decoders
  <2>2. /\ \/ evict_kv(s) /\ UNCHANGED <<admission_order, slot_has_images>>
           \/ RetireSlot(s)
        /\ pc = "reserve" /\ pc' = "reserve" /\ UNCHANGED <<n_gen_cap, width, todo>>
    BY <1>7 DEF EvictOrFail, EvictElseFail
  <2> HIDE DEF s
  <2> QED BY <1>1, <2>1, <2>2, ParkKeeps, RetireKeeps DEF requestVars
<1>8. CASE Reserve
  BY <1>1, <1>8, ReserveKeeps
<1>9. CASE StepAll
  BY <1>1, <1>9, StepKeeps
<1>10. ASSUME NEW s \in Slots, Cancel(s) \/ Reap(s) PROVE LoopInv'
  <2>1. /\ RetireSlot(s) /\ pc' = pc /\ UNCHANGED <<n_gen_cap, width, todo>>
        /\ pc = "step" => todo = {}
    BY <1>10 DEF Cancel, Reap
  <2> QED BY <1>1, <2>1, RetireKeeps
<1>11. ASSUME NEW s \in Slots, NEW n \in Prompts, NEW cap \in Caps, NEW images \in BOOLEAN,
              AdmitJob(s, n, cap, images)
       PROVE  LoopInv'
  BY <1>1, <1>11, AdmitKeeps
<1>12. CASE UNCHANGED vars
  <2>1. OrderExact' /\ SequencesHaveSlots' /\ WithinCaps' /\ RoomReserved' /\ LoopTypeOK'
    BY <1>12, LoopParts DEF vars, loopVars, requestVars, managerVars, OrderExact, SequencesHaveSlots, WithinCaps,
       RoomReserved, LoopTypeOK, ActiveSlots, active, live, decoding, resident, prefilling,
       Generated, owned_block_count
  <2> QED BY <1>1, <2>1 DEF LoopInv
<1> QED BY <1>3, <1>4, <1>5, <1>6, <1>7, <1>8, <1>9, <1>10, <1>11, <1>12 DEF LoopNext, Pass

(* The scheduler's invariant: the manager's, the order of admission, the    *)
(* caps, and what a pass has reserved for its step.                         *)
THEOREM LoopInvariant == LoopSpec => []LoopInv
<1> QED BY LoopInitInv, LoopNextInv, PTL DEF LoopSpec

-----------------------------------------------------------------------------
(* A step has room for what it appends.                                    *)

LEMMA RoomToAppend ==
  ASSUME KvTyped(kv), NEW p \in Slots, live(kv, p), NEW n \in Nat,
         kv.seqs[p].kv_seq_len + n <= MaxCtx,
         blocks_for_tokens(kv.seqs[p].kv_seq_len + n) <= kv.seqs[p].owned
  PROVE  append_ok(kv, p, n)
<1> DEFINE l == kv.seqs[p].kv_seq_len
<1>1. l \in Nat /\ kv.free \in Nat
  BY SeqFacts
<1>2. l + n \in Nat /\ l + n <= MaxU32
  BY <1>1, ManagerDimensions
<1>3. shortfall(kv, p, l + n) = 0
  BY <1>2, ShortfallProps
<1> QED BY <1>1, <1>2, <1>3 DEF append_ok

LEMMA StepRoom == LoopInv => StepHasRoom
<1> SUFFICES ASSUME LoopInv, pc = "step", NEW s \in todo
             PROVE  append_ok(kv, slots[s].handle,
                      IF prefilling(s) THEN Least(Chunk, slots[s].prompt_len - slots[s].cur_pos)
                      ELSE IF slots[s].staged_tokens = <<>> THEN width ELSE 0)
  BY DEF StepHasRoom
<1> DEFINE q == slots[s]
           k == kv.seqs[q.handle]
<1>1. /\ s \in Slots /\ resident(s) /\ active(s) /\ width \in Nat
      /\ decoding(s) /\ q.staged_tokens = <<>> =>
           /\ q.cur_pos + width <= MaxCtx
           /\ blocks_for_tokens(q.cur_pos + width) <= k.owned
  BY LoopParts, ManagerDimensions
  DEF LoopTypeOK, RoomReserved, owned_block_count, resident, prefilling, decoding, active
<1>2. /\ q \in SeqSlot /\ q.handle \in Slots /\ live(kv, q.handle) /\ KvTyped(kv)
      /\ q.prompt_len \in Nat /\ q.cur_pos \in Nat /\ q.prompt_len <= MaxCtx /\ MaxCtx \in Nat
      /\ k.owned \in Nat /\ Len(q.staged_tokens) \in Nat
  BY <1>1, LoopParts, SlotFacts, SlotTyped, ManagerDimensions DEF KvSequence
<1>3. CASE prefilling(s)
  <2> DEFINE n == Least(Chunk, q.prompt_len - q.cur_pos)
  <2>1. /\ q.prompt_len = stream[s] /\ q.cur_pos <= stream[s] /\ k.kv_seq_len = q.cur_pos
        /\ blocks_for_tokens(stream[s]) <= k.owned
    BY <1>1, <1>3, LoopParts, SlotForm DEF prefilling, PhasePrefill
  <2>2. n \in Nat /\ q.cur_pos + n <= q.prompt_len
    BY <1>2, <2>1, LoopAssumption DEF Least
  <2> HIDE DEF n
  <2>3. blocks_for_tokens(q.cur_pos + n) <= k.owned
    <3>1. q.cur_pos + n \in Nat
      BY <1>2, <2>2
    <3>2. blocks_for_tokens(q.cur_pos + n) <= blocks_for_tokens(q.prompt_len)
      BY <1>2, <2>2, <3>1, BlocksMonotone
    <3>3. blocks_for_tokens(q.cur_pos + n) \in Nat /\ blocks_for_tokens(q.prompt_len) \in Nat
      BY <1>2, <3>1, BlocksType
    <3>4. blocks_for_tokens(q.prompt_len) <= k.owned
      BY <2>1
    <3> HIDE DEF k, q
    <3> QED BY <1>2, <3>2, <3>3, <3>4
  <2>4. q.cur_pos + n <= MaxCtx
    BY <1>2, <2>2
  <2>5. append_ok(kv, q.handle, n)
    BY <1>2, <2>1, <2>2, <2>3, <2>4, RoomToAppend
  <2> QED BY <1>3, <2>5 DEF n
<1>4. CASE ~ prefilling(s)
  <2>1. /\ decoding(s) /\ k.kv_seq_len = q.cur_pos + Len(q.staged_tokens)
        /\ k.kv_seq_len <= MaxCtx /\ blocks_for_tokens(k.kv_seq_len) <= k.owned
    BY <1>1, <1>4, LoopParts, SlotForm DEF resident, decoding, PhaseDecode
  <2>2. CASE q.staged_tokens = <<>>
    <3>1. k.kv_seq_len = q.cur_pos
      <4>1. Len(q.staged_tokens) = 0
        BY <1>2, <2>2, NothingStaged
      <4> QED BY <1>2, <2>1, <4>1
    <3>2. append_ok(kv, q.handle, width)
      BY <1>1, <1>2, <2>1, <2>2, <3>1, RoomToAppend
    <3> QED BY <1>4, <2>2, <3>2
  <2>3. CASE q.staged_tokens # <<>>
    <3>1. k.kv_seq_len \in Nat
      BY <1>2, SeqFacts
    <3>2. k.kv_seq_len + 0 = k.kv_seq_len
      BY <3>1
    <3>3. append_ok(kv, q.handle, 0)
      BY <1>2, <2>1, <3>2, RoomToAppend
    <3> QED BY <1>4, <2>3, <3>3
  <2> QED BY <2>2, <2>3
<1> QED BY <1>3, <1>4

(* Once the reserve loop is through, neither a decoder nor a prompt chunk   *)
(* finds the pool exhausted in engine.step.                                 *)
THEOREM StepsHaveRoom == LoopSpec => []StepHasRoom
<1> QED BY LoopInvariant, StepRoom, PTL

(* A restore the scheduler was told is feasible leaves every decoder its    *)
(* next block, under the loop's own choice of requests.                     *)
THEOREM LoopRestoreNeverThrashes == LoopSpec => []FeasibleRestoreDoesNotThrash
<1>1. LoopInv => FeasibleRestoreDoesNotThrash
  BY LoopParts, FeasibleRestore
<1> QED BY <1>1, LoopInvariant, PTL

-----------------------------------------------------------------------------
(* Nobody fails for the others' sake.                                      *)

(* Outside a step every request has its stream within the context. *)
LEMMA StreamInContext ==
  ASSUME LoopInv, NEW s \in Slots, active(s), pc # "step"
  PROVE  /\ slots[s].staged_tokens = << >> /\ stream[s] \in Nat /\ stream[s] <= MaxCtx
<1>1. s \in ActiveSlots
  BY ActiveIn
<1>2. /\ n_gen_cap[s] + slots[s].original_prompt_len <= MaxCtx + 1
      /\ stream[s] - slots[s].original_prompt_len < n_gen_cap[s]
      /\ slots[s].staged_tokens = << >>
  BY <1>1, LoopParts DEF WithinCaps, Generated
<1>3. stream[s] \in Nat /\ slots[s].original_prompt_len \in Nat /\ n_gen_cap[s] \in Nat
  BY LoopParts, SlotFacts DEF SeqSlot, LoopTypeOK
<1>4. MaxCtx \in Nat
  BY ManagerDimensions
<1> QED BY <1>2, <1>3, <1>4

(* A history that cannot be replayed is one the pool is too small for. *)
LEMMA RefusedReplay ==
  ASSUME LoopInv, NEW s \in Slots, active(s), ~ recomputing(s), pc # "step", ~ CanReplay(s)
  PROVE  CannotFitAlone(s)
<1>1. stream[s] \in Nat /\ stream[s] <= MaxCtx /\ stream[s] >= 1
      /\ replayed_history(s) = Span(1, stream[s])
  BY StreamInContext, LoopParts, ReplayIsStream
<1>2. Len(replayed_history(s)) = stream[s]
  BY <1>1, SpanFromOne
<1>3. stream[s] \in 1 .. MaxCtx
  BY <1>1, ManagerDimensions
<1>4. ~ (blocks_for_tokens(stream[s]) <= NumBlocks)
  BY <1>2, <1>3 DEF CanReplay, capacity_fits_pool
<1>5. blocks_for_tokens(stream[s]) \in Nat /\ NumBlocks \in Nat
  BY <1>1, BlocksType, ManagerDimensions
<1> QED BY <1>2, <1>4, <1>5 DEF CannotFitAlone

(* Without a resident the whole pool is free. *)
LEMMA ParkedPoolIsFree ==
  ASSUME LoopInv, Residents = {}
  PROVE  kv.free = NumBlocks
<1>1. KvTyped(kv) /\ Balance(kv) = NumBlocks /\ PrefillCannotStarve
      /\ \A p \in Slots : ~ live(kv, p) => kv.seqs[p].owned = 0
  BY LoopParts, PromptsOwnTheirBlocks DEF Carries
<1>2. ASSUME NEW p \in Slots PROVE kv.seqs[p].owned = 0
  <2>1. CASE ~ live(kv, p)
    BY <1>1, <2>1
  <2>2. CASE live(kv, p)
    <3>1. PICK s \in ActiveSlots : slots[s].handle = p
      BY <2>2, LoopParts DEF SequencesHaveSlots
    <3>2. s \in Slots /\ active(s) /\ ~ resident(s)
      BY <3>1, ActiveIn DEF Residents
    <3>3. slots[s].phase \in {"free", "prefill", "decode", "suspended", "recompute"}
      BY <3>2, LoopParts, SlotFacts, SlotTyped
    <3>4. parked(s)
      BY <3>2, <3>3 DEF parked, suspended, recomputing, active, resident, prefilling, decoding
    <3> QED BY <1>1, <3>1, <3>2, <3>4 DEF PrefillCannotStarve, owned_block_count
  <2> QED BY <2>1, <2>2
<1>3. \A p \in Slots \ {} : Owned(kv)[p] = 0
  BY <1>2 DEF Owned
<1>4. Total(Owned(kv), Slots) = Total(Owned(kv), {})
  BY <1>3, TotalSupport
<1>5. Total(Owned(kv), {}) = 0
  <2>1. Units(Owned(kv), {}) = {}
    BY DEF Units
  <2> QED BY <2>1, FS_EmptySet DEF Total
<1>6. kv.free \in Nat
  BY <1>1 DEF KvTyped
<1> QED BY <1>1, <1>4, <1>5, <1>6 DEF Balance

(* What a parked request asks of the pool is its replayed history, except   *)
(* for a margin it takes only where the pool has it. *)
LEMMA ResumeAsksForTheStream ==
  ASSUME LoopInv, NEW s \in Slots, parked(s), pc # "step"
  PROVE  /\ resume_token_capacity(s) \in Nat /\ stream[s] \in Nat
         /\ \/ resume_token_capacity(s) = stream[s]
            \/ blocks_for_tokens(resume_token_capacity(s)) <= NumBlocks
         /\ Len(replayed_history(s)) \in Nat /\ stream[s] <= Len(replayed_history(s))
<1> DEFINE q == slots[s]
           st == stream[s]
           m == resume_token_capacity(s)
<1>1. st \in Nat /\ st <= MaxCtx /\ MaxCtx \in Nat /\ q.cur_pos \in Nat /\ q.prompt_len \in Nat
      /\ active(s) /\ q.staged_tokens = << >> /\ ManagerInv
  BY StreamInContext, LoopParts, SlotFacts, SlotTyped, ManagerDimensions
  DEF parked, suspended, recomputing, active
<1>2. CASE suspended(s)
  <2>1. \/ st = q.prompt_len /\ q.cur_pos < st
        \/ q.cur_pos = st - 1 /\ q.prompt_len <= q.cur_pos
    BY <1>1, <1>2, SlotForm DEF suspended, PhaseSuspended
  <2>2. m = Greatest(q.prompt_len, Least(MaxCtx, q.cur_pos + 1))
    BY <1>2 DEF resume_token_capacity, suspended, recomputing
  <2>3. m = st
    <3> HIDE DEF q, m, st
    <3> QED BY <1>1, <2>1, <2>2 DEF Greatest, Least
  <2>4. Len(replayed_history(s)) = st
    <3>1. ~ recomputing(s)
      BY <1>2 DEF suspended, recomputing
    <3>2. replayed_history(s) = Span(1, st)
      BY <1>1, <3>1, ReplayIsStream
    <3> QED BY <1>1, <3>2, SpanFromOne
  <2> QED BY <1>1, <2>3, <2>4
<1>3. CASE recomputing(s)
  <2>1. q.prompt_len = st /\ q.sample_history = Span(1, st) /\ q.sample_history \in Seq(Nat)
        /\ pending[s] \in Nat
    <3>1. q.prompt_len = st /\ q.sample_history = Span(1, st)
      BY <1>1, <1>3, SlotForm DEF recomputing, PhaseRecompute
    <3>2. q \in SeqSlot /\ pending[s] \in Nat
      BY <1>1, SlotFacts
    <3> QED BY <3>1, <3>2, SlotTyped
  <2>2. Len(q.sample_history) = st
    BY <1>1, <2>1, SpanFromOne
  <2>3. Len(replayed_history(s)) = st \/ Len(replayed_history(s)) = st + 1
    BY <2>1, <2>2 DEF replayed_history
  <2>4. m = reservation_capacity(st)
    BY <1>3, <2>1 DEF resume_token_capacity
  <2>5. m \in Nat
    BY <1>1, <2>4, ReservationCovers
  <2>6. m = st \/ blocks_for_tokens(m) <= NumBlocks
    BY <2>4 DEF reservation_capacity, capacity_fits_pool
  <2> QED BY <1>1, <2>3, <2>5, <2>6
<1> QED BY <1>2, <1>3 DEF parked

LEMMA RefusedResume ==
  ASSUME LoopInv, NEW s \in Slots, parked(s), pc # "step", Residents = {}, ~ RestoreFits(s)
  PROVE  CannotFitAlone(s)
<1> DEFINE m == resume_token_capacity(s)
           p == slots[s].handle
           h == Len(replayed_history(s))
<1>1. /\ m \in Nat /\ stream[s] \in Nat /\ h \in Nat /\ stream[s] <= h
      /\ m = stream[s] \/ blocks_for_tokens(m) <= NumBlocks
  BY ResumeAsksForTheStream
<1>2. p \in Slots /\ KvTyped(kv) /\ live(kv, p) /\ kv.seqs[p].owned = 0
  <2>1. active(s) /\ PrefillCannotStarve
    BY LoopParts, PromptsOwnTheirBlocks DEF parked, suspended, recomputing, active
  <2> QED BY <2>1, LoopParts, SlotFacts DEF PrefillCannotStarve, owned_block_count
<1>3. ~ (shortfall(kv, p, m) <= NumBlocks)
  BY <1>2, ParkedPoolIsFree DEF RestoreFits, reserve_capacity_ok
<1>4. /\ blocks_for_tokens(m) \in Nat /\ blocks_for_tokens(h) \in Nat /\ NumBlocks \in Nat
      /\ blocks_for_tokens(stream[s]) \in Nat
      /\ blocks_for_tokens(stream[s]) <= blocks_for_tokens(h)
  BY <1>1, BlocksType, BlocksMonotone, ManagerDimensions
<1>5. shortfall(kv, p, m) = blocks_for_tokens(m)
  <2>1. shortfall(kv, p, m) = IF blocks_for_tokens(m) > 0 THEN blocks_for_tokens(m) - 0 ELSE 0
    BY <1>2 DEF shortfall, owned_block_count
  <2> HIDE DEF m
  <2> QED BY <1>4, <2>1
<1>6. blocks_for_tokens(h) > NumBlocks
  <2>1. ~ (blocks_for_tokens(m) <= NumBlocks) /\ m = stream[s]
    BY <1>1, <1>3, <1>5
  <2> HIDE DEF m, h
  <2> QED BY <1>4, <2>1
<1> QED BY <1>6 DEF CannotFitAlone

(* A call that parks or resumes a slot ends no request. *)
LEMMA ParkingEndsNothing ==
  ASSUME LoopInv, NEW v \in Slots,
         suspend(v) \/ restore(v) \/ evict_kv(v) \/ resume_recompute(v),
         NEW s \in Slots, active(s)
  PROVE  slots'[s].phase # "free"
<1>1. OwnEffects(v)
  BY LoopParts, ParkEffects
<1> QED BY <1>1 DEF OwnEffects, active

LEMMA RetiringEndsOne ==
  ASSUME LoopInv, NEW v \in Slots, RetireSlot(v), NEW s \in Slots, active(s),
         slots'[s].phase = "free"
  PROVE  s = v
<1>1. slots' = [slots EXCEPT ![v] = FreeSlot] /\ slots \in [Slots -> SeqSlot]
  BY LoopParts DEF RetireSlot, retire, SlotVarsTyped
<1> QED BY <1>1 DEF active

LEMMA FailureJustified ==
  ASSUME LoopInv, [LoopNext]_vars, pc \in {"resume", "reserve"},
         NEW s \in Slots, active(s), slots'[s].phase = "free"
  PROVE  \/ CannotFitAlone(s) \/ OnlyItsCheckpointHeld(s)
         \/ ~ Recovery /\ pc = "reserve"
<1>1. slots' # slots
  BY DEF active
<1>2. CASE Resume
  <2> DEFINE v == Oldest(Parked)
  <2>1. v \in Slots /\ parked(v)
    BY <1>2, ResumedExists DEF Resume, Parked
  <2>2. \/ restore(v) \/ resume_recompute(v) \/ evict_kv(v)
        \/ RetireSlot(v) /\ suspended(v) /\ ~ CanEvict(v)
        \/ RetireSlot(v) /\ Residents = {} /\ ~ RestoreFits(v)
    BY <1>1, <1>2 DEF Resume, EvictElseFail, managerVars
  <2> HIDE DEF v
  <2>3. /\ RetireSlot(v) /\ s = v
        /\ (suspended(v) /\ ~ CanEvict(v)) \/ (Residents = {} /\ ~ RestoreFits(v))
    BY <2>1, <2>2, ParkingEndsNothing, RetiringEndsOne
  <2>4. CASE suspended(v) /\ ~ CanEvict(v)
    <3>1. ~ recomputing(s) /\ suspended(s) /\ pc = "resume"
      BY <1>2, <2>3, <2>4 DEF suspended, recomputing, Resume
    <3>2. ~ CanReplay(s) => CannotFitAlone(s)
      BY <3>1, RefusedReplay
    <3> QED BY <2>3, <2>4, <3>1, <3>2 DEF CanEvict, kv_recomputable, OnlyItsCheckpointHeld
  <2>5. CASE Residents = {} /\ ~ RestoreFits(v)
    BY <2>1, <2>3, <2>5, RefusedResume
  <2> QED BY <2>3, <2>4, <2>5
<1>3. CASE Suspend
  BY <1>3, SuspendedExists, ParkingEndsNothing
<1>4. CASE EvictOrFail
  <2> DEFINE v == Victim
  <2>1. /\ v \in Slots /\ decoding(v)
        /\ kv_recomputable(v) \/ \A t \in Decoders : slot_has_images[t]
    BY <1>4, VictimExists DEF EvictOrFail, Decoders
  <2>2. evict_kv(v) \/ (RetireSlot(v) /\ ~ (Recovery /\ CanEvict(v)))
    BY <1>4 DEF EvictOrFail, EvictElseFail
  <2>3. pc = "reserve" /\ \A t \in Decoders : t \notin Suspendable
    BY <1>4 DEF EvictOrFail, Decoders, Prefilling, decoding, prefilling
  <2> HIDE DEF v
  <2>4. s = v /\ ~ (Recovery /\ CanEvict(s))
    BY <2>1, <2>2, ParkingEndsNothing, RetiringEndsOne
  <2>5. CASE ~ Recovery
    BY <2>3, <2>5
  <2>6. CASE ~ CanReplay(s)
    <3>1. ~ recomputing(s)
      BY <2>1, <2>4 DEF decoding, recomputing
    <3> QED BY <2>3, <2>6, <3>1, RefusedReplay
  <2>7. CASE ~ kv_recomputable(s)
    <3>1. s \in Decoders /\ slot_has_images[s] /\ \A t \in Decoders : slot_has_images[t]
      BY <2>1, <2>4, <2>7 DEF Decoders, kv_recomputable
    <3> QED BY <2>3, <3>1 DEF OnlyItsCheckpointHeld
  <2> QED BY <2>4, <2>5, <2>6, <2>7 DEF CanEvict
<1>5. ~ UNCHANGED vars /\ ~ BeginPass /\ ~ NoResume /\ ~ EndPass
  BY <1>1 DEF vars, loopVars, managerVars, BeginPass, NoResume, EndPass
<1>6. ~ Reserve
  BY <1>1 DEF Reserve, reserve_decode
<1>7. ~ StepAll
  BY DEF StepAll, StepDecode, CommitDecode, StepPrefill, CompletePrefill
<1>8. \A t \in Slots : ~ Cancel(t) /\ ~ Reap(t)
  BY DEF Cancel, Reap
<1>9. \A t \in Slots, n \in Prompts, cap \in Caps, images \in BOOLEAN :
        ~ AdmitJob(t, n, cap, images)
  BY DEF AdmitJob
<1> QED BY <1>2, <1>3, <1>4, <1>5, <1>6, <1>7, <1>8, <1>9 DEF LoopNext, Pass

(* The resume and the reserve loop fail a request only when it could not go *)
(* on in an empty pool, when parking is disabled, or when its rows hold     *)
(* images, no checkpoint of it can be had and no decoder of text is there   *)
(* to be parked instead.                                                    *)
THEOREM FailsOnlyInTheEnd == LoopSpec => FailsOnlyAsLastResort
<1>1. LoopInv /\ [LoopNext]_vars =>
        [\A s \in Slots :
           pc \in {"resume", "reserve"} /\ active(s) /\ ~ active(s)' =>
             \/ CannotFitAlone(s)
             \/ OnlyItsCheckpointHeld(s)
             \/ ~ Recovery /\ pc = "reserve"]_vars
  <2> SUFFICES ASSUME LoopInv, [LoopNext]_vars, NEW s \in Slots,
                      pc \in {"resume", "reserve"}, active(s), ~ active(s)'
               PROVE  \/ CannotFitAlone(s) \/ OnlyItsCheckpointHeld(s)
                      \/ ~ Recovery /\ pc = "reserve"
    OBVIOUS
  <2>1. slots'[s].phase = "free"
    BY DEF active
  <2> QED BY <2>1, FailureJustified
<1> QED BY <1>1, LoopInvariant, PTL DEF LoopSpec, FailsOnlyAsLastResort

=============================================================================
