-------------------------- MODULE PrefixCacheProofs --------------------------
(***************************************************************************)
(* The safety of the prefix cache, for every set of queries, any number of *)
(* slots and any budget.                                                   *)
(***************************************************************************)
EXTENDS PrefixCache, ListProofs

(* Each slot belongs to one entry of es. *)
Apart(es) == \A i, j \in DOMAIN es : es[i].slot = es[j].slot => i = j

(* e is old entry o, but for the mark of an edit backup. *)
SameCheckpoint(e, o) == e.slot = o.slot /\ e.ids = o.ids

-----------------------------------------------------------------------------
(* The index.                                                              *)

(* Least finds a position, or there is none. *)
LEMMA LeastProps ==
  ASSUME NEW T \in SUBSET (Nat \ {0})
  PROVE  /\ Least(T) \in T \cup {0}
         /\ Least(T) = 0 => T = {}
<1>1. CASE T = {}
  BY <1>1 DEF Least
<1>2. CASE T # {}
  <2>1. Min(T) \in T
    BY <1>2, MinProps
  <2> QED BY <1>2, <2>1 DEF Least
<1> QED BY <1>1, <1>2

LEMMA Positions ==
  ASSUME NEW es \in Seq(Checkpoint)
  PROVE  /\ DOMAIN es \in SUBSET (Nat \ {0}) /\ DOMAIN es \in SUBSET Int
         /\ Len(es) \in Nat /\ DOMAIN es = 1 .. Len(es)
         /\ \A S \in SUBSET DOMAIN es : IsFiniteSet(S)
<1>1. Len(es) \in Nat /\ DOMAIN es = 1 .. Len(es)
  OBVIOUS
<1>2. IsFiniteSet(1 .. Len(es))
  BY <1>1, FS_Interval
<1>3. \A S \in SUBSET DOMAIN es : IsFiniteSet(S)
  BY <1>1, <1>2, FS_Subset
<1> QED BY <1>1, <1>3

LEMMA EntryType ==
  ASSUME NEW es \in Seq(Checkpoint)
  PROVE  \A i \in DOMAIN es :
           /\ es[i] \in Checkpoint /\ es[i].slot \in Slots
           /\ es[i].ids \in Seq(Nat) /\ es[i].bytes \in Nat
<1> SUFFICES ASSUME NEW i \in DOMAIN es
             PROVE  /\ es[i] \in Checkpoint /\ es[i].slot \in Slots
                    /\ es[i].ids \in Seq(Nat) /\ es[i].bytes \in Nat
  OBVIOUS
<1>1. es[i] \in Checkpoint
  OBVIOUS
<1> QED BY <1>1 DEF Checkpoint

(* The entry of a slot. *)
LEMMA FindSlotProps ==
  ASSUME NEW es \in Seq(Checkpoint), NEW slot
  PROVE  LET i == find_slot_entry(es, slot)
         IN  /\ i = 0 => \A j \in DOMAIN es : es[j].slot # slot
             /\ i # 0 => i \in DOMAIN es /\ es[i].slot = slot
<1> DEFINE T == {j \in DOMAIN es : es[j].slot = slot}
<1>1. T \in SUBSET (Nat \ {0})
  BY Positions
<1>2. find_slot_entry(es, slot) = Least(T)
  BY DEF find_slot_entry
<1>3. Least(T) \in T \cup {0} /\ (Least(T) = 0 => T = {})
  BY <1>1, LeastProps
<1> QED BY <1>2, <1>3

(* The entry of a prefix. *)
LEMMA FindProps ==
  ASSUME NEW es \in Seq(Checkpoint), NEW ids
  PROVE  LET i == find_entry(es, ids)
         IN  /\ i = 0 => \A j \in DOMAIN es : es[j].ids # ids
             /\ i # 0 => i \in DOMAIN es /\ es[i].ids = ids
<1> DEFINE T == {j \in DOMAIN es : es[j].ids = ids}
<1>1. T \in SUBSET (Nat \ {0})
  BY Positions
<1>2. find_entry(es, ids) = Least(T)
  BY DEF find_entry
<1>3. Least(T) \in T \cup {0} /\ (Least(T) = 0 => T = {})
  BY <1>1, LeastProps
<1> QED BY <1>2, <1>3

(* What is left after the positions S are erased: every other entry, once. *)
LEMMA EraseProps ==
  ASSUME NEW es \in Seq(Checkpoint), NEW S
  PROVE  /\ erase(es, S) \in Seq(Checkpoint)
         /\ \A k \in DOMAIN erase(es, S) : \E i \in DOMAIN es \ S : erase(es, S)[k] = es[i]
         /\ \A i \in DOMAIN es \ S : \E k \in DOMAIN erase(es, S) : erase(es, S)[k] = es[i]
         /\ Apart(es) => Apart(erase(es, S))
<1> DEFINE u == erase(es, S)
<1>1. PICK a : /\ \A k \in DOMAIN u : a[k] \in DOMAIN es \ S /\ u[k] = es[a[k]]
               /\ \A k, m \in DOMAIN u : a[k] = a[m] => k = m
               /\ \A i \in DOMAIN es \ S : \E k \in DOMAIN u : a[k] = i
  <2>1. \E a : StoodAt(a, u, es, S)
    BY WithoutProps DEF erase
  <2> HIDE DEF u
  <2> QED BY <2>1, Zenon DEF StoodAt
<1>2. u \in Seq(Checkpoint)
  BY WithoutProps DEF erase
<1> HIDE DEF u
<1>3. ASSUME Apart(es) PROVE Apart(u)
  <2> SUFFICES ASSUME NEW k \in DOMAIN u, NEW m \in DOMAIN u, u[k].slot = u[m].slot PROVE k = m
    BY DEF Apart
  <2>1. a[k] = a[m]
    BY <1>1, <1>3 DEF Apart
  <2> QED BY <1>1, <2>1
<1>4. \A i \in DOMAIN es \ S : \E k \in DOMAIN u : u[k] = es[i]
  BY <1>1
<1>5. \A k \in DOMAIN u : \E i \in DOMAIN es \ S : u[k] = es[i]
  BY <1>1
<1> QED BY <1>2, <1>3, <1>4, <1>5 DEF u

(* A new entry in a slot of its own. *)
LEMMA AppendProps ==
  ASSUME NEW es \in Seq(Checkpoint), NEW e \in Checkpoint
  PROVE  LET u == Append(es, e)
         IN  /\ u \in Seq(Checkpoint) /\ DOMAIN u = DOMAIN es \cup {Len(es) + 1}
             /\ \A i \in DOMAIN es : u[i] = es[i]
             /\ u[Len(es) + 1] = e
             /\ Apart(es) /\ (\A i \in DOMAIN es : es[i].slot # e.slot) => Apart(u)
<1> DEFINE u == Append(es, e)
           n == Len(es)
<1>1. /\ u \in Seq(Checkpoint) /\ Len(u) = n + 1 /\ n \in Nat
      /\ \A i \in 1 .. n : u[i] = es[i]
      /\ u[n + 1] = e /\ DOMAIN es = 1 .. n
  OBVIOUS
<1>2. DOMAIN u = DOMAIN es \cup {n + 1}
  BY <1>1
<1> HIDE DEF u, n
<1>3. ASSUME Apart(es), \A i \in DOMAIN es : es[i].slot # e.slot PROVE Apart(u)
  BY <1>1, <1>2, <1>3 DEF Apart
<1>4. u = Append(es, e) /\ n = Len(es)
  BY DEF u, n
<1> QED BY <1>1, <1>2, <1>3, <1>4

(* A hit moves an entry to the end. *)
LEMMA HitProps ==
  ASSUME NEW es \in Seq(Checkpoint), NEW h \in DOMAIN es
  PROVE  LET u == record_inline_hit(es, h)
         IN  /\ u \in Seq(Checkpoint)
             /\ \A k \in DOMAIN u : \E i \in DOMAIN es : u[k] = es[i]
             /\ Apart(es) => Apart(u)
<1> DEFINE w == erase(es, {h})
           u == record_inline_hit(es, h)
<1>1. /\ w \in Seq(Checkpoint) /\ (Apart(es) => Apart(w))
      /\ \A k \in DOMAIN w : \E i \in DOMAIN es \ {h} : w[k] = es[i]
  <2> DEFINE S == {h}
  <2>1. w = erase(es, S) /\ S = {h}
    OBVIOUS
  <2> HIDE DEF S, w
  <2>2. /\ erase(es, S) \in Seq(Checkpoint) /\ (Apart(es) => Apart(erase(es, S)))
        /\ \A k \in DOMAIN erase(es, S) : \E i \in DOMAIN es \ S : erase(es, S)[k] = es[i]
    BY EraseProps
  <2> QED BY <2>1, <2>2
<1>2. es[h] \in Checkpoint
  OBVIOUS
<1>3. u = Append(w, es[h])
  BY DEF record_inline_hit
<1> HIDE DEF w, u
<1>4. /\ u \in Seq(Checkpoint) /\ DOMAIN u = DOMAIN w \cup {Len(w) + 1}
      /\ \A i \in DOMAIN w : u[i] = w[i]
      /\ u[Len(w) + 1] = es[h]
      /\ Apart(w) /\ (\A i \in DOMAIN w : w[i].slot # es[h].slot) => Apart(u)
  BY <1>1, <1>2, <1>3, AppendProps
<1>5. Apart(es) => \A i \in DOMAIN w : w[i].slot # es[h].slot
  BY <1>1 DEF Apart
<1>6. Apart(es) => Apart(u)
  BY <1>1, <1>4, <1>5
<1>7. \A k \in DOMAIN u : \E i \in DOMAIN es : u[k] = es[i]
  BY <1>1, <1>4
<1> QED BY <1>4, <1>6, <1>7 DEF u

(* What prune_superseded_ancestors leaves. *)
LEMMA PruneProps ==
  ASSUME NEW es \in Seq(Checkpoint), NEW ids
  PROVE  LET u == prune_superseded_ancestors(es, ids)
         IN  /\ u \in Seq(Checkpoint)
             /\ \A k \in DOMAIN u : \E i \in DOMAIN es \ pruned(es, ids).drop :
                  SameCheckpoint(u[k], es[i])
             /\ \A i \in DOMAIN es \ pruned(es, ids).drop : \E k \in DOMAIN u :
                  SameCheckpoint(u[k], es[i])
             /\ Apart(es) => Apart(u)
<1> DEFINE p == pruned(es, ids)
           m == [i \in DOMAIN es |-> IF i \in p.keep THEN [es[i] EXCEPT !.edit_backup = TRUE]
                                     ELSE es[i]]
           u == prune_superseded_ancestors(es, ids)
<1>1. u = erase(m, p.drop)
  BY DEF prune_superseded_ancestors
<1> HIDE DEF p
<1>2. \A i \in DOMAIN es : m[i] \in Checkpoint /\ SameCheckpoint(m[i], es[i])
  <2> SUFFICES ASSUME NEW i \in DOMAIN es
               PROVE  m[i] \in Checkpoint /\ SameCheckpoint(m[i], es[i])
    OBVIOUS
  <2>1. es[i] \in Checkpoint
    OBVIOUS
  <2>2. [es[i] EXCEPT !.edit_backup = TRUE] \in Checkpoint
        /\ SameCheckpoint([es[i] EXCEPT !.edit_backup = TRUE], es[i])
    BY <2>1 DEF Checkpoint, SameCheckpoint
  <2> QED BY <2>1, <2>2 DEF SameCheckpoint
<1>3. DOMAIN m = DOMAIN es
  OBVIOUS
<1>4. m \in Seq(Checkpoint)
  <2>1. Len(es) \in Nat /\ DOMAIN es = 1 .. Len(es)
    OBVIOUS
  <2>2. m = [i \in 1 .. Len(es) |-> m[i]]
    BY <2>1
  <2> HIDE DEF m
  <2> QED BY <1>2, <2>1, <2>2
<1> HIDE DEF m, u
<1>5. /\ u \in Seq(Checkpoint) /\ (Apart(m) => Apart(u))
      /\ \A k \in DOMAIN u : \E i \in DOMAIN m \ p.drop : u[k] = m[i]
      /\ \A i \in DOMAIN m \ p.drop : \E k \in DOMAIN u : u[k] = m[i]
  BY <1>1, <1>4, EraseProps
<1>6. Apart(es) => Apart(m)
  BY <1>2, <1>3 DEF Apart, SameCheckpoint
<1>7. \A k \in DOMAIN u : \E i \in DOMAIN es \ p.drop : SameCheckpoint(u[k], es[i])
  BY <1>2, <1>3, <1>5
<1>8. \A i \in DOMAIN es \ p.drop : \E k \in DOMAIN u : SameCheckpoint(u[k], es[i])
  BY <1>2, <1>3, <1>5
<1> QED BY <1>5, <1>6, <1>7, <1>8 DEF u, p

-----------------------------------------------------------------------------
(* Reservations.                                                           *)

(* The victim is an entry that no capture in flight writes or evicts. *)
LEMMA VictimProps ==
  ASSUME NEW es \in Seq(Checkpoint), NEW skip, NEW held
  PROVE  select_inline_evict_victim(es, skip, held) \in {0} \cup (DOMAIN es \ held)
<1> DEFINE free == {i \in DOMAIN es : i # skip /\ i \notin held}
           bare == {i \in free : ~es[i].protect}
           middle == {i \in bare : is_ancestor(es, i) /\ has_ancestor(es, i)}
           leaves == {i \in free : ~is_ancestor(es, i)}
           above == {i \in bare : is_ancestor(es, i)}
           shallow == {i \in above : \A j \in above : Len(es[i].ids) <= Len(es[j].ids)}
           v == select_inline_evict_victim(es, skip, held)
<1>1. free \in SUBSET Nat /\ free \in SUBSET (DOMAIN es \ held)
  BY Positions
<1>2. \A T \in SUBSET free : T # {} => Min(T) \in T
  BY <1>1, MinProps
<1>3. \A T \in SUBSET free : Least(T) \in {0} \cup free
  BY <1>2 DEF Least
<1>4. /\ middle \in SUBSET free /\ leaves \in SUBSET free /\ shallow \in SUBSET free
      /\ leaves \cap bare \in SUBSET free
  OBVIOUS
<1>5. v = CASE middle # {} -> Min(middle)
            [] middle = {} /\ leaves \cap bare # {} -> Min(leaves \cap bare)
            [] OTHER -> IF skip > 0 /\ shallow # {} THEN Min(shallow) ELSE Least(leaves)
  BY DEF select_inline_evict_victim
<1> HIDE DEF free, bare, middle, leaves, above, shallow, v
<1>6. v \in {0} \cup free
  BY <1>2, <1>3, <1>4, <1>5
<1> QED BY <1>1, <1>6 DEF v

(* A place for a capture: a slot no other capture writes or evicts, over   *)
(* the victim or free. *)
Placed(es, cs, at) ==
  /\ at \in [slot : Slots, victim : Nat, next : Slots]
  /\ ~ slot_reserved(cs, at.slot)
  /\ at.victim = 0 => \A j \in DOMAIN es : es[j].slot # at.slot
  /\ at.victim # 0 => at.victim \in DOMAIN es /\ es[at.victim].slot = at.slot

LEMMA PlaceProps ==
  ASSUME NEW es \in Seq(Checkpoint), NEW cs, NEW nxt \in Slots, NEW source
  PROVE  LET p == choose_slot(es, cs, nxt, source)
         IN  p.next \in Slots /\ ((p.slot \in Int /\ p.slot < 0) \/ Placed(es, cs, p))
<1> DEFINE reserved_free == Cardinality({r \in Held(cs) : cs[r].victim = Empty})
           held == {i \in DOMAIN es : slot_reserved(cs, es[i].slot)}
           victim == select_inline_evict_victim(es, find_slot_entry(es, source), held)
           free == {s \in Slots : /\ s # source \/ cap = 1
                                  /\ find_slot_entry(es, s) = 0 /\ ~slot_reserved(cs, s)}
           after == {s \in free : s >= nxt}
           T == IF after # {} THEN after ELSE free
           s0 == Min(T)
           full == Len(es) + reserved_free >= cap
           p == choose_slot(es, cs, nxt, source)
<1>1. victim \in {0} \cup (DOMAIN es \ held)
  BY VictimProps
<1>2. p = IF full
          THEN [slot |-> IF victim = 0 THEN -1 ELSE es[victim].slot, victim |-> victim,
                next |-> nxt]
          ELSE IF free = {} THEN [slot |-> -1, victim |-> 0, next |-> nxt]
          ELSE [slot |-> s0, victim |-> 0, next |-> IF s0 + 1 = cap THEN 0 ELSE s0 + 1]
  BY DEF choose_slot
<1>3. free \in SUBSET Slots /\ Slots \in SUBSET Nat
  BY CapAssumption DEF Slots
<1>4. \A s \in free : (\A j \in DOMAIN es : es[j].slot # s) /\ ~ slot_reserved(cs, s)
  BY FindSlotProps
<1>5. ASSUME free # {} PROVE s0 \in free
  <2>1. T \in SUBSET free /\ T # {}
    BY <1>5
  <2> HIDE DEF T, free
  <2> QED BY <1>3, <2>1, MinProps
<1>6. DOMAIN es \in SUBSET (Nat \ {0})
  BY Positions
<1>7. \A i \in DOMAIN es : es[i].slot \in Slots
  BY EntryType
<1>8. \A i \in DOMAIN es \ held : ~ slot_reserved(cs, es[i].slot)
  OBVIOUS
<1> HIDE DEF victim, held, free, s0, full, p, reserved_free, T, after
<1>9. CASE full
  <2>1. p = [slot |-> IF victim = 0 THEN -1 ELSE es[victim].slot, victim |-> victim, next |-> nxt]
    BY <1>2, <1>9
  <2>2. CASE victim = 0
    BY <2>1, <2>2 DEF p
  <2>3. CASE victim # 0
    <3>1. /\ victim \in DOMAIN es /\ es[victim].slot \in Slots /\ victim \in Nat
          /\ ~ slot_reserved(cs, es[victim].slot)
      BY <1>1, <1>6, <1>7, <1>8, <2>3
    <3>2. p.slot = es[victim].slot /\ p.victim = victim /\ p.next = nxt
          /\ p = [slot |-> es[victim].slot, victim |-> victim, next |-> nxt]
      BY <2>1, <2>3
    <3>3. Placed(es, cs, p)
      BY <3>1, <3>2, <2>3 DEF Placed
    <3> QED BY <3>2, <3>3 DEF p
  <2> QED BY <2>2, <2>3 DEF p
<1>10. CASE ~ full /\ free = {}
  BY <1>2, <1>10 DEF p
<1>11. CASE ~ full /\ free # {}
  <2>1. p = [slot |-> s0, victim |-> 0, next |-> IF s0 + 1 = cap THEN 0 ELSE s0 + 1]
    BY <1>2, <1>11
  <2>2. s0 \in free /\ s0 \in Slots
    BY <1>3, <1>5, <1>11
  <2>3. (IF s0 + 1 = cap THEN 0 ELSE s0 + 1) \in Slots
    BY <2>2, CapAssumption DEF Slots
  <2>4. p.slot = s0 /\ p.victim = 0 /\ p.next \in Slots
        /\ p \in [slot : Slots, victim : Nat, next : Slots]
    BY <2>1, <2>2, <2>3
  <2>5. Placed(es, cs, p)
    BY <1>4, <2>2, <2>4 DEF Placed
  <2> QED BY <2>4, <2>5 DEF p
<1> QED BY <1>9, <1>10, <1>11

(* A single victim is one of those offered. *)
LEMMA FirstProps ==
  ASSUME NEW passes, DOMAIN passes \in SUBSET Nat, NEW single \in SUBSET Nat
  PROVE  first_of(passes, single) \in {0} \cup single
<1> DEFINE hit == {k \in DOMAIN passes : passes[k] \cap single # {}}
<1>1. CASE hit = {}
  BY <1>1 DEF first_of
<1>2. CASE hit # {}
  <2>1. Min(hit) \in hit
    BY <1>2, MinProps
  <2> DEFINE T == passes[Min(hit)] \cap single
  <2>2. T \in SUBSET Nat /\ T # {}
    BY <2>1
  <2>3. Min(T) \in T
    BY <2>2, MinProps
  <2> QED BY <1>2, <2>3 DEF first_of
<1> QED BY <1>1, <1>2

LEMMA SingleProps ==
  ASSUME NEW es \in Seq(Checkpoint), NEW single \in SUBSET Nat
  PROVE  early_victim(es, single) \in {0} \cup single /\ late_victim(es, single) \in {0} \cup single
<1>1. \A a, b : DOMAIN <<a, b>> \in SUBSET Nat
  OBVIOUS
<1>2. \A a, b, c : DOMAIN <<a, b, c>> \in SUBSET Nat
  OBVIOUS
<1>3. \A a, b : first_of(<<a, b>>, single) \in {0} \cup single
  BY <1>1, FirstProps
<1>4. \A a, b, c : first_of(<<a, b, c>>, single) \in {0} \cup single
  BY <1>2, FirstProps
<1> QED BY <1>3, <1>4 DEF early_victim, late_victim

(* A plan of several takes some of those that may be taken. *)
LEMMA SeveralProps ==
  ASSUME NEW es, NEW cs, NEW est, NEW taken, NEW X, NEW order \in Seq(X)
  PROVE  several(es, cs, est, taken, order) \in Seq(X)
<1> DEFINE enough(k) == est > 0 /\ room(es, cs, est, taken \cup Range(SubSeq(order, 1, k)))
           T == {k \in DOMAIN order : enough(k)}
           n == Least(T)
<1>1. several(es, cs, est, taken, order) = SubSeq(order, 1, n)
  BY DEF several
<1>2. Len(order) \in Nat /\ DOMAIN order = 1 .. Len(order)
  OBVIOUS
<1> HIDE DEF enough
<1>3. T \in SUBSET (Nat \ {0}) /\ T \in SUBSET (1 .. Len(order))
  BY <1>2
<1>4. n \in T \cup {0}
  BY <1>3, LeastProps
<1> HIDE DEF T, n
<1>5. n \in Int /\ 1 \in Int /\ 1 <= n + 1 /\ n <= Len(order)
  BY <1>2, <1>3, <1>4
<1> QED BY <1>1, <1>5, SliceProps

(* Entries that may be evicted along with a capture at `at`. *)
Spare(es, cs, at) ==
  {i \in DOMAIN es : es[i].slot # at.slot /\ ~ slot_reserved(cs, es[i].slot)}

(* What the plan of several may take. *)
LEMMA ExpendableProps ==
  ASSUME NEW es \in Seq(Checkpoint), NEW cs, NEW ids, NEW source, NEW taken,
         NEW X, {i \in DOMAIN es \ taken : ~ slot_reserved(cs, es[i].slot)} \in SUBSET X
  PROVE  expendable(es, cs, ids, source, taken) \in Seq(X)
<1> DEFINE open == {i \in DOMAIN es \ (taken \cup Pins(es)) :
                      /\ es[i].slot # source /\ ~IsStrictPrefix(es[i].ids, ids)
                      /\ ~slot_reserved(cs, es[i].slot) /\ ~slot_credited(cs, es[i].slot)}
           A == {i \in open \ Leaves(es) : es[i].edit_backup}
           B == open \cap Leaves(es)
<1>1. open \in SUBSET X /\ open \in SUBSET DOMAIN es
  OBVIOUS
<1>2. expendable(es, cs, ids, source, taken) = Ascending(A) \o Ascending(B)
  BY DEF expendable
<1> HIDE DEF open
<1>3. A \in SUBSET X /\ B \in SUBSET X /\ A \in SUBSET DOMAIN es /\ B \in SUBSET DOMAIN es
  BY <1>1
<1> HIDE DEF A, B
<1>4. A \in SUBSET Int /\ B \in SUBSET Int /\ IsFiniteSet(A) /\ IsFiniteSet(B)
  BY <1>3, Positions
<1>5. Ascending(A) \in Seq(A) /\ Ascending(B) \in Seq(B)
  BY <1>4, AscendingProps
<1>6. Ascending(A) \in Seq(X) /\ Ascending(B) \in Seq(X)
  BY <1>3, <1>5
<1>7. Ascending(A) \o Ascending(B) \in Seq(X)
  BY <1>6, ConcatProperties
<1> QED BY <1>2, <1>7

(* The budget keeps a place a place; what else is evicted is spare. *)
LEMMA BudgetProps ==
  ASSUME NEW es \in Seq(Checkpoint), Apart(es), NEW cs, NEW ids, NEW source,
         NEW at, Placed(es, cs, at), budget(es, cs, ids, at, source).ok
  PROVE  LET b == budget(es, cs, ids, at, source)
         IN  Placed(es, cs, b.at) /\ b.several \in Seq(Spare(es, cs, b.at))
<1> DEFINE est == estimate_bytes(Len(ids))
           planned == IF at.victim > 0 THEN {at.victim}
                      ELSE {i \in DOMAIN es : es[i].slot = at.slot}
           taken == planned \cup reclaimable(es, cs, ids)
           single == {i \in DOMAIN es :
                        /\ es[i].slot # source /\ ~slot_reserved(cs, es[i].slot)
                        /\ room(es, cs, est, {i} \cup reclaimable(es, cs, ids))}
           early == early_victim(es, single)
           late == late_victim(es, single)
           plan == several(es, cs, est, taken, expendable(es, cs, ids, source, taken))
           fits == max_resident_bytes = 0 \/ room(es, cs, est, taken)
           b == budget(es, cs, ids, at, source)
           X == Spare(es, cs, at)
<1>1. b = IF fits THEN [ok |-> TRUE, at |-> at, several |-> <<>>]
          ELSE make_room(es, at, early, plan, late)
  BY DEF budget
<1>2. single \in SUBSET Nat /\ DOMAIN es \in SUBSET (Nat \ {0})
  BY Positions
<1>3. \A i \in single : i \in DOMAIN es /\ ~ slot_reserved(cs, es[i].slot)
  OBVIOUS
<1> HIDE DEF single
<1>4. early \in {0} \cup single /\ late \in {0} \cup single
  BY <1>2, SingleProps
<1>5. {i \in DOMAIN es \ taken : ~ slot_reserved(cs, es[i].slot)} \in SUBSET X
  <2> SUFFICES ASSUME NEW i \in DOMAIN es \ taken, ~ slot_reserved(cs, es[i].slot),
                      es[i].slot = at.slot
               PROVE  FALSE
    BY DEF Spare
  <2>1. i \notin planned
    OBVIOUS
  <2>2. CASE at.victim > 0
    <3>1. at.victim \in DOMAIN es /\ es[at.victim].slot = at.slot
      BY <2>2 DEF Placed
    <3> QED BY <2>1, <2>2, <3>1 DEF Apart
  <2>3. CASE ~ (at.victim > 0)
    BY <2>1, <2>3
  <2> QED BY <2>2, <2>3
<1>6. expendable(es, cs, ids, source, taken) \in Seq(X)
  <2> HIDE DEF taken, X
  <2> QED BY <1>5, ExpendableProps
<1>7. plan \in Seq(X)
  <2> HIDE DEF taken, X, est
  <2> QED BY <1>6, SeveralProps
<1> HIDE DEF est, planned, taken, early, late, plan, fits, b, X
<1>8. \A Y : <<>> \in Seq(Y)
  OBVIOUS
<1>9. CASE fits
  <2>1. b.at = at /\ b.several = <<>>
    BY <1>1, <1>9
  <2> QED BY <1>8, <2>1 DEF b
<1>10. ASSUME NEW i \in single, b.at = [at EXCEPT !.slot = es[i].slot, !.victim = i],
              b.several = <<>>
       PROVE  Placed(es, cs, b.at) /\ b.several \in Seq(Spare(es, cs, b.at))
  <2>1. i \in DOMAIN es /\ i \in Nat /\ i # 0 /\ ~ slot_reserved(cs, es[i].slot)
        /\ es[i].slot \in Slots
    BY <1>2, <1>3, EntryType
  <2>2. at \in [slot : Slots, victim : Nat, next : Slots]
    BY DEF Placed
  <2>3. b.at \in [slot : Slots, victim : Nat, next : Slots] /\ b.at.slot = es[i].slot
        /\ b.at.victim = i
    BY <1>10, <2>1, <2>2
  <2>4. Placed(es, cs, b.at)
    BY <2>1, <2>3 DEF Placed
  <2> QED BY <1>8, <1>10, <2>4
<1>11. CASE ~ fits
  <2>1. b = make_room(es, at, early, plan, late)
    BY <1>1, <1>11
  <2>2. CASE early > 0
    <3>1. b.at = [at EXCEPT !.slot = es[early].slot, !.victim = early] /\ b.several = <<>>
      BY <2>1, <2>2 DEF make_room
    <3>2. early \in single
      BY <1>4, <2>2
    <3> QED BY <1>10, <3>1, <3>2 DEF b
  <2>3. CASE ~ (early > 0) /\ plan # <<>>
    <3>1. b.at = at /\ b.several = plan
      BY <2>1, <2>3 DEF make_room
    <3> QED BY <1>7, <3>1 DEF b, X
  <2>4. CASE ~ (early > 0) /\ plan = <<>> /\ late > 0
    <3>1. b.at = [at EXCEPT !.slot = es[late].slot, !.victim = late] /\ b.several = <<>>
      BY <2>1, <2>4 DEF make_room
    <3>2. late \in single
      BY <1>4, <2>4
    <3> QED BY <1>10, <3>1, <3>2 DEF b
  <2>5. CASE ~ (early > 0) /\ plan = <<>> /\ ~ (late > 0)
    <3>1. b.ok = FALSE
      BY <2>1, <2>5 DEF make_room
    <3> QED BY <3>1 DEF b
  <2> QED BY <2>2, <2>3, <2>4, <2>5
<1> QED BY <1>9, <1>11

(* A spaced point is a cut of the same prompt, not past the one wanted.    *)
LEMMA RestorePointBefore ==
  ASSUME NEW cut \in Nat
  PROVE  restore_point(cut) \in 0 .. cut
<1> DEFINE a == cut - 1
           k == restore_point_spacing
<1>1. CASE k = 0 \/ cut = 0
  BY <1>1 DEF restore_point
<1>2. CASE k # 0 /\ cut # 0
  <2>1. a \in Nat /\ k \in Nat \ {0}
    BY <1>2, SpacingAssumption
  <2>2. a % k \in 0 .. a
    <3> HIDE DEF a, k
    <3>1. a % k \in 0 .. k - 1 /\ a = (k * (a \div k)) + (a % k) /\ a \div k \in Nat
      BY <2>1
    <3>2. k * (a \div k) \in Nat
      BY <2>1, <3>1
    <3> QED BY <2>1, <3>1, <3>2
  <2> QED BY <1>2, <2>1, <2>2 DEF restore_point
<1> QED BY <1>1, <1>2

LEMMA TargetProps ==
  ASSUME NEW q \in Queries, NEW restored, NEW forced_cut \in 0 .. Len(q.prompt)
  PROVE  LET t == target_cut(q, restored, forced_cut)
         IN  t.cut \in 0 .. Len(q.prompt) /\ t.protect \in BOOLEAN
<1> DEFINE n == Len(q.prompt)
           head == q.tools \/ (n = 2 /\ restored < 1)
           whole_prompt_fits == \/ max_resident_bytes = 0
                                \/ estimate_bytes(n) \in 1 .. max_resident_bytes
           deep_first == /\ q.deep /\ head /\ restored <= 1
                         /\ forced_cut <= restored /\ whole_prompt_fits
           tools == q.tools /\ ~deep_first
           forced == ~(tools /\ restored >= 1) /\ forced_cut > restored
           wanted == CASE forced -> forced_cut
                       [] ~forced /\ head /\ ~deep_first /\ restored < 1 -> 1
                       [] OTHER -> IF n > restored THEN n ELSE 0
           point == IF wanted = n THEN n ELSE restore_point(wanted)
           cut == IF point > restored THEN point ELSE 0
           pin == tools /\ ((forced /\ cut = wanted) \/ cut = 1)
           t == target_cut(q, restored, forced_cut)
<1>1. t = [cut |-> cut, protect |-> pin]
  BY DEF target_cut
<1>2. n \in Nat /\ n > 0
  BY QueriesAssumption
<1> HIDE DEF head, whole_prompt_fits, deep_first, tools, forced
<1>3. cut \in 0 .. n
  <2>1. wanted \in 0 .. n
    BY <1>2
  <2> HIDE DEF wanted
  <2>2. restore_point(wanted) \in 0 .. n
    BY <1>2, <2>1, RestorePointBefore
  <2> QED BY <1>2, <2>1, <2>2
<1>4. pin \in BOOLEAN
  OBVIOUS
<1> HIDE DEF cut, pin, t
<1> QED BY <1>1, <1>3, <1>4 DEF t

(* A reservation that keeps out of the way of the index and of the         *)
(* captures in flight. *)
Fresh(c) ==
  /\ c \in Capture /\ c.key # Empty /\ estimate_bytes(Len(c.key)) \in Nat
  /\ \A i \in DOMAIN entries : /\ entries[i].slot = c.slot => entries[i].ids = c.victim
                               /\ entries[i].ids # c.key
  /\ c.slot \notin Range(c.extra_slots)
  /\ \A s \in {c.slot} \cup Range(c.extra_slots) : ~ slot_reserved(captures, s)
  /\ \A o \in Held(captures) : captures[o].key # c.key

(* Along a list of positions, the slots and the prefixes that stand there. *)
LEMMA AlongProps ==
  ASSUME NEW es \in Seq(Checkpoint), NEW X \in SUBSET DOMAIN es, NEW s \in Seq(X)
  PROVE  /\ [k \in DOMAIN s |-> es[s[k]].slot] \in Seq(Slots)
         /\ \A v \in Range([k \in DOMAIN s |-> es[s[k]].slot]) : \E i \in X : v = es[i].slot
         /\ [k \in DOMAIN s |-> es[s[k]].ids] \in Seq(Seq(Nat))
<1> DEFINE u == [k \in DOMAIN s |-> es[s[k]].slot]
           w == [k \in DOMAIN s |-> es[s[k]].ids]
<1>1. Len(s) \in Nat /\ DOMAIN s = 1 .. Len(s) /\ \A k \in DOMAIN s : s[k] \in X
  OBVIOUS
<1>2. \A k \in 1 .. Len(s) : es[s[k]].slot \in Slots /\ es[s[k]].ids \in Seq(Nat)
  BY <1>1, EntryType
<1>3. u = [k \in 1 .. Len(s) |-> es[s[k]].slot] /\ w = [k \in 1 .. Len(s) |-> es[s[k]].ids]
  BY <1>1
<1>4. u \in Seq(Slots) /\ w \in Seq(Seq(Nat))
  BY <1>1, <1>2, <1>3
<1>5. Range(u) = {u[k] : k \in DOMAIN s} /\ \A k \in DOMAIN s : u[k] = es[s[k]].slot
  BY DEF Range
<1> HIDE DEF u, w
<1>6. \A v \in Range(u) : \E i \in X : v = es[i].slot
  BY <1>1, <1>5
<1> QED BY <1>4, <1>6 DEF u, w

(* A reservation is refused or fresh. *)
LEMMA ReserveProps ==
  ASSUME PrefixTypeOK, SlotsApart, NEW q \in Queries, NEW restored, NEW source,
         NEW nxt \in Slots, NEW forced_cut \in 0 .. Len(q.prompt)
  PROVE  LET v == reserve_inline_snap(q, restored, source, nxt, forced_cut)
         IN  v.next \in Slots /\ (v.capture = NoCapture \/ Fresh(v.capture))
<1> DEFINE t == target_cut(q, restored, forced_cut)
           ids == SubSeq(q.prompt, 1, t.cut)
           place == choose_slot(entries, captures, nxt, source)
           b == budget(entries, captures, ids, place, source)
           refused == t.cut = 0 \/ known(entries, captures, ids)
           extra == [k \in DOMAIN b.several |-> entries[b.several[k]].slot]
           keys == [k \in DOMAIN b.several |-> entries[b.several[k]].ids]
           victim == IF b.at.victim > 0 THEN entries[b.at.victim].ids ELSE Empty
           credited == IF max_resident_bytes = 0 THEN {}
                       ELSE {entries[i].slot : i \in reclaimable(entries, captures, ids)}
           bytes == IF max_resident_bytes = 0 THEN 0 ELSE estimate_bytes(t.cut)
           freed == credited \cup Range(extra) \cup (IF victim # Empty THEN {b.at.slot} ELSE {})
           c == [slot |-> b.at.slot, key |-> ids, protect |-> t.protect, victim |-> victim,
                 bytes |-> bytes, extra |-> keys, extra_slots |-> extra,
                 credited_slots |-> freed]
           v == reserve_inline_snap(q, restored, source, nxt, forced_cut)
<1>1. v = IF refused THEN [capture |-> NoCapture, next |-> nxt]
          ELSE IF place.slot < 0 \/ ~ b.ok THEN [capture |-> NoCapture, next |-> place.next]
          ELSE [next |-> place.next, capture |-> c]
  BY DEF reserve_inline_snap, reservation
<1>2. entries \in Seq(Checkpoint) /\ Apart(entries) /\ \A i \in DOMAIN entries : entries[i].ids # Empty
  BY DEF PrefixTypeOK, SlotsApart, Apart
<1>3. place.next \in Slots /\ ((place.slot \in Int /\ place.slot < 0) \/ Placed(entries, captures, place))
  BY <1>2, PlaceProps
<1>4. t.cut \in 0 .. Len(q.prompt) /\ t.protect \in BOOLEAN
  BY TargetProps
<1>5. CASE refused
  <2> HIDE DEF refused, c, b, place
  <2> QED BY <1>1, <1>5
<1>6. CASE ~ refused /\ (place.slot < 0 \/ ~ b.ok)
  <2> HIDE DEF refused, c, b, place
  <2> QED BY <1>1, <1>3, <1>6
<1>7. CASE ~ refused /\ ~ (place.slot < 0 \/ ~ b.ok)
  <2>1. Placed(entries, captures, place)
    BY <1>3, <1>7
  <2>2. Placed(entries, captures, b.at) /\ b.several \in Seq(Spare(entries, captures, b.at))
    <3> HIDE DEF ids, place
    <3> QED BY <1>2, <1>7, <2>1, BudgetProps
  <2>3. /\ extra \in Seq(Slots) /\ keys \in Seq(Seq(Nat))
        /\ \A s \in Range(extra) : \E i \in Spare(entries, captures, b.at) : s = entries[i].slot
    <3>1. Spare(entries, captures, b.at) \in SUBSET DOMAIN entries
      BY DEF Spare
    <3> HIDE DEF b
    <3> QED BY <1>2, <2>2, <3>1, AlongProps
  <2>4. ids \in Seq(Nat) /\ ids # Empty /\ Len(ids) = t.cut /\ estimate_bytes(t.cut) \in Nat
    <3>1. q.prompt \in Seq(Nat) /\ \A n \in 1 .. Len(q.prompt) : estimate_bytes(n) \in Nat
      BY QueriesAssumption
    <3>2. t.cut \in Nat /\ t.cut # 0 /\ 1 \in Int /\ 1 <= t.cut + 1 /\ t.cut <= Len(q.prompt)
          /\ t.cut \in 1 .. Len(q.prompt) /\ t.cut \in Int
      BY <1>4, <1>7, <3>1
    <3> HIDE DEF t
    <3>3. ids \in Seq(Nat) /\ Len(ids) = t.cut - 1 + 1
      BY <3>1, <3>2, SliceProps
    <3> QED BY <3>1, <3>2, <3>3 DEF Empty
  <2>5. /\ \A j \in DOMAIN entries : entries[j].ids # ids
        /\ \A r \in Held(captures) : captures[r].key # ids
    <3> HIDE DEF ids
    <3>1. ~ (find_entry(entries, ids) > 0) /\ \A r \in Held(captures) : captures[r].key # ids
      BY <1>7 DEF known
    <3>2. find_entry(entries, ids) = 0
      BY <1>2, <3>1, FindProps, Positions
    <3> QED BY <1>2, <3>1, <3>2, FindProps
  <2> HIDE DEF t, ids, place, b, refused
  <2>6. b.at.slot \in Slots /\ b.at.victim \in Nat /\ victim \in Seq(Nat)
    <3>1. b.at.slot \in Slots /\ b.at.victim \in Nat
      BY <2>2 DEF Placed
    <3>2. b.at.victim > 0 => b.at.victim \in DOMAIN entries
      BY <2>2, <3>1 DEF Placed
    <3> QED BY <1>2, <3>1, <3>2, EntryType DEF Empty
  <2>7. credited \in SUBSET Slots
    <3>1. reclaimable(entries, captures, ids) \in SUBSET DOMAIN entries
      BY DEF reclaimable, superseded_entries
    <3> QED BY <1>2, <3>1, EntryType
  <2>8. \A i \in DOMAIN entries : entries[i].slot = b.at.slot => entries[i].ids = victim
    <3>1. CASE b.at.victim > 0
      <4>1. b.at.victim \in DOMAIN entries /\ entries[b.at.victim].slot = b.at.slot
        BY <2>2, <3>1 DEF Placed
      <4> QED BY <1>2, <3>1, <4>1 DEF Apart
    <3>2. CASE ~ (b.at.victim > 0)
      <4>1. b.at.victim = 0
        BY <2>6, <3>2
      <4> QED BY <2>2, <4>1 DEF Placed
    <3> QED BY <3>1, <3>2
  <2>9. /\ b.at.slot \notin Range(extra)
        /\ \A s \in {b.at.slot} \cup Range(extra) : ~ slot_reserved(captures, s)
    <3>1. \A s \in Range(extra) : s # b.at.slot /\ ~ slot_reserved(captures, s)
      <4> HIDE DEF extra
      <4> QED BY <2>3 DEF Spare
    <3>2. ~ slot_reserved(captures, b.at.slot)
      BY <2>2 DEF Placed
    <3> QED BY <3>1, <3>2
  <2>10. bytes \in Nat
    BY <2>4
  <2>11. freed \in SUBSET Slots
    <3>1. Range(extra) \in SUBSET Slots
      <4> HIDE DEF extra
      <4>1. \A i \in Spare(entries, captures, b.at) : i \in DOMAIN entries
        BY DEF Spare
      <4>2. \A i \in DOMAIN entries : entries[i].slot \in Slots
        BY <1>2, EntryType
      <4>3. \A x \in Range(extra) : x \in Slots
        BY <2>3, <4>1, <4>2
      <4> QED BY <4>3
    <3> HIDE DEF extra, credited, victim
    <3> QED BY <2>6, <2>7, <3>1
  <2> HIDE DEF extra, keys, victim, credited, bytes, freed
  <2>12. c \in Capture
    BY <1>4, <2>3, <2>4, <2>6, <2>10, <2>11 DEF Capture
  <2>13. c.slot = b.at.slot /\ c.key = ids /\ c.victim = victim /\ c.extra_slots = extra
    OBVIOUS
  <2> HIDE DEF c
  <2>14. Fresh(c)
    BY <2>4, <2>5, <2>8, <2>9, <2>12, <2>13 DEF Fresh
  <2>15. v.next = place.next /\ v.capture = c
    BY <1>1, <1>7
  <2> QED BY <1>3, <2>14, <2>15
<1> QED BY <1>5, <1>6, <1>7

(* So is the capture of a plan. *)
LEMMA PlanProps ==
  ASSUME PrefixTypeOK, SlotsApart, NEW q \in Queries, NEW restored, NEW source
  PROVE  LET v == plan_capture(q, restored, source)
         IN  v.next \in Slots /\ (v.capture = NoCapture \/ Fresh(v.capture))
<1> DEFINE Good(v) == v.next \in Slots /\ (v.capture = NoCapture \/ Fresh(v.capture))
           own == reserve_inline_snap(q, restored, source, next_slot, q.forced_cut)
           common == reserve_inline_snap(q, restored, source, own.next, q.shared)
           again == reserve_inline_snap(q, restored, source, common.next, q.forced_cut)
           both == shared_or_own(q, restored, source, common)
           v == plan_capture(q, restored, source)
<1>1. q.forced_cut \in 0 .. Len(q.prompt) /\ q.shared \in 0 .. Len(q.prompt)
  BY QueriesAssumption
<1>2. next_slot \in Slots
  BY DEF PrefixTypeOK
<1>3. Good(own)
  BY <1>1, <1>2, ReserveProps
<1>4. Good(common)
  <2>1. own.next \in Slots
    BY <1>3
  <2> HIDE DEF own
  <2> QED BY <1>1, <2>1, ReserveProps
<1>5. Good(again)
  <2>1. common.next \in Slots
    BY <1>4
  <2> HIDE DEF common
  <2> QED BY <1>1, <2>1, ReserveProps
<1>6. both = common \/ both = again
  <2> HIDE DEF common
  <2> QED BY DEF shared_or_own
<1>7. v = own \/ v = both
  <2> HIDE DEF own
  <2>1. v = own_or_shared(q, restored, source, own)
    BY DEF plan_capture, own
  <2> QED BY <2>1 DEF own_or_shared
<1> HIDE DEF own, common, again, both
<1>8. Good(v)
  <2> HIDE DEF Good, v
  <2> QED BY <1>3, <1>4, <1>5, <1>6, <1>7
<1> QED BY <1>8

-----------------------------------------------------------------------------
(* Every step keeps the invariant.                                         *)

LEMMA PrefixInit == Init => PrefixInv
<1> SUFFICES ASSUME Init PROVE PrefixInv
  OBVIOUS
<1>1. /\ DOMAIN entries = {} /\ entries \in Seq(Checkpoint)
      /\ \A r \in Requests : captures[r] = NoCapture /\ live[r] = Idle
      /\ Held(captures) = {} /\ handed = {}
  BY DEF Init, Held
<1>2. <<>> \in Seq(Nat) /\ 0 \in Slots
  BY CapAssumption DEF Slots
<1>3. PrefixTypeOK
  BY <1>1, <1>2 DEF PrefixTypeOK, Init, Empty
<1> QED BY <1>1, <1>3 DEF PrefixInv, SlotsApart, CapturesLive, PayloadMatchesKey, CapturesExclusive

(* What CapturesExclusive says of a capture and the index, and of two. *)
Clear(es, c) ==
  /\ \A i \in DOMAIN es : /\ es[i].slot = c.slot => es[i].ids = c.victim
                          /\ es[i].ids # c.key
  /\ c.slot \notin Range(c.extra_slots)

KeepOut(c, d) ==
  /\ c.slot # d.slot /\ c.key # d.key
  /\ ({c.slot} \cup Range(c.extra_slots)) \cap ({d.slot} \cup Range(d.extra_slots)) = {}

LEMMA ExclusiveTo ==
  ASSUME \A o \in Held(captures') : Clear(entries', captures'[o]),
         \A o, p \in Held(captures') : o # p => KeepOut(captures'[o], captures'[p])
  PROVE  CapturesExclusive'
BY DEF CapturesExclusive, Clear, KeepOut

LEMMA ExclusiveProps ==
  ASSUME CapturesExclusive
  PROVE  /\ \A o \in Held(captures) : Clear(entries, captures[o])
         /\ \A o, p \in Held(captures) : o # p => KeepOut(captures[o], captures[p])
BY DEF CapturesExclusive, Clear, KeepOut

(* Entries that only go, move or are marked keep clear of the captures. *)
LEMMA FewerEntries ==
  ASSUME NEW c, NEW es, NEW old,
         Clear(old, c),
         \A k \in DOMAIN es : \/ \E i \in DOMAIN old : SameCheckpoint(es[k], old[i])
                              \/ es[k].slot # c.slot /\ es[k].ids # c.key
  PROVE  Clear(es, c)
<1>1. \A k \in DOMAIN es : /\ es[k].slot = c.slot => es[k].ids = c.victim
                           /\ es[k].ids # c.key
  BY DEF Clear, SameCheckpoint
<1> QED BY <1>1 DEF Clear

(* Captures that end, and the entry one of them commits, leave the others  *)
(* out of each other's way. *)
LEMMA FewerCaptures ==
  ASSUME CapturesExclusive, NEW r \in Requests,
         \A o \in Held(captures') : o \in Held(captures) /\ captures'[o] = captures[o],
         \A k \in DOMAIN entries' :
            \/ \E i \in DOMAIN entries : SameCheckpoint(entries'[k], entries[i])
            \/ /\ r \in Held(captures) \ Held(captures')
               /\ entries'[k].slot = captures[r].slot /\ entries'[k].ids = captures[r].key
  PROVE  CapturesExclusive'
<1>1. \A o, p \in Held(captures') : o # p => KeepOut(captures'[o], captures'[p])
  BY ExclusiveProps
<1>2. ASSUME NEW o \in Held(captures') PROVE Clear(entries', captures'[o])
  <2>1. o \in Held(captures) /\ captures'[o] = captures[o] /\ Clear(entries, captures[o])
    BY ExclusiveProps
  <2>2. r \in Held(captures) \ Held(captures') => KeepOut(captures[r], captures[o])
    BY <2>1, ExclusiveProps
  <2>3. \A k \in DOMAIN entries' :
          \/ \E i \in DOMAIN entries : SameCheckpoint(entries'[k], entries[i])
          \/ entries'[k].slot # captures[o].slot /\ entries'[k].ids # captures[o].key
    BY <2>2 DEF KeepOut
  <2>4. Clear(entries', captures[o])
    BY <2>1, <2>3, FewerEntries
  <2> QED BY <2>1, <2>4
<1> QED BY <1>1, <1>2, ExclusiveTo

(* A fresh capture keeps out of the way of the others. *)
LEMMA MoreCaptures ==
  ASSUME CapturesExclusive, NEW r \in Requests, NEW c, Fresh(c), captures[r] = NoCapture,
         captures \in [Requests -> Capture \cup {NoCapture}],
         captures' = [captures EXCEPT ![r] = c],
         \A k \in DOMAIN entries' :
            \E i \in DOMAIN entries : SameCheckpoint(entries'[k], entries[i])
  PROVE  CapturesExclusive'
<1>1. /\ captures'[r] = c
      /\ \A o \in Held(captures') \ {r} : o \in Held(captures) /\ captures'[o] = captures[o]
  BY DEF Held
<1>2. \A o \in Held(captures) : KeepOut(captures[o], c) /\ KeepOut(c, captures[o])
  <2> SUFFICES ASSUME NEW o \in Held(captures)
               PROVE  KeepOut(captures[o], c) /\ KeepOut(c, captures[o])
    OBVIOUS
  <2>1. captures[o].key # c.key
    BY DEF Fresh
  <2>2. \A s \in {c.slot} \cup Range(c.extra_slots) :
          s # captures[o].slot /\ s \notin Range(captures[o].extra_slots)
    BY DEF Fresh, slot_reserved
  <2> QED BY <2>1, <2>2 DEF KeepOut
<1>3. \A o, p \in Held(captures') : o # p => KeepOut(captures'[o], captures'[p])
  BY <1>1, <1>2, ExclusiveProps
<1>4. \A o \in Held(captures') : Clear(entries, captures'[o])
  <2>1. Clear(entries, c)
    BY DEF Fresh, Clear
  <2> QED BY <1>1, <2>1, ExclusiveProps
<1>5. \A o \in Held(captures') : Clear(entries', captures'[o])
  <2> SUFFICES ASSUME NEW o \in Held(captures') PROVE Clear(entries', captures'[o])
    OBVIOUS
  <2> QED BY <1>4, FewerEntries
<1> QED BY <1>3, <1>5, ExclusiveTo

(* When a capture ends, the others are as they were. *)
LEMMA EndCapture ==
  ASSUME PrefixTypeOK, NEW r \in Requests, captures' = [captures EXCEPT ![r] = NoCapture]
  PROVE  /\ captures' \in [Requests -> Capture \cup {NoCapture}]
         /\ r \notin Held(captures')
         /\ \A o \in Held(captures') : o \in Held(captures) /\ captures'[o] = captures[o]
         /\ \A o \in Held(captures') : /\ captures'[o].key # Empty
                                       /\ estimate_bytes(Len(captures'[o].key)) \in Nat
<1>1. captures \in [Requests -> Capture \cup {NoCapture}]
  BY DEF PrefixTypeOK
<1>2. captures' \in [Requests -> Capture \cup {NoCapture}]
  BY <1>1
<1>3. /\ r \notin Held(captures')
      /\ \A o \in Held(captures') : o \in Held(captures) /\ captures'[o] = captures[o]
  BY <1>1 DEF Held
<1>4. \A o \in Held(captures) : /\ captures[o].key # Empty
                                /\ estimate_bytes(Len(captures[o].key)) \in Nat
  BY DEF PrefixTypeOK
<1> QED BY <1>2, <1>3, <1>4

(* A capture in flight is one. *)
LEMMA HeldType ==
  ASSUME PrefixTypeOK, NEW r \in Held(captures)
  PROVE  /\ r \in Requests /\ captures[r] \in Capture
         /\ captures[r].slot \in Slots /\ captures[r].key \in Seq(Nat)
<1>1. r \in Requests /\ captures[r] \in Capture
  BY DEF Held, PrefixTypeOK
<1> QED BY <1>1 DEF Capture

(* A payload is dropped from its own slot. *)
LEMMA DiscardProps ==
  ASSUME NEW snaps \in [Slots -> Seq(Nat)], NEW slot, NEW tokens
  PROVE  /\ discard(snaps, slot, tokens) \in [Slots -> Seq(Nat)]
         /\ \A s \in Slots \ {slot} : discard(snaps, slot, tokens)[s] = snaps[s]
<1>1. Empty \in Seq(Nat)
  BY DEF Empty
<1> QED BY <1>1 DEF discard

(* replace_paged_target_cache writes one slot. *)
LEMMA WrittenProps ==
  ASSUME PrefixTypeOK, NEW c \in Capture
  PROVE  /\ written(c).snaps \in [Slots -> Seq(Nat)] /\ written(c).disp \in [Slots -> Seq(Nat)]
         /\ written(c).snaps[c.slot] = c.key
         /\ \A s \in Slots \ {c.slot} : written(c).snaps[s] = snapshots[s]
         /\ snapshots[c.slot] # Empty => written(c).disp[c.slot] = snapshots[c.slot]
<1>1. /\ c.slot \in Slots /\ c.key \in Seq(Nat)
      /\ snapshots \in [Slots -> Seq(Nat)] /\ displaced \in [Slots -> Seq(Nat)]
  BY DEF Capture, PrefixTypeOK
<1> QED BY <1>1 DEF written

LEMMA StepFailed ==
  ASSUME PrefixInv, NEW r \in Requests, captured_failed(r)
  PROVE  PrefixInv'
<1> USE DEF PrefixInv
<1>1. /\ captures' = [captures EXCEPT ![r] = NoCapture] /\ handed' = {}
      /\ entries' = entries /\ live' = live /\ next_slot' = next_slot /\ snapshots' = snapshots
      /\ displaced' = [displaced EXCEPT ![captures[r].slot] = Empty]
  BY DEF captured_failed
<1>2. PrefixTypeOK'
  <2>1. <<>> \in Seq(Nat) /\ displaced \in [Slots -> Seq(Nat)]
    BY DEF PrefixTypeOK
  <2>2. displaced' \in [Slots -> Seq(Nat)]
    BY <1>1, <2>1 DEF Empty
  <2> QED BY <1>1, <2>2, EndCapture DEF PrefixTypeOK
<1>3. SlotsApart' /\ CapturesLive' /\ PayloadMatchesKey'
  BY <1>1, EndCapture DEF SlotsApart, CapturesLive, PayloadMatchesKey
<1>4. CapturesExclusive'
  <2>1. \A k \in DOMAIN entries' : SameCheckpoint(entries'[k], entries[k])
    BY <1>1 DEF SameCheckpoint
  <2> QED BY <1>1, <2>1, EndCapture, FewerCaptures
<1> QED BY <1>2, <1>3, <1>4

LEMMA StepRetire ==
  ASSUME PrefixInv, NEW r \in Requests, retire_slot(r)
  PROVE  PrefixInv'
<1> USE DEF PrefixInv
<1>1. /\ captures' = [captures EXCEPT ![r] = NoCapture] /\ handed' = {}
      /\ entries' = entries /\ next_slot' = next_slot /\ snapshots' = snapshots
      /\ displaced' = displaced /\ live' = [live EXCEPT ![r] = Idle]
  BY DEF retire_slot
<1>2. PrefixTypeOK'
  BY <1>1, EndCapture DEF PrefixTypeOK
<1>3. SlotsApart' /\ PayloadMatchesKey'
  BY <1>1 DEF SlotsApart, PayloadMatchesKey
<1>4. CapturesLive'
  <2>1. \A o \in Held(captures') : o \in Held(captures) /\ o # r /\ live[o] # Idle
    BY <1>1, EndCapture DEF CapturesLive
  <2>2. \A o \in Held(captures') : live'[o] = live[o]
    BY <1>1, <2>1 DEF PrefixTypeOK, Held
  <2> QED BY <2>1, <2>2 DEF CapturesLive
<1>5. CapturesExclusive'
  <2>1. \A k \in DOMAIN entries' : SameCheckpoint(entries'[k], entries[k])
    BY <1>1 DEF SameCheckpoint
  <2> QED BY <1>1, <2>1, EndCapture, FewerCaptures
<1> QED BY <1>2, <1>3, <1>4, <1>5

LEMMA StepMismatched ==
  ASSUME PrefixInv, NEW r \in Requests, NEW wrote \in BOOLEAN, captured_mismatched(r, wrote)
  PROVE  PrefixInv'
<1> USE DEF PrefixInv
<1> DEFINE c == captures[r]
           w == written(c)
           snaps == IF wrote THEN w.snaps ELSE snapshots
           S == {i \in DOMAIN entries : entries[i].slot = c.slot}
<1>1. /\ captures' = [captures EXCEPT ![r] = NoCapture] /\ handed' = {}
      /\ live' = live /\ next_slot' = next_slot
      /\ snapshots' = discard(snaps, c.slot, Len(c.key))
      /\ displaced' = (IF wrote THEN w.disp ELSE displaced)
      /\ entries' = erase(entries, S)
      /\ r \in Held(captures)
  BY DEF captured_mismatched, Held
<1>2. c \in Capture /\ c.slot \in Slots
  BY <1>1, HeldType
<1> HIDE DEF c
<1>3. /\ snaps \in [Slots -> Seq(Nat)] /\ displaced' \in [Slots -> Seq(Nat)]
      /\ \A s \in Slots \ {c.slot} : snaps[s] = snapshots[s]
  BY <1>1, <1>2, WrittenProps DEF PrefixTypeOK
<1> HIDE DEF snaps, w
<1>4. /\ snapshots' \in [Slots -> Seq(Nat)]
      /\ \A s \in Slots \ {c.slot} : snapshots'[s] = snapshots[s]
  <2> DEFINE n == Len(c.key)
             slot == c.slot
  <2>1. snapshots' = discard(snaps, slot, n)
    BY <1>1
  <2> HIDE DEF n
  <2>2. /\ discard(snaps, slot, n) \in [Slots -> Seq(Nat)]
        /\ \A s \in Slots \ {slot} : discard(snaps, slot, n)[s] = snaps[s]
    <3> HIDE DEF slot
    <3> QED BY <1>3, DiscardProps
  <2> QED BY <1>3, <2>1, <2>2
<1>5. entries \in Seq(Checkpoint) /\ Apart(entries)
  BY DEF PrefixTypeOK, SlotsApart, Apart
<1>6. /\ entries' \in Seq(Checkpoint) /\ Apart(entries')
      /\ \A k \in DOMAIN entries' : \E i \in DOMAIN entries \ S : entries'[k] = entries[i]
  <2> HIDE DEF S
  <2> QED BY <1>1, <1>5, EraseProps
<1>7. \A k \in DOMAIN entries' : \E i \in DOMAIN entries :
        entries'[k] = entries[i] /\ entries[i].slot \in Slots \ {c.slot}
  <2>1. \A i \in DOMAIN entries \ S : entries[i].slot \in Slots \ {c.slot}
    BY <1>5, EntryType
  <2> HIDE DEF S
  <2> QED BY <1>6, <2>1
<1>8. PrefixTypeOK'
  <2>1. \A k \in DOMAIN entries' : entries'[k].ids # Empty
    BY <1>7 DEF PrefixTypeOK
  <2> QED BY <1>1, <1>3, <1>4, <1>6, <2>1, EndCapture DEF PrefixTypeOK
<1>9. SlotsApart'
  BY <1>6 DEF SlotsApart, Apart
<1>10. CapturesLive'
  BY <1>1, EndCapture DEF CapturesLive
<1>11. PayloadMatchesKey'
  <2>1. \A k \in DOMAIN entries' : snapshots'[entries'[k].slot] = entries'[k].ids
    BY <1>4, <1>7 DEF PayloadMatchesKey
  <2> QED BY <1>1, <2>1 DEF PayloadMatchesKey
<1>12. CapturesExclusive'
  <2>1. \A k \in DOMAIN entries' : \E i \in DOMAIN entries : SameCheckpoint(entries'[k], entries[i])
    BY <1>7 DEF SameCheckpoint
  <2> QED BY <1>1, <2>1, EndCapture, FewerCaptures
<1> QED BY <1>8, <1>9, <1>10, <1>11, <1>12

LEMMA StepFlush ==
  ASSUME PrefixInv, NEW limit \in 0 .. cap, flush(limit)
  PROVE  PrefixInv'
<1> USE DEF PrefixInv
<1> DEFINE keep == {i \in DOMAIN entries : i > Len(entries) - limit
                                           /\ entries[i].disk_key
                                           /\ persist_on_evict(entries, i)}
           kept == {i \in keep : snapshots[entries[i].slot] # Empty}
<1>1. /\ entries' = <<>> /\ next_slot' = 0 /\ captures' = captures /\ live' = live
      /\ snapshots' = [s \in Slots |-> Empty] /\ displaced' = [s \in Slots |-> Empty]
      /\ handed' = {<<entries[i].ids, snapshots[entries[i].slot]>> : i \in kept}
      /\ \A r \in Requests : live[r] = Idle
  BY DEF flush
<1>2. Held(captures) = {} /\ Held(captures') = {}
  BY <1>1 DEF CapturesLive, Held
<1>3. kept \in SUBSET DOMAIN entries
  OBVIOUS
<1> HIDE DEF kept, keep
<1>4. <<>> \in Seq(Nat) /\ 0 \in Slots /\ DOMAIN entries' = {} /\ entries' \in Seq(Checkpoint)
  BY <1>1, CapAssumption DEF Slots
<1>5. PrefixTypeOK'
  BY <1>1, <1>2, <1>4 DEF PrefixTypeOK, Empty
<1>6. SlotsApart' /\ CapturesLive' /\ CapturesExclusive'
  BY <1>1, <1>2, <1>4 DEF SlotsApart, CapturesLive, CapturesExclusive
<1>7. PayloadMatchesKey'
  <2>1. \A i \in kept : snapshots[entries[i].slot] = entries[i].ids
    BY <1>3 DEF PayloadMatchesKey
  <2> QED BY <1>1, <1>4, <2>1 DEF PayloadMatchesKey
<1> QED BY <1>5, <1>6, <1>7

(* A lookup finds an entry, or none. *)
LEMMA LookupProps ==
  ASSUME NEW es \in Seq(Checkpoint), NEW p \in Seq(Nat)
  PROVE  lookup_candidate(es, p) \in {0} \cup DOMAIN es
<1> DEFINE hits == {i \in DOMAIN es : IsPrefix(es[i].ids, p)}
           T == {Len(es[i].ids) : i \in hits}
<1>1. CASE hits = {}
  BY <1>1 DEF lookup_candidate
<1>2. CASE hits # {}
  <2>1. Len(p) \in Nat /\ \A i \in hits : Len(es[i].ids) \in Nat /\ Len(es[i].ids) <= Len(p)
    BY EntryType DEF IsPrefix
  <2>2. T \in SUBSET Nat /\ T # {} /\ \A n \in T : n <= Len(p)
    <3> HIDE DEF hits
    <3> QED BY <1>2, <2>1
  <2> HIDE DEF T
  <2>3. PICK n \in T : \A m \in T : m <= n
    BY <2>1, <2>2, GreatestNat
  <2>4. \E i \in hits : \A j \in hits : Len(es[j].ids) <= Len(es[i].ids)
    BY <2>3 DEF T
  <2>5. lookup_candidate(es, p) \in hits
    <3>1. lookup_candidate(es, p) =
            CHOOSE i \in hits : \A j \in hits : Len(es[j].ids) <= Len(es[i].ids)
      BY <1>2 DEF lookup_candidate
    <3> HIDE DEF hits
    <3> QED BY <2>4, <3>1
  <2> QED BY <2>5
<1> QED BY <1>1, <1>2

(* What an admission leaves of the index and of the payloads: each entry   *)
(* that stays keeps its payload. *)
LEMMA AdmittedIndex ==
  ASSUME PrefixInv, NEW r \in Requests, NEW q \in Queries, NEW planned,
         NEW answer \in Answers, NEW restored, NEW hit \in {0} \cup DOMAIN entries, NEW source,
         hit # 0 => source = entries[hit].slot,
         admission(r, q, answer, hit, source, restored, planned)
  PROVE  /\ entries' \in Seq(Checkpoint) /\ Apart(entries')
         /\ snapshots' \in [Slots -> Seq(Nat)]
         /\ \A k \in DOMAIN entries' : \E i \in DOMAIN entries :
              /\ SameCheckpoint(entries'[k], entries[i])
              /\ snapshots'[entries[i].slot] = snapshots[entries[i].slot]
<1> USE DEF PrefixInv
<1> DEFINE rejects == hit > 0 /\ answer \in {"stale", "stale_busy", "malformed"}
           moves == ~rejects /\ hit > 0 /\ answer # "busy"
<1>1. /\ entries' = CASE rejects -> erase(entries, {hit})
                      [] moves -> record_inline_hit(entries, hit)
                      [] OTHER -> entries
      /\ snapshots' = (IF rejects THEN discard(snapshots, source, restored) ELSE snapshots)
  BY DEF admission
<1>2. entries \in Seq(Checkpoint) /\ Apart(entries) /\ snapshots \in [Slots -> Seq(Nat)]
  BY DEF PrefixTypeOK, SlotsApart, Apart
<1>3. hit > 0 => hit \in DOMAIN entries
  BY <1>2, Positions
<1>4. \A i \in DOMAIN entries : entries[i].slot \in Slots
  BY <1>2, EntryType
<1>5. CASE rejects
  <2> DEFINE S == {hit}
  <2>1. entries' = erase(entries, S) /\ snapshots' = discard(snapshots, source, restored)
    BY <1>1, <1>5
  <2>2. \A i \in DOMAIN entries \ S : entries[i].slot \in Slots \ {source}
    BY <1>2, <1>3, <1>4, <1>5, Positions DEF Apart
  <2> HIDE DEF S
  <2>3. /\ entries' \in Seq(Checkpoint) /\ Apart(entries')
        /\ \A k \in DOMAIN entries' : \E i \in DOMAIN entries \ S : entries'[k] = entries[i]
    BY <1>2, <2>1, EraseProps
  <2>4. /\ snapshots' \in [Slots -> Seq(Nat)]
        /\ \A s \in Slots \ {source} : snapshots'[s] = snapshots[s]
    BY <1>2, <2>1, DiscardProps
  <2> QED BY <2>2, <2>3, <2>4 DEF SameCheckpoint
<1>6. CASE moves
  <2>1. entries' = record_inline_hit(entries, hit) /\ snapshots' = snapshots
    BY <1>1, <1>6
  <2>2. /\ entries' \in Seq(Checkpoint) /\ Apart(entries')
        /\ \A k \in DOMAIN entries' : \E i \in DOMAIN entries : entries'[k] = entries[i]
    BY <1>2, <1>3, <1>6, <2>1, HitProps
  <2> QED BY <1>2, <2>1, <2>2 DEF SameCheckpoint
<1>7. CASE ~rejects /\ ~moves
  <2>1. entries' = entries /\ snapshots' = snapshots
    BY <1>1, <1>7
  <2> QED BY <1>2, <2>1 DEF SameCheckpoint
<1> QED BY <1>5, <1>6, <1>7

LEMMA StepAdmit ==
  ASSUME PrefixInv, NEW r \in Requests, NEW q \in Queries, admit(r, q)
  PROVE  PrefixInv'
<1> USE DEF PrefixInv
<1> DEFINE hit == lookup_candidate(entries, q.prompt)
           source == IF hit = 0 THEN -1 ELSE entries[hit].slot
           restored == IF hit = 0 THEN 0 ELSE Len(entries[hit].ids)
           planned == plan_capture(q, restored, source)
<1>1. live[r] = Idle
  BY DEF admit
<1>2. PICK answer \in Answers : admission(r, q, answer, hit, source, restored, planned)
  BY DEF admit
<1>3. entries \in Seq(Checkpoint) /\ q.prompt \in Seq(Nat) /\ q # Idle
  <2>1. Len(Idle.prompt) = 0
    BY DEF Idle
  <2> QED BY <2>1, QueriesAssumption DEF PrefixTypeOK
<1>4. hit \in {0} \cup DOMAIN entries /\ (hit # 0 => source = entries[hit].slot)
  BY <1>3, LookupProps
<1>5. planned.next \in Slots /\ (planned.capture = NoCapture \/ Fresh(planned.capture))
  <2> HIDE DEF source, restored
  <2> QED BY PlanProps
<1> HIDE DEF hit, source, restored, planned
<1>6. /\ answer = "admitted" => planned.capture # NoCapture
      /\ next_slot' = planned.next
      /\ live' = (IF answer \in {"admitted", "unarmed", "stale"}
                  THEN [live EXCEPT ![r] = q] ELSE live)
      /\ captures' = (IF answer = "admitted"
                      THEN [captures EXCEPT ![r] = planned.capture] ELSE captures)
      /\ handed' = {} /\ displaced' = displaced
  BY <1>2 DEF admission
<1>7. /\ entries' \in Seq(Checkpoint) /\ Apart(entries')
      /\ snapshots' \in [Slots -> Seq(Nat)]
      /\ \A k \in DOMAIN entries' : \E i \in DOMAIN entries :
           /\ SameCheckpoint(entries'[k], entries[i])
           /\ snapshots'[entries[i].slot] = snapshots[entries[i].slot]
  BY <1>2, <1>4, AdmittedIndex
<1>8. /\ captures \in [Requests -> Capture \cup {NoCapture}]
      /\ live \in [Requests -> Queries \cup {Idle}]
  BY DEF PrefixTypeOK
<1>9. captures[r] = NoCapture
  BY <1>1 DEF CapturesLive, Held
<1>10. \A o \in Held(captures') :
         \/ o \in Held(captures) /\ captures'[o] = captures[o]
         \/ o = r /\ answer = "admitted" /\ captures'[o] = planned.capture /\ Fresh(captures'[o])
  BY <1>5, <1>6, <1>8 DEF Held
<1>11. PrefixTypeOK'
  <2>1. captures' \in [Requests -> Capture \cup {NoCapture}]
    BY <1>5, <1>6, <1>8 DEF Fresh
  <2>2. live' \in [Requests -> Queries \cup {Idle}]
    BY <1>6, <1>8
  <2>3. \A k \in DOMAIN entries' : entries'[k].ids # Empty
    BY <1>7 DEF SameCheckpoint, PrefixTypeOK
  <2>4. \A o \in Held(captures') :
          captures'[o].key # Empty /\ estimate_bytes(Len(captures'[o].key)) \in Nat
    <3>1. \A o \in Held(captures) :
            captures[o].key # Empty /\ estimate_bytes(Len(captures[o].key)) \in Nat
      BY DEF PrefixTypeOK
    <3> QED BY <1>10, <3>1 DEF Fresh
  <2>5. displaced' \in [Slots -> Seq(Nat)] /\ next_slot' \in Slots
    BY <1>5, <1>6 DEF PrefixTypeOK
  <2> QED BY <1>7, <2>1, <2>2, <2>3, <2>4, <2>5 DEF PrefixTypeOK
<1>12. SlotsApart'
  BY <1>7 DEF SlotsApart, Apart
<1>13. CapturesLive'
  <2>1. \A o \in Held(captures') : o \in Requests /\ (o = r => answer = "admitted")
    BY <1>9, <1>10 DEF Held
  <2>2. \A o \in Held(captures') : o # r => live[o] # Idle
    BY <1>10 DEF CapturesLive
  <2> QED BY <1>3, <1>6, <1>8, <2>1, <2>2 DEF CapturesLive
<1>14. PayloadMatchesKey'
  <2>1. \A k \in DOMAIN entries' : snapshots'[entries'[k].slot] = entries'[k].ids
    BY <1>7 DEF PayloadMatchesKey, SameCheckpoint
  <2> QED BY <1>6, <2>1 DEF PayloadMatchesKey
<1>15. CapturesExclusive'
  <2>1. \A k \in DOMAIN entries' :
          \E i \in DOMAIN entries : SameCheckpoint(entries'[k], entries[i])
    BY <1>7
  <2>2. CASE answer = "admitted"
    <3>1. Fresh(planned.capture) /\ captures' = [captures EXCEPT ![r] = planned.capture]
      BY <1>5, <1>6, <2>2
    <3> QED BY <1>8, <1>9, <2>1, <3>1, MoreCaptures
  <2>3. CASE answer # "admitted"
    <3>1. captures' = captures
      BY <1>6, <2>3
    <3> QED BY <2>1, <3>1, FewerCaptures
  <2> QED BY <2>2, <2>3
<1> QED BY <1>11, <1>12, <1>13, <1>14, <1>15

LEMMA ConcatRange ==
  ASSUME NEW S, NEW s \in Seq(S), NEW t \in Seq(S)
  PROVE  /\ s \o t \in Seq(S) /\ Range(s) \in SUBSET S
         /\ Range(s) \cup Range(t) \in SUBSET Range(s \o t)
<1>1. /\ s \o t \in Seq(S) /\ Len(s) \in Nat /\ Len(t) \in Nat /\ Len(s \o t) = Len(s) + Len(t)
      /\ DOMAIN s = 1 .. Len(s) /\ DOMAIN t = 1 .. Len(t) /\ DOMAIN (s \o t) = 1 .. Len(s \o t)
      /\ \A k \in 1 .. Len(s) : (s \o t)[k] = s[k]
      /\ \A k \in 1 .. Len(t) : (s \o t)[Len(s) + k] = t[k]
  BY ConcatProperties
<1>2. Range(s) \in SUBSET S
  BY <1>1 DEF Range
<1>3. ASSUME NEW x \in Range(s) PROVE x \in Range(s \o t)
  <2>1. PICK k \in 1 .. Len(s) : x = s[k]
    BY <1>1 DEF Range
  <2>2. k \in DOMAIN (s \o t) /\ (s \o t)[k] = x
    BY <1>1, <2>1
  <2> QED BY <2>2 DEF Range
<1>4. ASSUME NEW x \in Range(t) PROVE x \in Range(s \o t)
  <2>1. PICK k \in 1 .. Len(t) : x = t[k]
    BY <1>1 DEF Range
  <2>2. Len(s) + k \in DOMAIN (s \o t) /\ (s \o t)[Len(s) + k] = x
    BY <1>1, <2>1
  <2> QED BY <2>2 DEF Range
<1> QED BY <1>1, <1>2, <1>3, <1>4

(* A commit evicts entries of the index, the one in its slot among them. *)
LEMMA EvictionsProps ==
  ASSUME NEW es \in Seq(Checkpoint), NEW c \in Capture
  PROVE  /\ evictions(es, c) \in Seq(DOMAIN es)
         /\ Range(evictions(es, c)) \in SUBSET DOMAIN es
         /\ \A i \in DOMAIN es : es[i].slot = c.slot => i \in Range(evictions(es, c))
<1> DEFINE kept == {k \in DOMAIN c.extra : \E i \in DOMAIN es :
                      i = find_entry(es, c.extra[k]) /\ es[i].slot = c.extra_slots[k]}
           n == Cardinality(kept)
           a == Ascending(kept)
           extras == [m \in 1 .. n |-> find_entry(es, c.extra[a[m]])]
           victim == IF c.victim = Empty THEN {} ELSE {find_entry(es, c.victim)} \ {0}
           there == {i \in DOMAIN es : es[i].slot = c.slot}
           A == victim \ Range(extras)
           B == there \ (victim \cup Range(extras))
           v == evictions(es, c)
           D == DOMAIN es
<1>1. v = extras \o Ascending(A) \o Ascending(B)
  BY DEF evictions
<1>2. kept \in SUBSET Int /\ IsFiniteSet(kept) /\ \A k \in kept : find_entry(es, c.extra[k]) \in D
  <2>1. c.extra \in Seq(Seq(Nat))
    BY DEF Capture
  <2>2. Len(c.extra) \in Nat /\ DOMAIN c.extra = 1 .. Len(c.extra)
    BY <2>1
  <2>3. IsFiniteSet(1 .. Len(c.extra))
    BY <2>2, FS_Interval
  <2>4. kept \in SUBSET (1 .. Len(c.extra))
    BY <2>2
  <2>5. IsFiniteSet(kept)
    <3> HIDE DEF kept
    <3> QED BY <2>3, <2>4, FS_Subset
  <2> QED BY <2>2, <2>4, <2>5
<1>3. extras \in Seq(D)
  <2> HIDE DEF kept
  <2>1. n \in Nat
    BY <1>2, FS_CardinalityType
  <2>2. a \in Seq(kept) /\ Len(a) = n
    BY <1>2, AscendingProps
  <2> HIDE DEF a, n
  <2>3. \A m \in 1 .. n : a[m] \in kept
    BY <2>2
  <2> HIDE DEF D
  <2>4. \A m \in 1 .. n : find_entry(es, c.extra[a[m]]) \in D
    BY <1>2, <2>3
  <2>5. \A f : (\A m \in 1 .. n : f[m] \in D) => [m \in 1 .. n |-> f[m]] \in Seq(D)
    BY <2>1
  <2>6. extras = [m \in 1 .. n |-> extras[m]] /\ \A m \in 1 .. n : extras[m] \in D
    BY <2>4
  <2> HIDE DEF extras
  <2> QED BY <2>5, <2>6
<1> HIDE DEF kept, a, n, extras
<1>4. victim \in SUBSET D
  BY FindProps
<1>5. there \in SUBSET D
  OBVIOUS
<1> HIDE DEF victim
<1>6. A \in SUBSET D /\ B \in SUBSET D /\ there \in SUBSET (Range(extras) \cup A \cup B)
  BY <1>4, <1>5
<1> HIDE DEF A, B
<1>7. A \in SUBSET Int /\ IsFiniteSet(A) /\ B \in SUBSET Int /\ IsFiniteSet(B)
  BY <1>6, Positions
<1>8. /\ Ascending(A) \in Seq(D) /\ Range(Ascending(A)) = A
      /\ Ascending(B) \in Seq(D) /\ Range(Ascending(B)) = B
  <2>1. /\ Ascending(A) \in Seq(A) /\ Range(Ascending(A)) = A
        /\ Ascending(B) \in Seq(B) /\ Range(Ascending(B)) = B
    BY <1>7, AscendingProps
  <2> HIDE DEF D
  <2> QED BY <1>6, <2>1
<1> HIDE DEF D, v
<1> DEFINE u == extras \o Ascending(A)
<1>9. u \in Seq(D) /\ Range(extras) \cup A \in SUBSET Range(u)
  BY <1>3, <1>8, ConcatRange
<1>10. v = u \o Ascending(B)
  BY <1>1
<1> HIDE DEF u
<1>11. v \in Seq(D) /\ Range(u) \cup B \in SUBSET Range(v)
  BY <1>8, <1>9, <1>10, ConcatRange
<1>12. Range(v) \in SUBSET D
  BY <1>11, ConcatRange
<1>13. there \in SUBSET Range(v)
  BY <1>6, <1>9, <1>11
<1> QED BY <1>11, <1>12, <1>13 DEF v, D

(* The payload of an evicted entry is where evicted_payload looks for it.  *)
LEMMA PayloadFound ==
  ASSUME PrefixInv, NEW r \in Held(captures), NEW i \in DOMAIN entries
  PROVE  LET w == written(captures[r])
         IN  /\ evicted_payload(entries[i], captures[r], w.snaps, w.disp) = entries[i].ids
             /\ entries[i].ids # Empty
<1> DEFINE c == captures[r]
<1>1. /\ entries[i].slot \in Slots /\ entries[i].ids # Empty
      /\ snapshots[entries[i].slot] = entries[i].ids
  BY EntryType DEF PrefixInv, PayloadMatchesKey, PrefixTypeOK
<1>2. c \in Capture
  BY HeldType DEF PrefixInv
<1> HIDE DEF c
<1>3. /\ \A s \in Slots \ {c.slot} : written(c).snaps[s] = snapshots[s]
      /\ snapshots[c.slot] # Empty => written(c).disp[c.slot] = snapshots[c.slot]
  BY <1>2, WrittenProps DEF PrefixInv
<1>4. CASE entries[i].slot = c.slot
  BY <1>1, <1>3, <1>4 DEF evicted_payload, c
<1>5. CASE entries[i].slot # c.slot
  BY <1>1, <1>3, <1>5 DEF evicted_payload, c
<1> QED BY <1>4, <1>5

(* A commit: the index it leaves is apart, and each entry of it is an old  *)
(* one outside the capture's slot or the new one; either keeps its payload.*)
LEMMA CommitProps ==
  ASSUME PrefixInv, NEW r \in Held(captures),
         commit(r, written(captures[r]).snaps, written(captures[r]).disp)
  PROVE  /\ entries' \in Seq(Checkpoint) /\ Apart(entries')
         /\ snapshots' \in [Slots -> Seq(Nat)] /\ displaced' \in [Slots -> Seq(Nat)]
         /\ \A k \in DOMAIN entries' :
              /\ snapshots'[entries'[k].slot] = entries'[k].ids
              /\ \/ \E i \in DOMAIN entries : SameCheckpoint(entries'[k], entries[i])
                 \/ entries'[k].slot = captures[r].slot /\ entries'[k].ids = captures[r].key
         /\ \A h \in handed' : h[1] = h[2]
<1> USE DEF PrefixInv
<1> DEFINE c == captures[r]
           snaps == written(c).snaps
           disp == written(c).disp
           order == evictions(entries, c)
           S == Range(order)
           new == [ids |-> c.key, slot |-> c.slot, protect |-> c.protect,
                   bytes |-> estimate_bytes(Len(c.key)), edit_backup |-> FALSE,
                   disk_key |-> Disk /\ live[r].full]
           rest == erase(entries, S)
           landed == Append(rest, new)
           drop == pruned(landed, c.key).drop
           payload(i) == evicted_payload(entries[i], c, snaps, disp)
           worth == {k \in DOMAIN order : worth_writing(entries, order, k)}
           detached == {entries[order[k]].slot : k \in worth}
           gone == {entries[i] : i \in S}
           behind == {landed[i] : i \in drop}
           freed == (detached \cup discarded(gone, snaps) \cup discarded(behind, snaps)) \ {c.slot}
<1>1. /\ entries' = prune_superseded_ancestors(landed, c.key)
      /\ snapshots' = [s \in Slots |-> IF s \in freed THEN Empty ELSE snaps[s]]
      /\ displaced' = [disp EXCEPT ![c.slot] = Empty]
      /\ handed' = {<<entries[order[k]].ids, payload(order[k])>> :
                      k \in {k \in DOMAIN order : worth_writing(entries, order, k)
                                                  /\ payload(order[k]) # Empty}}
  BY DEF commit
<1>2. /\ c \in Capture /\ c.slot \in Slots /\ c.key \in Seq(Nat) /\ c.protect \in BOOLEAN
      /\ estimate_bytes(Len(c.key)) \in Nat
  BY HeldType DEF Capture, PrefixTypeOK
<1>3. entries \in Seq(Checkpoint) /\ Apart(entries)
  BY DEF PrefixTypeOK, SlotsApart, Apart
<1> HIDE DEF c
<1>4. /\ snaps \in [Slots -> Seq(Nat)] /\ disp \in [Slots -> Seq(Nat)]
      /\ snaps[c.slot] = c.key
      /\ \A s \in Slots \ {c.slot} : snaps[s] = snapshots[s]
      /\ snapshots[c.slot] # Empty => disp[c.slot] = snapshots[c.slot]
  BY <1>2, WrittenProps
<1>5. order \in Seq(DOMAIN entries) /\ S \in SUBSET DOMAIN entries
      /\ \A i \in DOMAIN entries : entries[i].slot = c.slot => i \in S
  BY <1>2, <1>3, EvictionsProps
<1>6. new \in Checkpoint /\ new.slot = c.slot /\ new.ids = c.key
  BY <1>2 DEF Checkpoint
<1> HIDE DEF snaps, disp, new
<1>7. /\ rest \in Seq(Checkpoint) /\ Apart(rest)
      /\ \A k \in DOMAIN rest : \E i \in DOMAIN entries \ S : rest[k] = entries[i]
  <2> HIDE DEF S
  <2> QED BY <1>3, EraseProps
<1>8. \A i \in DOMAIN entries : /\ entries[i].slot \in Slots /\ entries[i].ids # Empty
                                /\ snapshots[entries[i].slot] = entries[i].ids
  BY <1>3, EntryType DEF PayloadMatchesKey, PrefixTypeOK
<1>9. \A k \in DOMAIN rest : rest[k].slot # c.slot
  BY <1>5, <1>7
<1> HIDE DEF rest
<1>10. /\ landed \in Seq(Checkpoint) /\ Apart(landed)
       /\ DOMAIN landed = DOMAIN rest \cup {Len(rest) + 1}
       /\ \A i \in DOMAIN rest : landed[i] = rest[i]
       /\ landed[Len(rest) + 1] = new
  BY <1>6, <1>7, <1>9, AppendProps
<1>11. \A i \in DOMAIN landed :
         \/ landed[i] = new
         \/ \E j \in DOMAIN entries \ S : landed[i] = entries[j]
  BY <1>7, <1>10
<1>12. drop \in SUBSET DOMAIN landed
  BY DEF pruned, superseded_entries
<1> HIDE DEF landed, drop
<1>13. /\ entries' \in Seq(Checkpoint) /\ Apart(entries')
       /\ \A k \in DOMAIN entries' : \E i \in DOMAIN landed \ drop :
            SameCheckpoint(entries'[k], landed[i])
  <2>1. /\ prune_superseded_ancestors(landed, c.key) \in Seq(Checkpoint)
        /\ Apart(prune_superseded_ancestors(landed, c.key))
        /\ \A k \in DOMAIN prune_superseded_ancestors(landed, c.key) :
             \E i \in DOMAIN landed \ pruned(landed, c.key).drop :
               SameCheckpoint(prune_superseded_ancestors(landed, c.key)[k], landed[i])
    BY <1>10, PruneProps
  <2> QED BY <1>1, <2>1 DEF drop
<1>14. /\ \A s \in detached : \E j \in S : s = entries[j].slot
       /\ \A s \in discarded(gone, snaps) : \E j \in S : s = entries[j].slot
       /\ \A s \in discarded(behind, snaps) : \E j \in drop : s = landed[j].slot
  <2>1. \A k \in worth : order[k] \in S
    BY <1>5 DEF Range
  <2> HIDE DEF S, order, worth
  <2>2. \A s \in detached : \E j \in S : s = entries[j].slot
    BY <2>1
  <2> QED BY <2>2 DEF discarded
<1> HIDE DEF S, gone, behind, detached, worth
<1>15. /\ snapshots' \in [Slots -> Seq(Nat)] /\ displaced' \in [Slots -> Seq(Nat)]
       /\ \A s \in Slots \ freed : snapshots'[s] = snaps[s]
  <2>1. Empty \in Seq(Nat)
    BY DEF Empty
  <2> HIDE DEF freed
  <2> QED BY <1>1, <1>4, <2>1
<1>16. \A i \in DOMAIN landed \ drop : snapshots'[landed[i].slot] = landed[i].ids
  <2> SUFFICES ASSUME NEW i \in DOMAIN landed \ drop
               PROVE  snapshots'[landed[i].slot] = landed[i].ids
    OBVIOUS
  <2>1. CASE landed[i] = new
    BY <1>2, <1>4, <1>6, <1>15, <2>1
  <2>2. CASE \E j \in DOMAIN entries \ S : landed[i] = entries[j]
    <3>1. PICK j \in DOMAIN entries \ S : landed[i] = entries[j]
      BY <2>2
    <3>2. entries[j].slot \in Slots \ {c.slot}
      BY <1>5, <1>8
    <3>3. \A m \in S : entries[m].slot # entries[j].slot
      BY <1>3, <1>5 DEF Apart
    <3>4. \A m \in drop : landed[m].slot # entries[j].slot
      BY <1>10, <1>12, <3>1 DEF Apart
    <3>5. entries[j].slot \notin freed
      BY <1>14, <3>3, <3>4
    <3>6. snapshots'[entries[j].slot] = snapshots[entries[j].slot]
      BY <1>4, <1>15, <3>2, <3>5
    <3> QED BY <1>8, <3>1, <3>6
  <2> QED BY <1>11, <2>1, <2>2
<1>17. \A k \in DOMAIN entries' :
         /\ snapshots'[entries'[k].slot] = entries'[k].ids
         /\ \/ \E i \in DOMAIN entries : SameCheckpoint(entries'[k], entries[i])
            \/ entries'[k].slot = c.slot /\ entries'[k].ids = c.key
  <2> SUFFICES ASSUME NEW k \in DOMAIN entries'
               PROVE  /\ snapshots'[entries'[k].slot] = entries'[k].ids
                      /\ \/ \E i \in DOMAIN entries : SameCheckpoint(entries'[k], entries[i])
                         \/ entries'[k].slot = c.slot /\ entries'[k].ids = c.key
    OBVIOUS
  <2>1. PICK i \in DOMAIN landed \ drop : SameCheckpoint(entries'[k], landed[i])
    BY <1>13
  <2>2. snapshots'[entries'[k].slot] = entries'[k].ids
    BY <1>16, <2>1 DEF SameCheckpoint
  <2>3. CASE landed[i] = new
    BY <1>6, <2>1, <2>2, <2>3 DEF SameCheckpoint
  <2>4. CASE \E j \in DOMAIN entries \ S : landed[i] = entries[j]
    BY <2>1, <2>2, <2>4 DEF SameCheckpoint
  <2> QED BY <1>11, <2>3, <2>4
<1>18. \A h \in handed' : h[1] = h[2]
  <2>1. \A k \in DOMAIN order : order[k] \in DOMAIN entries
    BY <1>5
  <2>2. \A i \in DOMAIN entries : payload(i) = entries[i].ids
    BY PayloadFound DEF c, snaps, disp
  <2> HIDE DEF order, payload
  <2> QED BY <1>1, <2>1, <2>2
<1> QED BY <1>13, <1>15, <1>17, <1>18 DEF c

(* Prefixes of prefixes. *)
LEMMA PrefixProps ==
  ASSUME NEW s \in Seq(Nat), NEW t \in Seq(Nat), NEW u \in Seq(Nat)
  PROVE  /\ IsPrefix(s, s)
         /\ IsPrefix(s, t) /\ IsPrefix(t, u) => IsPrefix(s, u)
         /\ IsStrictPrefix(s, t) => IsPrefix(s, t) /\ Len(s) < Len(t)
<1> DEFINE Along(x, y) == Len(x) <= Len(y) /\ \A k \in 1 .. Len(x) : x[k] = y[k]
<1>1. ASSUME NEW x \in Seq(Nat), NEW y \in Seq(Nat) PROVE IsPrefix(x, y) <=> Along(x, y)
  <2>1. Len(x) \in Nat /\ Len(y) \in Nat
    OBVIOUS
  <2>2. SubSeq(x, 1, Len(x)) = [k \in 1 .. Len(x) |-> x[k]]
    BY <2>1 DEF SubSeq
  <2>3. SubSeq(y, 1, Len(x)) = [k \in 1 .. Len(x) |-> y[k]]
    BY <2>1 DEF SubSeq
  <2>4. [k \in 1 .. Len(x) |-> x[k]] = [k \in 1 .. Len(x) |-> y[k]]
          <=> \A k \in 1 .. Len(x) : x[k] = y[k]
    <3> DEFINE f == [k \in 1 .. Len(x) |-> x[k]]
               g == [k \in 1 .. Len(x) |-> y[k]]
    <3>1. /\ DOMAIN f = 1 .. Len(x) /\ DOMAIN g = 1 .. Len(x)
          /\ \A k \in 1 .. Len(x) : f[k] = x[k] /\ g[k] = y[k]
          /\ f = [k \in DOMAIN f |-> f[k]] /\ g = [k \in DOMAIN g |-> g[k]]
      OBVIOUS
    <3> HIDE DEF f, g
    <3>2. f = g <=> \A k \in 1 .. Len(x) : x[k] = y[k]
      BY <3>1
    <3> QED BY <3>2 DEF f, g
  <2> QED BY <2>2, <2>3, <2>4 DEF IsPrefix
<1>2. Len(s) \in Nat /\ Len(t) \in Nat /\ Len(u) \in Nat
  OBVIOUS
<1>3. IsPrefix(s, s)
  BY <1>1, <1>2
<1>4. IsPrefix(s, t) /\ IsPrefix(t, u) => IsPrefix(s, u)
  BY <1>1, <1>2
<1>5. ASSUME IsStrictPrefix(s, t) PROVE IsPrefix(s, t) /\ Len(s) < Len(t)
  <2>1. IsPrefix(s, t) /\ s # t
    BY <1>5 DEF IsStrictPrefix
  <2>2. Len(s) # Len(t)
    <3> SUFFICES ASSUME Len(s) = Len(t) PROVE s = t
      BY <2>1
    <3>1. \A k \in 1 .. Len(s) : s[k] = t[k]
      BY <1>1, <2>1
    <3> QED BY <3>1, SeqEqual
  <2> QED BY <1>1, <1>2, <2>1, <2>2
<1> QED BY <1>3, <1>4, <1>5

(* What is evicted by a commit goes to the disk, or lives on in something  *)
(* deeper, or was an edit backup of something kept from the disk. *)
LEMMA SavedReachable ==
  ASSUME PrefixInv, NEW r \in Requests, captured_saved(r), NEW i \in DOMAIN entries,
         entries[i].disk_key
  PROVE  \/ \E k \in DOMAIN entries' : IsPrefix(entries[i].ids, entries'[k].ids)
         \/ \E h \in handed' : IsPrefix(entries[i].ids, h[1])
         \/ /\ entries[i].edit_backup
            /\ \E j \in DOMAIN entries :
                 ~ entries[j].disk_key /\ IsStrictPrefix(entries[i].ids, entries[j].ids)
<1> DEFINE c == captures[r]
           w == written(c)
           order == evictions(entries, c)
           S == Range(order)
           new == [ids |-> c.key, slot |-> c.slot, protect |-> c.protect,
                   bytes |-> estimate_bytes(Len(c.key)), edit_backup |-> FALSE,
                   disk_key |-> Disk /\ live[r].full]
           rest == erase(entries, S)
           landed == Append(rest, new)
           drop == pruned(landed, c.key).drop
           payload(j) == evicted_payload(entries[j], c, w.snaps, w.disp)
           gone(k) == {order[m] : m \in 1 .. k - 1}
<1>1. r \in Held(captures) /\ commit(r, w.snaps, w.disp)
  BY DEF captured_saved, Held
<1>2. /\ entries' = prune_superseded_ancestors(landed, c.key)
      /\ handed' = {<<entries[order[k]].ids, payload(order[k])>> :
                      k \in {k \in DOMAIN order : worth_writing(entries, order, k)
                                                  /\ payload(order[k]) # Empty}}
  BY <1>1 DEF commit
<1>3. /\ c \in Capture /\ c.slot \in Slots /\ c.key \in Seq(Nat) /\ c.protect \in BOOLEAN
      /\ estimate_bytes(Len(c.key)) \in Nat
  BY <1>1, HeldType DEF Capture, PrefixInv, PrefixTypeOK
<1>4. entries \in Seq(Checkpoint) /\ \A j \in DOMAIN entries : entries[j].ids \in Seq(Nat)
  BY EntryType DEF PrefixInv, PrefixTypeOK
<1>5. \A j \in DOMAIN entries : payload(j) = entries[j].ids /\ payload(j) # Empty
  BY <1>1, PayloadFound
<1>6. new \in Checkpoint /\ new.ids = c.key
  BY <1>3 DEF Checkpoint
<1> HIDE DEF c, w, payload
<1> HIDE DEF new
<1>7. order \in Seq(DOMAIN entries)
  <2>1. entries \in Seq(Checkpoint) /\ c \in Capture
    BY <1>3, <1>4
  <2> QED BY <2>1, EvictionsProps
<1>8. /\ landed \in Seq(Checkpoint)
      /\ \A j \in DOMAIN entries \ S : \E k \in DOMAIN landed : landed[k] = entries[j]
      /\ \E k \in DOMAIN landed : landed[k] = new
  <2> HIDE DEF S
  <2>1. /\ rest \in Seq(Checkpoint)
        /\ \A j \in DOMAIN entries \ S : \E k \in DOMAIN rest : rest[k] = entries[j]
    <3> DEFINE es == entries
    <3>1. es \in Seq(Checkpoint) /\ rest = erase(es, S)
      BY <1>4
    <3>2. /\ erase(es, S) \in Seq(Checkpoint)
          /\ \A j \in DOMAIN es \ S : \E k \in DOMAIN erase(es, S) : erase(es, S)[k] = es[j]
      <4> HIDE DEF es, rest
      <4> QED BY <3>1, EraseProps
    <3> HIDE DEF rest
    <3> QED BY <3>1, <3>2
  <2> HIDE DEF rest
  <2>2. /\ landed \in Seq(Checkpoint) /\ DOMAIN landed = DOMAIN rest \cup {Len(rest) + 1}
        /\ \A k \in DOMAIN rest : landed[k] = rest[k]
        /\ landed[Len(rest) + 1] = new
    BY <1>6, <2>1, AppendProps
  <2> HIDE DEF landed
  <2> QED BY <2>1, <2>2
<1>9. \A k \in drop : IsStrictPrefix(landed[k].ids, c.key)
  <2> HIDE DEF landed
  <2> QED BY DEF pruned, superseded_entries
<1> HIDE DEF landed, drop, rest
<1>10. \A k \in DOMAIN landed \ drop : \E m \in DOMAIN entries' : entries'[m].ids = landed[k].ids
  BY <1>2, <1>8, PruneProps DEF drop, SameCheckpoint
<1>11. \E m \in DOMAIN entries' : entries'[m].ids = c.key
  <2>1. PICK k \in DOMAIN landed : landed[k] = new
    BY <1>8
  <2>2. k \notin drop
    BY <1>6, <1>9, <2>1 DEF IsStrictPrefix
  <2> QED BY <1>6, <1>10, <2>1, <2>2
<1>12. ASSUME NEW j \in DOMAIN entries \ S
       PROVE  \E m \in DOMAIN entries' : IsPrefix(entries[j].ids, entries'[m].ids)
  <2>1. PICK k \in DOMAIN landed : landed[k] = entries[j]
    BY <1>8
  <2>2. CASE k \in drop
    <3>1. IsPrefix(entries[j].ids, c.key)
      BY <1>9, <2>1, <2>2 DEF IsStrictPrefix
    <3> QED BY <1>11, <3>1
  <2>3. CASE k \notin drop
    <3>1. IsPrefix(entries[j].ids, entries[j].ids)
      BY <1>4, PrefixProps
    <3>2. \E m \in DOMAIN entries' : entries'[m].ids = entries[j].ids
      BY <1>10, <2>1, <2>3
    <3> QED BY <3>1, <3>2
  <2> QED BY <2>2, <2>3
<1>13. ASSUME NEW k \in DOMAIN order, worth_writing(entries, order, k)
       PROVE  \E h \in handed' : h[1] = entries[order[k]].ids
  <2>1. order[k] \in DOMAIN entries
    BY <1>7
  <2>2. payload(order[k]) # Empty
    BY <1>5, <2>1
  <2> HIDE DEF order
  <2>3. <<entries[order[k]].ids, payload(order[k])>> \in handed'
    BY <1>2, <1>13, <2>2
  <2> QED BY <2>3
<1>14. ASSUME NEW j \in DOMAIN entries, entries[j].disk_key, NEW k \in DOMAIN order,
              order[k] = j, ~ worth_writing(entries, order, k)
       PROVE  /\ entries[j].edit_backup
              /\ \E m \in DOMAIN entries \ gone(k) : IsStrictPrefix(entries[j].ids, entries[m].ids)
  <2>1. Disk
    <3>1. entries[j] \in Checkpoint
      BY <1>4
    <3> QED BY <1>14, <3>1 DEF Checkpoint
  <2> HIDE DEF order
  <2> QED BY <1>14, <2>1 DEF worth_writing
<1>15. CASE i \notin S
  BY <1>12, <1>15
<1>16. CASE i \in S
  <2>1. PICK k \in DOMAIN order : order[k] = i
    BY <1>16 DEF Range
  <2>2. CASE worth_writing(entries, order, k)
    <3>1. IsPrefix(entries[i].ids, entries[i].ids)
      BY <1>4, PrefixProps
    <3> HIDE DEF order
    <3> QED BY <1>13, <2>1, <2>2, <3>1
  <2>3. CASE ~ worth_writing(entries, order, k)
    <3> DEFINE J == {m \in DOMAIN entries \ gone(k) : IsStrictPrefix(entries[i].ids, entries[m].ids)}
    <3>1. entries[i].edit_backup /\ J # {} /\ J \in SUBSET DOMAIN entries
      <4> HIDE DEF order
      <4> QED BY <1>14, <2>1, <2>3
    <3> HIDE DEF J
    <3>2. \A j \in J : /\ j \in DOMAIN entries /\ j \notin gone(k)
                     /\ IsStrictPrefix(entries[i].ids, entries[j].ids)
                     /\ IsPrefix(entries[i].ids, entries[j].ids)
      BY DEF J, IsStrictPrefix
    <3>3. CASE \E j \in J : j \notin S
      <4>1. PICK j \in J : j \notin S
        BY <3>3
      <4>2. PICK m \in DOMAIN entries' : IsPrefix(entries[j].ids, entries'[m].ids)
        BY <1>12, <3>2, <4>1
      <4>3. entries'[m].ids \in Seq(Nat)
        <5>1. entries' \in Seq(Checkpoint)
          BY <1>2, <1>8, PruneProps
        <5> QED BY <5>1, EntryType
      <4>4. IsPrefix(entries[i].ids, entries'[m].ids)
        BY <1>4, <3>2, <4>2, <4>3, PrefixProps
      <4> QED BY <4>4
    <3>4. CASE \A j \in J : j \in S
      <4> DEFINE L == {l \in DOMAIN order : order[l] \in J}
      <4>1. \A j \in J : \E l \in L : order[l] = j
        BY <3>4 DEF Range
      <4>2. Len(order) \in Nat /\ DOMAIN order = 1 .. Len(order)
        <5> DEFINE C == DOMAIN entries
        <5>1. order \in Seq(C)
          BY <1>7
        <5> HIDE DEF C, order
        <5> QED BY <5>1
      <4> HIDE DEF order
      <4>3. L \in SUBSET Nat /\ L # {} /\ \A l \in L : l <= Len(order)
        BY <3>1, <4>1, <4>2
      <4>4. PICK l \in L : \A m \in L : m <= l
        BY <4>2, <4>3, GreatestNat
      <4> DEFINE j == order[l]
      <4>5. l \in DOMAIN order /\ j \in J
        OBVIOUS
      <4>6. CASE ~ entries[j].disk_key
        BY <3>1, <3>2, <4>5, <4>6
      <4>7. CASE worth_writing(entries, order, l)
        BY <1>13, <3>2, <4>5, <4>7
      <4>8. CASE entries[j].disk_key /\ ~ worth_writing(entries, order, l)
        <5>1. PICK m \in DOMAIN entries \ gone(l) : IsStrictPrefix(entries[j].ids, entries[m].ids)
          BY <1>14, <3>2, <4>5, <4>8
        <5>2. k <= l
          BY <3>2, <4>2, <4>5
        <5>3. m \notin gone(k)
          BY <4>2, <5>1, <5>2
        <5>4. IsStrictPrefix(entries[i].ids, entries[m].ids)
          <6>1. /\ entries[i].ids \in Seq(Nat) /\ entries[j].ids \in Seq(Nat)
                /\ entries[m].ids \in Seq(Nat)
            BY <1>4, <3>2, <4>5
          <6>2. /\ IsPrefix(entries[j].ids, entries[m].ids)
                /\ Len(entries[i].ids) < Len(entries[j].ids)
                /\ Len(entries[j].ids) < Len(entries[m].ids)
            BY <3>2, <4>5, <5>1, <6>1, PrefixProps
          <6>3. IsPrefix(entries[i].ids, entries[m].ids)
            BY <3>2, <4>5, <6>1, <6>2, PrefixProps
          <6>4. /\ Len(entries[i].ids) \in Nat /\ Len(entries[j].ids) \in Nat
                /\ Len(entries[m].ids) \in Nat
            BY <6>1
          <6>5. entries[i].ids # entries[m].ids
            BY <6>2, <6>4
          <6> QED BY <6>3, <6>5 DEF IsStrictPrefix
        <5>5. m \in J
          BY <5>1, <5>3, <5>4 DEF J
        <5>6. PICK n \in L : order[n] = m
          BY <4>1, <5>5
        <5>7. n = l
          <6>1. l <= n
            BY <4>2, <5>1, <5>6
          <6> QED BY <4>3, <4>4, <5>6, <6>1
        <5> QED BY <5>1, <5>6, <5>7 DEF IsStrictPrefix
      <4> QED BY <4>6, <4>7, <4>8
    <3> QED BY <3>3, <3>4
  <2> QED BY <2>2, <2>3
<1> QED BY <1>15, <1>16

LEMMA StepSaved ==
  ASSUME PrefixInv, NEW r \in Requests, captured_saved(r)
  PROVE  PrefixInv'
<1> USE DEF PrefixInv
<1>1. /\ r \in Held(captures) /\ captures' = [captures EXCEPT ![r] = NoCapture]
      /\ live' = live /\ next_slot' = next_slot
      /\ commit(r, written(captures[r]).snaps, written(captures[r]).disp)
  BY DEF captured_saved, Held
<1>2. /\ entries' \in Seq(Checkpoint) /\ Apart(entries')
      /\ snapshots' \in [Slots -> Seq(Nat)] /\ displaced' \in [Slots -> Seq(Nat)]
      /\ \A k \in DOMAIN entries' :
           /\ snapshots'[entries'[k].slot] = entries'[k].ids
           /\ \/ \E i \in DOMAIN entries : SameCheckpoint(entries'[k], entries[i])
              \/ entries'[k].slot = captures[r].slot /\ entries'[k].ids = captures[r].key
      /\ \A h \in handed' : h[1] = h[2]
  BY <1>1, CommitProps
<1>3. PrefixTypeOK'
  <2>1. captures[r].key # Empty /\ \A i \in DOMAIN entries : entries[i].ids # Empty
    BY <1>1 DEF PrefixTypeOK
  <2>2. \A k \in DOMAIN entries' : entries'[k].ids # Empty
    BY <1>2, <2>1 DEF SameCheckpoint
  <2> QED BY <1>1, <1>2, <2>2, EndCapture DEF PrefixTypeOK
<1>4. SlotsApart' /\ CapturesLive' /\ PayloadMatchesKey'
  BY <1>1, <1>2, EndCapture DEF SlotsApart, Apart, CapturesLive, PayloadMatchesKey
<1>5. CapturesExclusive'
  BY <1>1, <1>2, EndCapture, FewerCaptures
<1> QED BY <1>3, <1>4, <1>5

LEMMA PrefixNext == PrefixInv /\ [Next]_vars => PrefixInv'
<1> SUFFICES ASSUME PrefixInv, [Next]_vars PROVE PrefixInv'
  OBVIOUS
<1>1. CASE UNCHANGED vars
  <2>1. /\ entries' = entries /\ captures' = captures /\ live' = live
        /\ next_slot' = next_slot /\ snapshots' = snapshots
        /\ displaced' = displaced /\ handed' = handed
    BY <1>1 DEF vars
  <2>2. PrefixTypeOK' /\ SlotsApart' /\ CapturesLive' /\ PayloadMatchesKey'
    BY <2>1 DEF PrefixInv, PrefixTypeOK, SlotsApart, CapturesLive, PayloadMatchesKey
  <2>3. CapturesExclusive'
    BY <2>1 DEF PrefixInv, CapturesExclusive
  <2> QED BY <2>2, <2>3 DEF PrefixInv
<1>2. CASE Next
  <2>1. CASE \E r \in Requests, q \in Queries : admit(r, q)
    BY <2>1, StepAdmit
  <2>2. CASE \E r \in Requests : captured_saved(r)
    BY <2>2, StepSaved
  <2>3. CASE \E r \in Requests : captured_failed(r)
    BY <2>3, StepFailed
  <2>4. CASE \E r \in Requests : retire_slot(r)
    BY <2>4, StepRetire
  <2>5. CASE \E r \in Requests, wrote \in BOOLEAN : captured_mismatched(r, wrote)
    BY <2>5, StepMismatched
  <2>6. CASE \E limit \in 0 .. cap : flush(limit)
    BY <2>6, StepFlush
  <2> QED BY <1>2, <2>1, <2>2, <2>3, <2>4, <2>5, <2>6 DEF Next
<1> QED BY <1>1, <1>2

-----------------------------------------------------------------------------

(* In every reachable state each slot belongs to one checkpoint, each      *)
(* capture to a live request, payloads match the keys they are filed and   *)
(* written under, and no capture in flight crosses another or the index    *)
(* (KvCache::plan, admitted, captured, PrefixCaptureTxn::resolve). *)
THEOREM PrefixInvariant == Spec => []PrefixInv
<1>1. Init => PrefixInv
  BY PrefixInit
<1>2. PrefixInv /\ [Next]_vars => PrefixInv'
  BY PrefixNext
<1> QED BY <1>1, <1>2, PTL DEF Spec

(* A payload goes by no name but its own: what the index offers for a      *)
(* restore, and what the disk writer is handed under a key, is exactly the *)
(* prefix it is filed under, whatever admissions, captures, evictions and  *)
(* lost events fell in between (admit_with_prefix, take_displaced). *)
THEOREM PayloadsMatch == Spec => []PayloadMatchesKey
<1>1. PrefixInv => PayloadMatchesKey
  BY DEF PrefixInv
<1> QED BY <1>1, PrefixInvariant, PTL

(* However many captures are in flight, no two write one slot or one key,  *)
(* none writes or evicts what another plans to evict, and a slot about to  *)
(* be written holds no checkpoint but the promised victim                  *)
(* (reserve_inline_snap, slot_reserved). *)
THEOREM CapturesApart == Spec => []CapturesExclusive
<1>1. PrefixInv => CapturesExclusive
  BY DEF PrefixInv
<1> QED BY <1>1, PrefixInvariant, PTL

(* A checkpoint that a capture evicts goes to the disk, or something       *)
(* deeper of its conversation stays in RAM or goes there in its place,     *)
(* whichever order the evictions take (commit_inline_reservation,          *)
(* persist_on_evict, prune_superseded_ancestors); only an edit backup may  *)
(* be lost behind a checkpoint that is kept out of the disk cache.         *)
THEOREM EvictedStillReachable == Spec => EvictedStaysReachable
<1> DEFINE Kept(i) ==
             LET still == {entries'[j].ids : j \in DOMAIN entries'} \cup {h[1] : h \in handed'}
             IN \/ ~entries[i].disk_key
                \/ \E ids \in still : IsPrefix(entries[i].ids, ids)
                \/ /\ entries[i].edit_backup
                   /\ \E j \in DOMAIN entries :
                        ~entries[j].disk_key /\ IsStrictPrefix(entries[i].ids, entries[j].ids)
                \/ ~\E r \in Requests : captured_saved(r)
<1>1. PrefixInv /\ [Next]_vars => [\A i \in DOMAIN entries : Kept(i)]_vars
  <2> SUFFICES ASSUME PrefixInv, NEW i \in DOMAIN entries, entries[i].disk_key,
                      NEW r \in Requests, captured_saved(r)
               PROVE  Kept(i)
    OBVIOUS
  <2>1. \/ \E k \in DOMAIN entries' : IsPrefix(entries[i].ids, entries'[k].ids)
        \/ \E h \in handed' : IsPrefix(entries[i].ids, h[1])
        \/ /\ entries[i].edit_backup
           /\ \E j \in DOMAIN entries :
                ~ entries[j].disk_key /\ IsStrictPrefix(entries[i].ids, entries[j].ids)
    BY SavedReachable
  <2> QED BY <2>1
<1> QED BY <1>1, PrefixInvariant, PTL DEF Spec, EvictedStaysReachable

=============================================================================
