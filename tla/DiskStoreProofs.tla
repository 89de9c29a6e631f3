--------------------------- MODULE DiskStoreProofs ---------------------------
(***************************************************************************)
(* Proofs about DiskStore: the index, the directory and the writer thread  *)
(* agree through every step, so that a load returns its own snapshot, what *)
(* was published survives a crash, the byte counts are exact and within    *)
(* the budget, and nobody sleeps through the last write.  The invariant is *)
(* StoreInv.  A helper is an operator from one store to another, and each  *)
(* has a lemma per part of the invariant; the actions combine them.        *)
(* The last part is about DiskRead: the read that an admission waits for   *)
(* belongs to the request at the head of the line, for every set of        *)
(* requests, prompts and addresses and any contents of the stores.         *)
(***************************************************************************)
EXTENDS DiskStore, DiskRead, ListProofs

-----------------------------------------------------------------------------
(* Sums.                                                                   *)

(* The bytes of two disjoint sets add up. *)
LEMMA TotalSplit ==
  ASSUME NEW S, IsFiniteSet(S), NEW T \in SUBSET S, NEW f, \A p \in S : f[p] \in Nat
  PROVE  Total(f, S) = Total(f, T) + Total(f, S \ T)
<1> DEFINE g == [p \in S |-> IF p \in T THEN f[p] ELSE 0]
           h == [p \in S |-> IF p \in T THEN 0 ELSE f[p]]
<1>1. Total(f, S) = Total(g, S) + Total(h, S)
  <2>1. \A p \in S : g[p] \in Nat /\ h[p] \in Nat /\ f[p] = g[p] + h[p]
    OBVIOUS
  <2> HIDE DEF g, h
  <2> QED BY <2>1, TotalAdd
<1>2. Total(g, S) = Total(f, T)
  <2>1. \A p \in S \ T : g[p] = 0
    OBVIOUS
  <2>2. \A p \in T : g[p] = f[p]
    OBVIOUS
  <2> HIDE DEF g
  <2>3. Total(g, S) = Total(g, T)
    BY <2>1, TotalSupport
  <2> QED BY <2>2, <2>3, TotalSame
<1>3. Total(h, S) = Total(f, S \ T)
  <2>1. \A p \in S \ (S \ T) : h[p] = 0
    OBVIOUS
  <2>2. \A p \in S \ T : h[p] = f[p]
    OBVIOUS
  <2> HIDE DEF h
  <2>3. Total(h, S) = Total(h, S \ T)
    BY <2>1, TotalSupport
  <2> QED BY <2>2, <2>3, TotalSame
<1> QED BY <1>1, <1>2, <1>3

-----------------------------------------------------------------------------
(* The index.                                                              *)

LEMMA Index ==
  ASSUME NEW D, D.entries \in Seq(Entry)
  PROVE  /\ Positions(D) = 1 .. Len(D.entries) /\ Len(D.entries) \in Nat
         /\ IsFiniteSet(Positions(D)) /\ Positions(D) \in SUBSET Nat
         /\ \A i \in Positions(D) : D.entries[i] \in Entry /\ Size[D.entries[i].key] \in Nat
         /\ Held(D) \in SUBSET Entry
         /\ \A e \in Held(D) : e.key \in Keys /\ Hash[e.key] \in Names
<1>1. Positions(D) = 1 .. Len(D.entries) /\ Len(D.entries) \in Nat
  BY DEF Positions
<1>2. IsFiniteSet(Positions(D)) /\ Positions(D) \in SUBSET Nat
  BY <1>1, FS_Interval
<1>3. \A i \in Positions(D) : D.entries[i] \in Entry
  BY <1>1
<1>4. \A i \in Positions(D) : Size[D.entries[i].key] \in Nat
  BY <1>3, StoreAssumption DEF Entry
<1>5. Held(D) \in SUBSET Entry
  BY <1>3 DEF Held
<1>6. \A e \in Entry : e.key \in Keys /\ Hash[e.key] \in Names
  BY DEF Entry, Names
<1> QED BY <1>1, <1>2, <1>3, <1>4, <1>5, <1>6

LEMMA BytesNat ==
  ASSUME NEW D, D.entries \in Seq(Entry), NEW I \in SUBSET Positions(D)
  PROVE  Bytes(D, I) \in Nat
<1> DEFINE f == [i \in I |-> Size[D.entries[i].key]]
<1>1. IsFiniteSet(I) /\ \A i \in I : f[i] \in Nat
  BY Index, FS_Subset
<1> HIDE DEF f
<1> QED BY <1>1, UnitsFinite DEF Bytes, f

LEMMA BytesSplit ==
  ASSUME NEW D, D.entries \in Seq(Entry), NEW I \in SUBSET Positions(D), NEW J \in SUBSET I
  PROVE  Bytes(D, I) = Bytes(D, J) + Bytes(D, I \ J)
<1> DEFINE f == [i \in I |-> Size[D.entries[i].key]]
           g == [i \in J |-> Size[D.entries[i].key]]
           h == [i \in I \ J |-> Size[D.entries[i].key]]
<1>1. IsFiniteSet(I) /\ \A i \in I : f[i] \in Nat
  BY Index, FS_Subset
<1>2. (\A i \in J : g[i] = f[i]) /\ \A i \in I \ J : h[i] = f[i]
  OBVIOUS
<1> HIDE DEF f, g, h
<1>3. Total(f, I) = Total(f, J) + Total(f, I \ J)
  BY <1>1, TotalSplit
<1>4. Total(g, J) = Total(f, J) /\ Total(h, I \ J) = Total(f, I \ J)
  BY <1>2, TotalSame
<1> QED BY <1>3, <1>4 DEF Bytes, f, g, h

LEMMA BytesNone ==
  ASSUME NEW D
  PROVE  Bytes(D, {}) = 0
<1>1. \A f : Units(f, {}) = {}
  BY DEF Units
<1> QED BY <1>1, FS_EmptySet DEF Bytes, Total

(* The same files counted in another index. *)
LEMMA BytesMoved ==
  ASSUME NEW D, D.entries \in Seq(Entry), NEW E, E.entries \in Seq(Entry),
         NEW J \in SUBSET Positions(E), NEW a,
         \A k \in J : Size[E.entries[k].key] = Size[D.entries[a[k]].key],
         \A k, m \in J : a[k] = a[m] => k = m
  PROVE  Bytes(E, J) = Bytes(D, {a[k] : k \in J})
<1> DEFINE T == {a[k] : k \in J}
           f == [k \in J |-> Size[E.entries[k].key]]
           g == [i \in T |-> Size[D.entries[i].key]]
<1>1. IsFiniteSet(J) /\ \A k \in J : f[k] \in Nat
  BY Index, FS_Subset
<1>2. \A k \in J : g[a[k]] = f[k]
  OBVIOUS
<1>3. \A k, m \in J : a[k] = a[m] => k = m
  OBVIOUS
<1> HIDE DEF f, g
<1>4. Total(g, {a[k] : k \in J}) = Total(f, J)
  BY ONLY <1>1, <1>2, <1>3, TotalReindex
<1>5. Total(g, T) = Total(f, J)
  BY <1>4
<1> QED BY <1>5 DEF Bytes, f, g

-----------------------------------------------------------------------------
(* remove_entries.                                                         *)

(* Entries are told apart by their ids and by their files. *)
LEMMA HeldDistinct ==
  ASSUME NEW D, D.entries \in Seq(Entry), Distinct(D)
  PROVE  \A d, e \in Held(D) : d.id = e.id \/ Hash[d.key] = Hash[e.key] => d = e
BY DEF Held, Distinct

LEMMA RemoveFields ==
  ASSUME NEW D \in Store, NEW I
  PROVE  LET E == remove_entries(D, I)
         IN  /\ E.entries = Without(D.entries, I)
             /\ E.queue = Without(D.queue, queued(D, I))
             /\ E.total_bytes = Less(D.total_bytes, Bytes(D, I))
             /\ E.pending_bytes = Less(D.pending_bytes, Bytes(D, {i \in I : D.entries[i].pending}))
             /\ E.notified = (D.notified \/ I # {})
             /\ /\ E.entries \in Seq(Entry) /\ E.queue \in Seq(Nat)
                /\ E.total_bytes \in Nat /\ E.pending_bytes \in Nat
                => E \in Store
<1> DEFINE taken == unlinked(D, I)
           a == Without(D.entries, I)
           b == Without(D.queue, queued(D, I))
           c == Less(D.total_bytes, Bytes(D, I))
           d == Less(D.pending_bytes, Bytes(D, {i \in I : D.entries[i].pending}))
           f == [n \in Names |-> IF n \in taken THEN None ELSE D.files[n]]
           g == [n \in Names |-> D.stable[n] \cup (IF n \in taken THEN {None} ELSE {})]
           h == D.notified \/ I # {}
<1>1. remove_entries(D, I) =
        [D EXCEPT !.entries = a, !.queue = b, !.total_bytes = c, !.pending_bytes = d,
                  !.files = f, !.stable = g, !.notified = h]
  BY DEF remove_entries
<1>2. /\ f \in [Names -> Contents] /\ g \in [Names -> SUBSET Contents]
      /\ h \in BOOLEAN
  <2>1. D.files \in [Names -> Contents] /\ D.stable \in [Names -> SUBSET Contents]
    BY DEF Store
  <2> QED BY <2>1 DEF Contents
<1> HIDE DEF taken, a, b, c, d, f, g, h
<1> DEFINE E == [D EXCEPT !.entries = a, !.queue = b, !.total_bytes = c, !.pending_bytes = d,
                          !.files = f, !.stable = g, !.notified = h]
<1>3. /\ E.entries = a /\ E.queue = b /\ E.total_bytes = c /\ E.pending_bytes = d
      /\ E.files = f /\ E.stable = g /\ E.notified = h
      /\ E.tmp = D.tmp /\ E.tmp_stable = D.tmp_stable
  BY DEF Store
<1>4. a \in Seq(Entry) /\ b \in Seq(Nat) /\ c \in Nat /\ d \in Nat => E \in Store
  BY <1>2 DEF Store
<1>5. remove_entries(D, I) = E
  BY <1>1
<1> QED BY <1>3, <1>4, <1>5 DEF a, b, c, d, h

LEMMA RemoveFiles ==
  ASSUME NEW D \in Store, NEW I
  PROVE  LET E == remove_entries(D, I)
         IN  /\ E.tmp = D.tmp /\ E.tmp_stable = D.tmp_stable
             /\ \A m \in Names :
                  /\ E.files[m] = IF m \in unlinked(D, I) THEN None ELSE D.files[m]
                  /\ E.stable[m] = D.stable[m] \cup (IF m \in unlinked(D, I) THEN {None} ELSE {})
<1> DEFINE taken == unlinked(D, I)
           a == Without(D.entries, I)
           b == Without(D.queue, queued(D, I))
           c == Less(D.total_bytes, Bytes(D, I))
           d == Less(D.pending_bytes, Bytes(D, {i \in I : D.entries[i].pending}))
           f == [n \in Names |-> IF n \in taken THEN None ELSE D.files[n]]
           g == [n \in Names |-> D.stable[n] \cup (IF n \in taken THEN {None} ELSE {})]
           h == D.notified \/ I # {}
           E == [D EXCEPT !.entries = a, !.queue = b, !.total_bytes = c, !.pending_bytes = d,
                          !.files = f, !.stable = g, !.notified = h]
<1>1. remove_entries(D, I) = E
  BY DEF remove_entries
<1> HIDE DEF taken
<1>2. \A m \in Names : /\ f[m] = IF m \in taken THEN None ELSE D.files[m]
                       /\ g[m] = D.stable[m] \cup (IF m \in taken THEN {None} ELSE {})
  OBVIOUS
<1> HIDE DEF a, b, c, d, f, g, h
<1>3. E.files = f /\ E.stable = g /\ E.tmp = D.tmp /\ E.tmp_stable = D.tmp_stable
  BY DEF Store
<1> HIDE DEF E
<1> QED BY <1>1, <1>2, <1>3 DEF taken

(* What leaves the index is what was at the positions I. *)
LEMMA RemoveHeld ==
  ASSUME NEW D \in Store, Distinct(D), NEW I \in SUBSET Positions(D)
  PROVE  LET E == remove_entries(D, I)
         IN  /\ E.entries \in Seq(Entry) /\ Distinct(E)
             /\ Held(E) = Held(D) \ {D.entries[i] : i \in I}
<1> DEFINE E == remove_entries(D, I)
           u == Without(D.entries, I)
<1>1. D.entries \in Seq(Entry)
  BY DEF Store
<1>2. E.entries = u
  BY RemoveFields
<1>3. u \in Seq(Entry)
  BY <1>1, WithoutProps
<1>4. PICK a : /\ \A k \in DOMAIN u : a[k] \in DOMAIN D.entries \ I /\ u[k] = D.entries[a[k]]
               /\ \A k, m \in DOMAIN u : a[k] = a[m] => k = m
               /\ \A i \in DOMAIN D.entries \ I : \E k \in DOMAIN u : a[k] = i
  <2>1. \E a : StoodAt(a, u, D.entries, I)
    BY <1>1, WithoutProps
  <2> HIDE DEF u
  <2> QED BY <2>1, Zenon DEF StoodAt
<1> HIDE DEF u
<1>5. Distinct(E)
  <2> SUFFICES ASSUME NEW i \in DOMAIN u, NEW j \in DOMAIN u,
                      u[i].id = u[j].id \/ Hash[u[i].key] = Hash[u[j].key]
               PROVE  i = j
    BY <1>2 DEF Distinct, Positions
  <2>1. a[i] = a[j]
    BY <1>4 DEF Distinct, Positions
  <2> QED BY <1>4, <2>1
<1>6. Held(E) = {u[k] : k \in DOMAIN u}
  BY <1>2 DEF Held, Positions
<1>7. \A e \in Held(E) : e \in Held(D) \ {D.entries[i] : i \in I}
  <2> SUFFICES ASSUME NEW k \in DOMAIN u PROVE u[k] \in Held(D) \ {D.entries[i] : i \in I}
    BY <1>6
  <2>1. a[k] \in Positions(D) \ I /\ u[k] = D.entries[a[k]]
    BY <1>4 DEF Positions
  <2>2. \A i \in I : D.entries[i] # D.entries[a[k]]
    BY <2>1 DEF Distinct
  <2> QED BY <2>1, <2>2 DEF Held
<1>8. \A e \in Held(D) \ {D.entries[i] : i \in I} : e \in Held(E)
  <2> SUFFICES ASSUME NEW i \in Positions(D) \ I PROVE D.entries[i] \in Held(E)
    BY DEF Held
  <2>1. PICK k \in DOMAIN u : a[k] = i
    BY <1>4 DEF Positions
  <2> QED BY <1>4, <1>6, <2>1
<1> QED BY <1>2, <1>3, <1>5, <1>7, <1>8

(* Their writes leave the queue. *)
LEMMA RemoveQueue ==
  ASSUME NEW D \in Store, NEW I \in SUBSET Positions(D), IsInjective(D.queue)
  PROVE  LET E == remove_entries(D, I)
         IN  /\ E.queue \in Seq(Nat) /\ IsInjective(E.queue)
             /\ ToSet(E.queue) = ToSet(D.queue) \ {D.entries[i].id : i \in I}
<1> DEFINE E == remove_entries(D, I)
           Q == queued(D, I)
           u == Without(D.queue, Q)
<1>1. D.queue \in Seq(Nat)
  BY DEF Store
<1>2. E.queue = u
  BY RemoveFields
<1>3. u \in Seq(Nat)
  BY <1>1, WithoutProps
<1>4. PICK a : /\ \A k \in DOMAIN u : a[k] \in DOMAIN D.queue \ Q /\ u[k] = D.queue[a[k]]
               /\ \A k, m \in DOMAIN u : a[k] = a[m] => k = m
               /\ \A i \in DOMAIN D.queue \ Q : \E k \in DOMAIN u : a[k] = i
  <2>1. \E a : StoodAt(a, u, D.queue, Q)
    BY <1>1, WithoutProps
  <2> HIDE DEF u, Q
  <2> QED BY <2>1, Zenon DEF StoodAt
<1>5. \A i \in DOMAIN D.queue : i \in Q <=> D.queue[i] \in {D.entries[j].id : j \in I}
  BY DEF queued
<1> HIDE DEF u, Q
<1>6. IsInjective(u)
  BY <1>4 DEF IsInjective
<1>7. ToSet(u) = {u[k] : k \in DOMAIN u} /\ ToSet(D.queue) = {D.queue[i] : i \in DOMAIN D.queue}
  BY DEF ToSet
<1>8. \A x \in ToSet(u) : x \in ToSet(D.queue) \ {D.entries[i].id : i \in I}
  BY <1>4, <1>5, <1>7
<1>9. \A x \in ToSet(D.queue) \ {D.entries[i].id : i \in I} : x \in ToSet(u)
  BY <1>4, <1>5, <1>7
<1> QED BY <1>2, <1>3, <1>6, <1>8, <1>9

(* The counts go down by what left. *)
LEMMA RemoveCounted ==
  ASSUME NEW D \in Store, Distinct(D), Counted(D), NEW I \in SUBSET Positions(D)
  PROVE  LET E == remove_entries(D, I)
         IN  /\ Counted(E)
             /\ E.total_bytes \in Nat /\ E.pending_bytes \in Nat
             /\ E.total_bytes = D.total_bytes - Bytes(D, I)
             /\ E.total_bytes <= D.total_bytes
             /\ I = {} => E.pending_bytes = D.pending_bytes
<1> DEFINE E == remove_entries(D, I)
           P == Positions(D)
           W == {i \in P : D.entries[i].pending}
           V == {i \in I : D.entries[i].pending}
           u == Without(D.entries, I)
           U == {k \in DOMAIN u : u[k].pending}
<1>1. D.entries \in Seq(Entry)
  BY DEF Store
<1>2. /\ E.entries = u
      /\ E.total_bytes = Less(D.total_bytes, Bytes(D, I))
      /\ E.pending_bytes = Less(D.pending_bytes, Bytes(D, V))
  BY RemoveFields
<1>3. u \in Seq(Entry)
  BY <1>1, WithoutProps
<1>4. PICK a : /\ \A k \in DOMAIN u : a[k] \in DOMAIN D.entries \ I /\ u[k] = D.entries[a[k]]
               /\ \A k, m \in DOMAIN u : a[k] = a[m] => k = m
               /\ \A i \in DOMAIN D.entries \ I : \E k \in DOMAIN u : a[k] = i
  <2>1. \E a : StoodAt(a, u, D.entries, I)
    BY <1>1, WithoutProps
  <2> HIDE DEF u
  <2> QED BY <2>1, Zenon DEF StoodAt
<1>5. P = DOMAIN D.entries /\ Positions(E) = DOMAIN u
  BY <1>2 DEF Positions
<1>6. {a[k] : k \in DOMAIN u} = P \ I
  <2> HIDE DEF u, P
  <2> QED BY <1>4, <1>5
<1>7. {a[k] : k \in U} = W \ V
  <2> HIDE DEF u, P
  <2> QED BY <1>4, <1>5
<1> HIDE DEF u, P
<1>8. \A J \in SUBSET DOMAIN u : Bytes(E, J) = Bytes(D, {a[k] : k \in J})
  <2> SUFFICES ASSUME NEW J \in SUBSET DOMAIN u PROVE Bytes(E, J) = Bytes(D, {a[k] : k \in J})
    OBVIOUS
  <2>1. E.entries \in Seq(Entry) /\ J \in SUBSET Positions(E)
    BY <1>2, <1>3, <1>5
  <2>2. /\ \A k \in J : Size[E.entries[k].key] = Size[D.entries[a[k]].key]
        /\ \A k, m \in J : a[k] = a[m] => k = m
    BY <1>2, <1>4
  <2> HIDE DEF E
  <2> QED BY ONLY <1>1, <2>1, <2>2, BytesMoved
<1>9. Bytes(E, DOMAIN u) = Bytes(D, P \ I) /\ Bytes(E, U) = Bytes(D, W \ V)
  <2>1. U \in SUBSET DOMAIN u
    OBVIOUS
  <2> HIDE DEF U, W, V, E
  <2> QED BY <1>6, <1>7, <1>8, <2>1
<1>10. Bytes(D, P) = Bytes(D, I) + Bytes(D, P \ I) /\ Bytes(D, W) = Bytes(D, V) + Bytes(D, W \ V)
  <2>1. V \in SUBSET W /\ W \in SUBSET P
    BY DEF P
  <2>2. P \in SUBSET Positions(D) /\ W \in SUBSET Positions(D)
    BY DEF P
  <2> HIDE DEF V, W, P
  <2> QED BY <1>1, <2>1, <2>2, BytesSplit DEF P
<1>11. /\ Bytes(D, I) \in Nat /\ Bytes(D, P \ I) \in Nat
       /\ Bytes(D, V) \in Nat /\ Bytes(D, W \ V) \in Nat
  <2>1. I \in SUBSET P /\ P \ I \in SUBSET P /\ V \in SUBSET P /\ W \ V \in SUBSET P
    BY DEF P
  <2> HIDE DEF V, W
  <2> QED BY <1>1, <2>1, BytesNat DEF P
<1>12. D.total_bytes = Bytes(D, P) /\ D.pending_bytes = Bytes(D, W)
  BY DEF Counted, P
<1>13. E.total_bytes = Bytes(D, P \ I) /\ E.pending_bytes = Bytes(D, W \ V)
  BY <1>2, <1>10, <1>11, <1>12 DEF Less
<1>14. Counted(E)
  BY <1>2, <1>5, <1>9, <1>13 DEF Counted
<1>15. I = {} => Bytes(D, V) = 0
  BY BytesNone
<1> HIDE DEF V, W
<1> QED BY <1>10, <1>11, <1>12, <1>13, <1>14, <1>15

(* Whoever waits on D still waits on E, or has been told to look again. *)
Undisturbed(D, E) ==
  /\ D.notified => E.notified
  /\ ~ E.notified =>
       /\ D.pending_bytes <= E.pending_bytes
       /\ ToSet(D.queue) \subseteq ToSet(E.queue)
       /\ \A e \in Held(D) : \E f \in Held(E) : f.id = e.id /\ f.key = e.key

LEMMA RemoveIndexed ==
  ASSUME NEW D, NEW w, NEW n, Indexed(D, w, n), w.pc # "renamed", NEW I \in SUBSET Positions(D)
  PROVE  LET E == remove_entries(D, I)
         IN  /\ Indexed(E, w, n) /\ Undisturbed(D, E)
             /\ Held(E) = Held(D) \ {D.entries[i] : i \in I}
             /\ E.total_bytes <= D.total_bytes
             /\ E.total_bytes = D.total_bytes - Bytes(D, I)
<1> DEFINE E == remove_entries(D, I)
           G == {D.entries[i] : i \in I}
<1>1. D \in Store /\ Distinct(D) /\ Counted(D) /\ IsInjective(D.queue)
  BY DEF Indexed, Queued
<1>2. E.entries \in Seq(Entry) /\ Distinct(E) /\ Held(E) = Held(D) \ G
  BY <1>1, RemoveHeld
<1>3. /\ E.queue \in Seq(Nat) /\ IsInjective(E.queue)
      /\ ToSet(E.queue) = ToSet(D.queue) \ {D.entries[i].id : i \in I}
  BY <1>1, RemoveQueue
<1>4. /\ Counted(E) /\ E.total_bytes \in Nat /\ E.pending_bytes \in Nat
      /\ E.total_bytes = D.total_bytes - Bytes(D, I) /\ E.total_bytes <= D.total_bytes
      /\ I = {} => E.pending_bytes = D.pending_bytes
  BY <1>1, RemoveCounted
<1>5. E \in Store /\ E.notified = (D.notified \/ I # {})
  BY <1>1, <1>2, <1>3, <1>4, RemoveFields
<1>6. G \in SUBSET Held(D) /\ {D.entries[i].id : i \in I} = {e.id : e \in G}
  BY DEF Held
<1>7. \A d, e \in Held(D) : d.id = e.id => d = e
  <2>1. D.entries \in Seq(Entry)
    BY <1>1 DEF Store
  <2> QED BY <1>1, <2>1, HeldDistinct
<1>8. D.pending_bytes \in Nat /\ D.notified \in BOOLEAN
  BY <1>1 DEF Store
<1> HIDE DEF E, G
<1>9. Queued(E, w)
  <2>1. ToSet(D.queue) = {e.id : e \in Unwritten(D)} \ {w.job.id}
    BY DEF Indexed, Queued
  <2>2. Unwritten(E) = Unwritten(D) \ G
    BY <1>2 DEF Unwritten
  <2>3. \A e \in Unwritten(D) : e.id \in {g.id : g \in G} => e \in G
    BY <1>6, <1>7 DEF Unwritten
  <2>4. {e.id : e \in Unwritten(E)} = {e.id : e \in Unwritten(D)} \ {g.id : g \in G}
    <3>1. \A x \in {e.id : e \in Unwritten(E)} : x \in {e.id : e \in Unwritten(D)} \ {g.id : g \in G}
      BY <2>2, <2>3
    <3>2. \A x \in {e.id : e \in Unwritten(D)} \ {g.id : g \in G} : x \in {e.id : e \in Unwritten(E)}
      BY <2>2
    <3> QED BY <3>1, <3>2
  <2>5. ToSet(E.queue) = {e.id : e \in Unwritten(E)} \ {w.job.id}
    BY <1>3, <1>6, <2>1, <2>4
  <2> QED BY <1>3, <2>5 DEF Queued
<1>10. Written(E, w)
  BY <1>2 DEF Indexed, Written
<1>11. \A e \in Held(E) : e.id < n
  BY <1>2 DEF Indexed
<1>12. Undisturbed(D, E)
  <2>1. ASSUME ~ E.notified PROVE I = {}
    BY <1>5, <2>1
  <2>2. ASSUME I = {} PROVE G = {} /\ {D.entries[i].id : i \in I} = {}
    BY <2>2 DEF G
  <2>3. D.notified => E.notified
    BY <1>5
  <2>4. ASSUME ~ E.notified
        PROVE  /\ D.pending_bytes <= E.pending_bytes
               /\ ToSet(D.queue) \subseteq ToSet(E.queue)
               /\ Held(E) = Held(D)
    BY <1>2, <1>3, <1>4, <1>8, <2>1, <2>2, <2>4
  <2> QED BY <2>3, <2>4 DEF Undisturbed
<1>13. Indexed(E, w, n)
  BY <1>2, <1>4, <1>5, <1>9, <1>10, <1>11 DEF Indexed
<1> QED BY <1>2, <1>4, <1>12, <1>13 DEF E, G

(* Only names the index gives up lose their file. *)
LEMMA RemoveStored ==
  ASSUME NEW D \in Store, NEW w, Stored(D, w), NEW I
  PROVE  LET E == remove_entries(D, I)
         IN  Stored(E, w) /\ (Whole(D) => Whole(E))
<1> DEFINE E == remove_entries(D, I)
           taken == unlinked(D, I)
<1>1. \A m \in Names :
        /\ E.files[m] = IF m \in taken THEN None ELSE D.files[m]
        /\ E.stable[m] = D.stable[m] \cup (IF m \in taken THEN {None} ELSE {})
  BY RemoveFiles
<1> HIDE DEF E, taken
<1>2. Stored(E, w)
  <2> SUFFICES ASSUME NEW m \in Names
               PROVE  /\ \A f \in E.stable[m] \cup {E.files[m]} : f # None => Hash[f.key] = m
                      /\ E.files[m] # None /\ ~ (w.pc = "renamed" /\ m = Hash[w.job.key]) =>
                           \A g \in E.stable[m] : g # None /\ g.key = E.files[m].key
    BY DEF Stored
  <2>1. CASE m \in taken
    <3>1. E.files[m] = None /\ E.stable[m] = D.stable[m] \cup {None}
      BY <1>1, <2>1
    <3> QED BY <3>1 DEF Stored
  <2>2. CASE m \notin taken
    <3>1. E.files[m] = D.files[m] /\ E.stable[m] = D.stable[m]
      BY <1>1, <2>2
    <3> QED BY <3>1 DEF Stored
  <2> QED BY <2>1, <2>2
<1>3. ASSUME Whole(D) PROVE Whole(E)
  <2> SUFFICES ASSUME NEW m \in Names, NEW f \in E.stable[m] \cup {E.files[m]}, f # None
               PROVE  f.bytes = "whole"
    BY DEF Whole
  <2>1. f \in D.stable[m] \cup {D.files[m]}
    BY <1>1
  <2> QED BY <1>3, <2>1 DEF Whole
<1> QED BY <1>2, <1>3 DEF E

(* Files and entries leave together. *)
LEMMA RemoveTracked ==
  ASSUME NEW D \in Store, Distinct(D), NEW w, Tracked(D, w), w.pc # "renamed",
         NEW I \in SUBSET Positions(D)
  PROVE  Tracked(remove_entries(D, I), w)
<1> DEFINE E == remove_entries(D, I)
           G == {D.entries[i] : i \in I}
           taken == unlinked(D, I)
<1>1. D.entries \in Seq(Entry)
  BY DEF Store
<1>2. Held(E) = Held(D) \ G /\ Held(D) \in SUBSET Entry
  BY <1>1, RemoveHeld, Index
<1>3. \A m \in Names : E.files[m] = IF m \in taken THEN None ELSE D.files[m]
  BY RemoveFiles
<1>4. E.tmp = D.tmp /\ E.tmp_stable = D.tmp_stable
  BY RemoveFiles
<1>5. \A m \in Names : m \in taken <=> \E g \in G : ~ g.pending /\ Hash[g.key] = m
  BY DEF unlinked
<1>6. \A d, e \in Held(D) : Hash[d.key] = Hash[e.key] => d = e
  BY <1>1, HeldDistinct
<1>7. G \in SUBSET Held(D)
  BY DEF Held
<1> HIDE DEF E, G, taken
<1>8. \A e \in Held(D) : Hash[e.key] \in Names
  BY <1>2 DEF Names, Entry
<1>9. \A e \in Held(E) : ~ e.pending => Hash[e.key] \in Names \ taken
  BY <1>2, <1>5, <1>6, <1>7, <1>8
<1>10. Shown(E, w)
  <2> SUFFICES ASSUME NEW m \in Names
               PROVE  E.files[m] # None <=> \E e \in Held(E) : ~ e.pending /\ Hash[e.key] = m
    BY DEF Shown
  <2>1. D.files[m] # None <=> \E e \in Held(D) : ~ e.pending /\ Hash[e.key] = m
    BY DEF Tracked, Shown
  <2>2. ASSUME m \in taken PROVE E.files[m] = None /\ ~ \E e \in Held(E) : ~ e.pending /\ Hash[e.key] = m
    BY <1>3, <1>9, <2>2
  <2>3. ASSUME m \notin taken PROVE \A e \in Held(D) : ~ e.pending /\ Hash[e.key] = m => e \in Held(E)
    BY <1>2, <1>5, <2>3
  <2>4. ASSUME m \notin taken PROVE E.files[m] = D.files[m]
    BY <1>3, <2>4
  <2> QED BY <1>2, <2>1, <2>2, <2>3, <2>4
<1>11. \A e \in Held(E) : ~ e.pending => E.files[Hash[e.key]].key = e.key
  BY <1>2, <1>3, <1>9 DEF Tracked
<1> QED BY <1>4, <1>10, <1>11 DEF Tracked, E

(* Removing entries, in one piece. *)
LEMMA RemoveConsistent ==
  ASSUME NEW D, NEW w, NEW n, Consistent(D, w, n), w.pc # "renamed",
         NEW I \in SUBSET Positions(D)
  PROVE  LET E == remove_entries(D, I)
         IN  /\ Consistent(E, w, n) /\ Undisturbed(D, E)
             /\ Held(E) = Held(D) \ {D.entries[i] : i \in I}
             /\ E.total_bytes <= D.total_bytes
             /\ E.total_bytes = D.total_bytes - Bytes(D, I)
<1> DEFINE E == remove_entries(D, I)
<1>1. Indexed(D, w, n) /\ Stored(D, w) /\ (~ env.rotted => Whole(D)) /\ (up => Tracked(D, w))
  BY DEF Consistent
<1>2. D \in Store /\ Distinct(D)
  BY <1>1 DEF Indexed
<1>3. /\ Indexed(E, w, n) /\ Undisturbed(D, E)
      /\ Held(E) = Held(D) \ {D.entries[i] : i \in I}
      /\ E.total_bytes <= D.total_bytes
      /\ E.total_bytes = D.total_bytes - Bytes(D, I)
  BY <1>1, RemoveIndexed
<1>4. Stored(E, w) /\ (Whole(D) => Whole(E))
  BY <1>1, <1>2, RemoveStored
<1>5. up => Tracked(E, w)
  BY <1>1, <1>2, RemoveTracked
<1> HIDE DEF E
<1>6. Consistent(E, w, n)
  BY <1>1, <1>3, <1>4, <1>5 DEF Consistent
<1> QED BY <1>3, <1>6 DEF E

LEMMA UndisturbedTransitive ==
  ASSUME NEW D \in Store, NEW E \in Store, NEW F \in Store, Undisturbed(D, E), Undisturbed(E, F)
  PROVE  Undisturbed(D, F)
<1>1. D.notified => F.notified
  BY DEF Undisturbed
<1>2. ASSUME ~ F.notified
      PROVE  /\ D.pending_bytes <= F.pending_bytes
             /\ ToSet(D.queue) \subseteq ToSet(F.queue)
             /\ \A e \in Held(D) : \E f \in Held(F) : f.id = e.id /\ f.key = e.key
  <2>1. ~ E.notified
    BY <1>2 DEF Undisturbed
  <2>2. D.pending_bytes \in Nat /\ E.pending_bytes \in Nat /\ F.pending_bytes \in Nat
    BY DEF Store
  <2>3. D.pending_bytes <= E.pending_bytes /\ E.pending_bytes <= F.pending_bytes
    BY <1>2, <2>1 DEF Undisturbed
  <2>4. ToSet(D.queue) \subseteq ToSet(F.queue)
    BY <1>2, <2>1 DEF Undisturbed
  <2>5. \A e \in Held(D) : \E f \in Held(F) : f.id = e.id /\ f.key = e.key
    <3> SUFFICES ASSUME NEW e \in Held(D) PROVE \E f \in Held(F) : f.id = e.id /\ f.key = e.key
      OBVIOUS
    <3>1. PICK g \in Held(E) : g.id = e.id /\ g.key = e.key
      BY <2>1 DEF Undisturbed
    <3>2. PICK f \in Held(F) : f.id = g.id /\ f.key = g.key
      BY <1>2 DEF Undisturbed
    <3> QED BY <3>1, <3>2
  <2> QED BY <2>2, <2>3, <2>4, <2>5
<1> QED BY <1>1, <1>2 DEF Undisturbed

-----------------------------------------------------------------------------
(* Uses: touch_locked and stamp.                                           *)

(* Two indexes that differ in their uses only. *)
SameEntries(D, E) ==
  /\ Positions(E) = Positions(D)
  /\ \A i \in Positions(D) : /\ E.entries[i].id = D.entries[i].id
                             /\ E.entries[i].key = D.entries[i].key
                             /\ E.entries[i].pending = D.entries[i].pending
  /\ E.queue = D.queue
  /\ E.total_bytes = D.total_bytes /\ E.pending_bytes = D.pending_bytes
  /\ E.notified = D.notified

LEMMA SameHeld ==
  ASSUME NEW D, NEW E, SameEntries(D, E)
  PROVE  /\ \A d \in Held(D) : \E e \in Held(E) : e.id = d.id /\ e.key = d.key /\ e.pending = d.pending
         /\ \A e \in Held(E) : \E d \in Held(D) : e.id = d.id /\ e.key = d.key /\ e.pending = d.pending
BY DEF SameEntries, Held

LEMMA SameIndexed ==
  ASSUME NEW D, NEW E \in Store, NEW w, NEW n, Indexed(D, w, n), SameEntries(D, E)
  PROVE  Indexed(E, w, n) /\ Undisturbed(D, E)
<1>1. D \in Store /\ Distinct(D) /\ Counted(D)
  BY DEF Indexed
<1>2. D.entries \in Seq(Entry) /\ E.entries \in Seq(Entry)
  BY <1>1 DEF Store
<1>3. Distinct(E)
  BY <1>1 DEF SameEntries, Distinct
<1>4. \A e \in Held(E) : e.id < n
  BY SameHeld DEF Indexed
<1>5. Queued(E, w)
  <2>1. ToSet(D.queue) = {e.id : e \in Unwritten(D)} \ {w.job.id} /\ IsInjective(D.queue)
    BY DEF Indexed, Queued
  <2>2. {e.id : e \in Unwritten(E)} = {e.id : e \in Unwritten(D)}
    BY SameHeld DEF Unwritten
  <2> QED BY <2>1, <2>2 DEF Queued, SameEntries
<1>6. Counted(E)
  <2> DEFINE U == {i \in Positions(D) : D.entries[i].pending}
  <2>1. \A J \in SUBSET Positions(D) : Bytes(E, J) = Bytes(D, J)
    <3> SUFFICES ASSUME NEW J \in SUBSET Positions(D) PROVE Bytes(E, J) = Bytes(D, J)
      OBVIOUS
    <3>1. [i \in J |-> Size[E.entries[i].key]] = [i \in J |-> Size[D.entries[i].key]]
      BY DEF SameEntries
    <3> QED BY <3>1 DEF Bytes
  <2>2. U = {i \in Positions(E) : E.entries[i].pending} /\ U \in SUBSET Positions(D)
    BY DEF SameEntries
  <2>3. D.total_bytes = Bytes(D, Positions(D)) /\ D.pending_bytes = Bytes(D, U)
    BY <1>1 DEF Counted
  <2> HIDE DEF U
  <2>4. E.total_bytes = Bytes(E, Positions(E)) /\ E.pending_bytes = Bytes(E, U)
    BY <2>1, <2>2, <2>3 DEF SameEntries
  <2> QED BY <2>2, <2>4 DEF Counted
<1>7. Written(E, w)
  BY SameHeld DEF Indexed, Written
<1>8. Undisturbed(D, E)
  <2>1. D.pending_bytes \in Nat /\ E.pending_bytes = D.pending_bytes
    BY <1>1 DEF Store, SameEntries
  <2>2. \A d \in Held(D) : \E e \in Held(E) : e.id = d.id /\ e.key = d.key
    BY SameHeld
  <2>3. E.notified = D.notified /\ E.queue = D.queue
    BY DEF SameEntries
  <2> QED BY <2>1, <2>2, <2>3 DEF Undisturbed
<1> QED BY <1>3, <1>4, <1>5, <1>6, <1>7, <1>8 DEF Indexed

(* What a use changes in the directory. *)
LEMMA StampProps ==
  ASSUME NEW D \in Store, NEW n \in Names, NEW used \in Nat
  PROVE  LET E == stamp(D, n, used)
         IN  /\ E \in Store /\ E.entries = D.entries /\ SameEntries(D, E)
             /\ E.tmp = D.tmp /\ E.tmp_stable = D.tmp_stable
             /\ \A m \in Names \ {n} : E.files[m] = D.files[m] /\ E.stable[m] = D.stable[m]
             /\ D.files[n] = None => E.files[n] = None /\ E.stable[n] = D.stable[n]
             /\ D.files[n] # None =>
                  /\ E.files[n] # None /\ E.files[n].key = D.files[n].key
                  /\ E.files[n].bytes = D.files[n].bytes
                  /\ E.stable[n] = D.stable[n] \cup {E.files[n]}
<1> DEFINE E == stamp(D, n, used)
           f == [D.files[n] EXCEPT !.used = used]
<1>1. /\ D.files \in [Names -> Contents] /\ D.stable \in [Names -> SUBSET Contents]
      /\ D.files[n] \in Contents
  BY DEF Store
<1>2. CASE D.files[n] = None
  <2>1. E = D
    BY <1>2 DEF stamp
  <2> QED BY <1>2, <2>1 DEF SameEntries
<1>3. CASE D.files[n] # None
  <2>1. D.files[n] \in FileRecords
    BY <1>1, <1>3 DEF Contents
  <2>2. f \in FileRecords /\ f.key = D.files[n].key /\ f.bytes = D.files[n].bytes
    BY <2>1 DEF FileRecords
  <2>3. f \in Contents /\ f # None
    BY <2>2, StoreAssumption DEF Contents
  <2> HIDE DEF f
  <2>4. E = [D EXCEPT !.files[n] = f, !.stable[n] = @ \cup {f}]
    BY <1>3 DEF stamp, f
  <2> HIDE DEF E
  <2> DEFINE F == [D.files EXCEPT ![n] = f]
             S == [D.stable EXCEPT ![n] = @ \cup {f}]
  <2>5. F \in [Names -> Contents] /\ S \in [Names -> SUBSET Contents]
    BY <1>1, <2>3
  <2>6. /\ F[n] = f /\ S[n] = D.stable[n] \cup {f}
        /\ \A m \in Names \ {n} : F[m] = D.files[m] /\ S[m] = D.stable[m]
    BY <1>1
  <2>7. E = [D EXCEPT !.files = F, !.stable = S]
    BY <2>4 DEF Store
  <2> HIDE DEF F, S
  <2>8. /\ E \in Store /\ E.files = F /\ E.stable = S /\ E.tmp = D.tmp
        /\ E.tmp_stable = D.tmp_stable /\ E.entries = D.entries /\ E.queue = D.queue
        /\ E.total_bytes = D.total_bytes /\ E.pending_bytes = D.pending_bytes
        /\ E.notified = D.notified
    BY <2>5, <2>7 DEF Store
  <2>9. SameEntries(D, E)
    BY <2>8 DEF SameEntries, Positions
  <2> QED BY <1>3, <2>2, <2>3, <2>6, <2>8, <2>9 DEF E
<1> QED BY <1>2, <1>3

LEMMA StampStored ==
  ASSUME NEW D \in Store, NEW n \in Names, NEW used \in Nat, NEW w, Stored(D, w)
  PROVE  LET E == stamp(D, n, used)
         IN  Stored(E, w) /\ (Whole(D) => Whole(E))
<1> DEFINE E == stamp(D, n, used)
<1>1. /\ \A m \in Names \ {n} : E.files[m] = D.files[m] /\ E.stable[m] = D.stable[m]
      /\ D.files[n] = None => E.files[n] = None /\ E.stable[n] = D.stable[n]
      /\ D.files[n] # None =>
           /\ E.files[n] # None /\ E.files[n].key = D.files[n].key
           /\ E.files[n].bytes = D.files[n].bytes
           /\ E.stable[n] = D.stable[n] \cup {E.files[n]}
  BY StampProps
<1> HIDE DEF E
<1>2. \A m \in Names : \/ E.files[m] = D.files[m] /\ E.stable[m] = D.stable[m]
                       \/ /\ D.files[m] # None /\ E.files[m] # None
                          /\ E.files[m].key = D.files[m].key
                          /\ E.files[m].bytes = D.files[m].bytes
                          /\ E.stable[m] = D.stable[m] \cup {E.files[m]}
  BY <1>1
<1>3. Stored(E, w)
  <2> SUFFICES ASSUME NEW m \in Names
               PROVE  /\ \A f \in E.stable[m] \cup {E.files[m]} : f # None => Hash[f.key] = m
                      /\ E.files[m] # None /\ ~ (w.pc = "renamed" /\ m = Hash[w.job.key]) =>
                           \A g \in E.stable[m] : g # None /\ g.key = E.files[m].key
    BY DEF Stored
  <2>1. /\ \A f \in D.stable[m] \cup {D.files[m]} : f # None => Hash[f.key] = m
        /\ D.files[m] # None /\ ~ (w.pc = "renamed" /\ m = Hash[w.job.key]) =>
             \A g \in D.stable[m] : g # None /\ g.key = D.files[m].key
    BY DEF Stored
  <2>2. CASE E.files[m] = D.files[m] /\ E.stable[m] = D.stable[m]
    BY <2>1, <2>2
  <2>3. CASE /\ D.files[m] # None /\ E.files[m] # None
             /\ E.files[m].key = D.files[m].key
             /\ E.stable[m] = D.stable[m] \cup {E.files[m]}
    BY <2>1, <2>3
  <2> QED BY <1>2, <2>2, <2>3
<1>4. ASSUME Whole(D) PROVE Whole(E)
  <2> SUFFICES ASSUME NEW m \in Names, NEW f \in E.stable[m] \cup {E.files[m]}, f # None
               PROVE  f.bytes = "whole"
    BY DEF Whole
  <2>1. \A g \in D.stable[m] \cup {D.files[m]} : g # None => g.bytes = "whole"
    BY <1>4 DEF Whole
  <2> QED BY <1>2, <2>1
<1> QED BY <1>3, <1>4 DEF E

(* The directory seen from the index: names and keys are all that counts. *)
LEMMA SameTracked ==
  ASSUME NEW D, NEW E, NEW w, Tracked(D, w), SameEntries(D, E),
         w \in Writers(next_entry_id), D.entries \in Seq(Entry),
         E.tmp = D.tmp, E.tmp_stable = D.tmp_stable,
         \A m \in Names : /\ E.files[m] = None <=> D.files[m] = None
                          /\ D.files[m] # None => E.files[m].key = D.files[m].key
  PROVE  Tracked(E, w)
<1>1. \A d \in Held(D) : Hash[d.key] \in Names
  BY Index
<1>2. w.pc = "renamed" => Hash[w.job.key] \in Names
  BY DEF Writers, Names
<1>3. Shown(E, w)
  BY SameHeld DEF Tracked, Shown
<1>4. \A e \in Held(E) : ~ e.pending => E.files[Hash[e.key]].key = e.key
  <2> SUFFICES ASSUME NEW e \in Held(E), ~ e.pending PROVE E.files[Hash[e.key]].key = e.key
    OBVIOUS
  <2>1. PICK d \in Held(D) : e.id = d.id /\ e.key = d.key /\ e.pending = d.pending
    BY SameHeld
  <2>2. D.files[Hash[d.key]] # None /\ D.files[Hash[d.key]].key = d.key
    BY <1>1, <2>1 DEF Tracked, Shown
  <2> QED BY <1>1, <2>1, <2>2
<1>5. w.pc = "renamed" => E.files[Hash[w.job.key]].key = w.job.key
  BY <1>2 DEF Tracked, Shown
<1> QED BY <1>3, <1>4, <1>5 DEF Tracked

LEMMA StampConsistent ==
  ASSUME NEW D, NEW w \in Writers(next_entry_id), Consistent(D, w, next_entry_id),
         NEW n \in Names, NEW used \in Nat
  PROVE  LET E == stamp(D, n, used)
         IN  /\ Consistent(E, w, next_entry_id) /\ Undisturbed(D, E)
             /\ E.total_bytes = D.total_bytes /\ E.notified = D.notified
<1> DEFINE E == stamp(D, n, used)
<1>1. /\ Indexed(D, w, next_entry_id) /\ Stored(D, w) /\ (~ env.rotted => Whole(D))
      /\ up => Tracked(D, w)
  BY DEF Consistent
<1>2. D \in Store /\ D.entries \in Seq(Entry)
  BY <1>1 DEF Indexed, Store
<1>3. E \in Store /\ SameEntries(D, E) /\ E.tmp = D.tmp /\ E.tmp_stable = D.tmp_stable
  BY <1>2, StampProps
<1>4. \A m \in Names : /\ E.files[m] = None <=> D.files[m] = None
                       /\ D.files[m] # None => E.files[m].key = D.files[m].key
  <2>1. /\ \A m \in Names \ {n} : E.files[m] = D.files[m]
        /\ D.files[n] = None => E.files[n] = None
        /\ D.files[n] # None => E.files[n] # None /\ E.files[n].key = D.files[n].key
    BY <1>2, StampProps
  <2> HIDE DEF E
  <2> QED BY <2>1
<1>5. Stored(E, w) /\ (Whole(D) => Whole(E))
  BY <1>1, <1>2, StampStored
<1> HIDE DEF E
<1>6. Indexed(E, w, next_entry_id) /\ Undisturbed(D, E)
  BY <1>1, <1>3, SameIndexed
<1>7. up => Tracked(E, w)
  BY <1>1, <1>2, <1>3, <1>4, SameTracked
<1>8. E.total_bytes = D.total_bytes /\ E.notified = D.notified
  BY <1>3 DEF SameEntries
<1> QED BY <1>1, <1>5, <1>6, <1>7, <1>8 DEF Consistent, E

(* A lookup or a save of what is there renews an entry, and its file. *)
LEMMA TouchConsistent ==
  ASSUME NEW D, NEW w \in Writers(next_entry_id), Consistent(D, w, next_entry_id),
         NEW i \in Positions(D), now \in Nat
  PROVE  LET E == touch_locked(D, i)
         IN  /\ Consistent(E, w, next_entry_id) /\ Undisturbed(D, E)
             /\ E.total_bytes = D.total_bytes /\ E.notified = D.notified
<1> DEFINE e == [D.entries[i] EXCEPT !.last_used = now]
           s == [D.entries EXCEPT ![i] = e]
           F == [D EXCEPT !.entries = s]
           E == touch_locked(D, i)
<1>1. /\ Indexed(D, w, next_entry_id) /\ Stored(D, w) /\ (~ env.rotted => Whole(D))
      /\ up => Tracked(D, w)
  BY DEF Consistent
<1>2. D \in Store /\ D.entries \in Seq(Entry)
  BY <1>1 DEF Indexed, Store
<1>3. D.entries[i] \in Entry /\ Positions(D) = 1 .. Len(D.entries) /\ Len(D.entries) \in Nat
  BY <1>2, Index
<1>4. /\ e \in Entry /\ e.id = D.entries[i].id /\ e.key = D.entries[i].key
      /\ e.pending = D.entries[i].pending
  BY <1>3 DEF Entry
<1> HIDE DEF e
<1>5. /\ s \in Seq(Entry) /\ DOMAIN s = DOMAIN D.entries /\ s[i] = e
      /\ \A j \in Positions(D) \ {i} : s[j] = D.entries[j]
  BY <1>2, <1>3, <1>4 DEF Positions
<1> HIDE DEF s
<1>6. /\ F \in Store /\ F.entries = s /\ F.queue = D.queue /\ F.total_bytes = D.total_bytes
      /\ F.pending_bytes = D.pending_bytes /\ F.notified = D.notified
      /\ F.files = D.files /\ F.stable = D.stable
      /\ F.tmp = D.tmp /\ F.tmp_stable = D.tmp_stable
  BY <1>2, <1>5 DEF Store
<1> HIDE DEF F
<1>7. SameEntries(D, F)
  BY <1>4, <1>5, <1>6 DEF SameEntries, Positions
<1>8. Indexed(F, w, next_entry_id) /\ Undisturbed(D, F)
  BY <1>1, <1>6, <1>7, SameIndexed
<1>9. Stored(F, w) /\ (Whole(D) => Whole(F))
  BY <1>1, <1>6 DEF Stored, Whole
<1>10. up => Tracked(F, w)
  BY <1>1, <1>2, <1>6, <1>7, SameTracked
<1>11. Consistent(F, w, next_entry_id)
  BY <1>1, <1>8, <1>9, <1>10 DEF Consistent
<1>12. Hash[D.entries[i].key] \in Names
  BY <1>3 DEF Entry, Names
<1>13. E = IF D.entries[i].pending THEN F ELSE stamp(F, Hash[D.entries[i].key], now)
  <2>1. F = [D EXCEPT !.entries[i].last_used = now]
    BY DEF F, s, e
  <2>2. E = IF D.entries[i].pending THEN [D EXCEPT !.entries[i].last_used = now]
            ELSE stamp([D EXCEPT !.entries[i].last_used = now], Hash[D.entries[i].key], now)
    BY DEF touch_locked
  <2> QED BY <2>1, <2>2
<1> HIDE DEF E
<1>14. CASE D.entries[i].pending
  BY <1>6, <1>8, <1>11, <1>13, <1>14 DEF E
<1>15. CASE ~ D.entries[i].pending
  <2>1. /\ Consistent(E, w, next_entry_id) /\ Undisturbed(F, E)
        /\ E.total_bytes = F.total_bytes /\ E.notified = F.notified
    BY <1>11, <1>12, <1>13, <1>15, StampConsistent
  <2>2. E \in Store
    BY <2>1 DEF Consistent, Indexed
  <2>3. Undisturbed(D, E)
    BY <1>2, <1>6, <1>8, <2>1, <2>2, UndisturbedTransitive
  <2> QED BY <1>6, <2>1, <2>3 DEF E
<1> QED BY <1>14, <1>15

-----------------------------------------------------------------------------
(* make_room_locked and what save_async adds.                              *)

LEMMA BytesOne ==
  ASSUME NEW D, NEW i, Size[D.entries[i].key] \in Nat
  PROVE  Bytes(D, {i}) = Size[D.entries[i].key]
<1> DEFINE S == {i}
           f == [p \in S |-> Size[D.entries[p].key]]
           g == [p \in S |-> 0]
<1>1. i \in S /\ f[i] = Size[D.entries[i].key] /\ g[i] = 0
  OBVIOUS
<1>2. /\ \A t \in S : f[t] \in Nat /\ g[t] \in Nat
      /\ \A t \in S \ {i} : g[t] = f[t]
      /\ \A t \in S \ {} : g[t] = 0
  OBVIOUS
<1>3. IsFiniteSet(S)
  BY FS_Singleton
<1> HIDE DEF S, f, g
<1>4. Total(g, S) + f[i] = Total(f, S) + g[i] /\ Total(f, S) \in Nat
  BY <1>1, <1>2, <1>3, TotalChange
<1>5. Total(g, S) = Total(g, {})
  <2>1. {} \in SUBSET S
    OBVIOUS
  <2> QED BY <1>2, <2>1, TotalSupport
<1>6. Total(g, {}) = 0
  BY FS_EmptySet DEF Total, Units
<1>7. f[i] \in Nat
  BY <1>1
<1>8. Total(f, S) = f[i]
  BY <1>1, <1>4, <1>5, <1>6, <1>7
<1> QED BY <1>1, <1>8 DEF Bytes, S, f

LEMMA Unused ==
  ASSUME NEW D, NEW h
  PROVE  find_entry(D, h) = {} <=> \A e \in Held(D) : Hash[e.key] # h
BY DEF find_entry, Held

(* A new entry, queued, of a file nobody has. *)
LEMMA EntryAdded ==
  ASSUME NEW D, NEW w \in Writers(next_entry_id), Consistent(D, w, next_entry_id),
         NEW k \in Keys, find_entry(D, Hash[k]) = {},
         now \in Nat, next_entry_id \in Nat \ {0}, w.pc # "renamed"
  PROVE  LET E == indexed(D, k)
         IN  /\ Consistent(E, w, next_entry_id + 1) /\ Undisturbed(D, E)
             /\ E.total_bytes = D.total_bytes + Size[k]
<1> DEFINE e == [id |-> next_entry_id, key |-> k, last_used |-> now, pending |-> TRUE]
           s == Append(D.entries, e)
           q == Append(D.queue, next_entry_id)
           n == Len(D.entries)
           E == indexed(D, k)
           P == Positions(D)
           W == {i \in P : D.entries[i].pending}
<1>1. /\ Indexed(D, w, next_entry_id) /\ Stored(D, w) /\ (~ env.rotted => Whole(D))
      /\ up => Tracked(D, w)
  BY DEF Consistent
<1>2. /\ D \in Store /\ D.entries \in Seq(Entry) /\ D.queue \in Seq(Nat)
      /\ D.total_bytes \in Nat /\ D.pending_bytes \in Nat /\ Size[k] \in Nat
  BY <1>1, StoreAssumption DEF Indexed, Store
<1>3. /\ P = 1 .. n /\ n \in Nat /\ Held(D) \in SUBSET Entry
      /\ \A d \in Held(D) : Hash[d.key] # Hash[k]
  BY <1>2, Index, Unused
<1>4. e \in Entry /\ e.id = next_entry_id /\ e.key = k /\ e.pending
  BY DEF Entry
<1> HIDE DEF e
<1>5. /\ s \in Seq(Entry) /\ DOMAIN s = P \cup {n + 1} /\ n + 1 \notin P
      /\ \A i \in P : s[i] = D.entries[i]
      /\ s[n + 1] = e
  BY <1>2, <1>3, <1>4
<1> HIDE DEF s
<1>6. q \in Seq(Nat)
  BY <1>2
<1> HIDE DEF q
<1>7. /\ E \in Store /\ E.entries = s /\ E.queue = q
      /\ E.total_bytes = D.total_bytes + Size[k] /\ E.pending_bytes = D.pending_bytes + Size[k]
      /\ E.files = D.files /\ E.stable = D.stable /\ E.notified = D.notified
      /\ E.tmp = D.tmp /\ E.tmp_stable = D.tmp_stable
  <2>1. E = [D EXCEPT !.entries = s, !.queue = q, !.total_bytes = @ + Size[k],
                      !.pending_bytes = @ + Size[k]]
    BY DEF indexed, s, q, e
  <2>2. D.total_bytes + Size[k] \in Nat /\ D.pending_bytes + Size[k] \in Nat
    BY <1>2
  <2> HIDE DEF E
  <2> QED BY <1>2, <1>5, <1>6, <2>1, <2>2 DEF Store
<1> HIDE DEF E
<1>8. Positions(E) = P \cup {n + 1}
  BY <1>5, <1>7 DEF Positions
<1>9. Held(E) = Held(D) \cup {e}
  <2>1. Held(E) = {s[i] : i \in P \cup {n + 1}} /\ Held(D) = {D.entries[i] : i \in P}
    BY <1>7, <1>8 DEF Held
  <2> HIDE DEF P
  <2>2. \A x \in Held(E) : x \in Held(D) \cup {e}
    BY <1>5, <2>1
  <2>3. \A x \in Held(D) \cup {e} : x \in Held(E)
    BY <1>5, <2>1
  <2> QED BY <2>2, <2>3
<1>10. \A d \in Held(D) : d.id < next_entry_id /\ d.id \in Nat /\ d.id # next_entry_id
  BY <1>1, <1>3 DEF Indexed, Entry
<1>11. Distinct(E)
  <2> HIDE DEF P
  <2>1. \A i, j \in P : D.entries[i].id = D.entries[j].id
                        \/ Hash[D.entries[i].key] = Hash[D.entries[j].key] => i = j
    BY <1>1 DEF Indexed, Distinct, P
  <2>2. \A i \in P : D.entries[i].id # next_entry_id /\ Hash[D.entries[i].key] # Hash[k]
    BY <1>3, <1>10 DEF Held, P
  <2>3. \A i, j \in P \cup {n + 1} : s[i].id = s[j].id \/ Hash[s[i].key] = Hash[s[j].key] => i = j
    BY <1>4, <1>5, <2>1, <2>2
  <2> QED BY <1>7, <1>8, <2>3 DEF Distinct
<1>12. \A d \in Held(E) : d.id < next_entry_id + 1
  BY <1>4, <1>9, <1>10
<1>13. w.job.id # next_entry_id
  BY DEF Writers, NoJob
<1>14. Queued(E, w)
  <2>1. ToSet(D.queue) = {d.id : d \in Unwritten(D)} \ {w.job.id} /\ IsInjective(D.queue)
    BY <1>1 DEF Indexed, Queued
  <2>2. next_entry_id \notin ToSet(D.queue)
    BY <1>10, <2>1 DEF Unwritten
  <2>3. ToSet(q) = ToSet(D.queue) \cup {next_entry_id} /\ IsInjective(q)
    BY <1>2, <2>1, <2>2, AppendNew DEF q
  <2>4. Unwritten(E) = Unwritten(D) \cup {e}
    BY <1>4, <1>9 DEF Unwritten
  <2>5. {d.id : d \in Unwritten(E)} = {d.id : d \in Unwritten(D)} \cup {next_entry_id}
    BY <1>4, <2>4
  <2> QED BY <1>7, <1>13, <2>1, <2>3, <2>5 DEF Queued
<1>15. Counted(E)
  <2>1. \A J \in SUBSET P : Bytes(E, J) = Bytes(D, J)
    <3> SUFFICES ASSUME NEW J \in SUBSET P PROVE Bytes(E, J) = Bytes(D, J)
      OBVIOUS
    <3>1. [i \in J |-> Size[E.entries[i].key]] = [i \in J |-> Size[D.entries[i].key]]
      BY <1>5, <1>7
    <3> QED BY <3>1 DEF Bytes
  <2>2. E.entries[n + 1].key = k
    BY <1>4, <1>5, <1>7
  <2>3. Bytes(E, {n + 1}) = Size[k]
    BY <1>2, <2>2, BytesOne
  <2>4. \A J \in SUBSET P : Bytes(E, J \cup {n + 1}) = Bytes(D, J) + Size[k]
    <3> SUFFICES ASSUME NEW J \in SUBSET P PROVE Bytes(E, J \cup {n + 1}) = Bytes(D, J) + Size[k]
      OBVIOUS
    <3>1. J \cup {n + 1} \in SUBSET Positions(E) /\ (J \cup {n + 1}) \ J = {n + 1}
      BY <1>5, <1>8
    <3>2. Bytes(E, J \cup {n + 1}) = Bytes(E, J) + Bytes(E, (J \cup {n + 1}) \ J)
      BY <1>5, <1>7, <3>1, BytesSplit
    <3> QED BY <2>1, <2>3, <3>1, <3>2
  <2>5. {i \in Positions(E) : E.entries[i].pending} = W \cup {n + 1} /\ W \in SUBSET P
    BY <1>4, <1>5, <1>7, <1>8
  <2>6. D.total_bytes = Bytes(D, P) /\ D.pending_bytes = Bytes(D, W)
    BY <1>1 DEF Indexed, Counted
  <2> HIDE DEF P, W
  <2> QED BY <1>7, <1>8, <2>4, <2>5, <2>6 DEF Counted
<1>16. Written(E, w)
  BY <1>1, <1>4, <1>9, <1>13 DEF Indexed, Written
<1>17. Undisturbed(D, E)
  <2>1. D.pending_bytes <= E.pending_bytes
    BY <1>2, <1>7
  <2>2. ToSet(D.queue) \subseteq ToSet(E.queue)
    <3>1. ToSet(q) = ToSet(D.queue) \cup {next_entry_id}
      BY <1>2, AppendNew DEF q
    <3> QED BY <1>7, <3>1
  <2> QED BY <1>7, <1>9, <2>1, <2>2 DEF Undisturbed
<1>18. Stored(E, w) /\ (Whole(D) => Whole(E))
  BY <1>1, <1>7 DEF Stored, Whole
<1>19. ASSUME up PROVE Tracked(E, w)
  <2>1. Tracked(D, w)
    BY <1>1, <1>19
  <2>2. \A d \in Held(E) : ~ d.pending => d \in Held(D)
    BY <1>4, <1>9
  <2>3. Shown(E, w)
    BY <1>7, <1>9, <2>1, <2>2 DEF Tracked, Shown
  <2> QED BY <1>7, <2>1, <2>2, <2>3 DEF Tracked
<1>20. Indexed(E, w, next_entry_id + 1)
  BY <1>7, <1>11, <1>12, <1>14, <1>15, <1>16 DEF Indexed
<1>21. Consistent(E, w, next_entry_id + 1)
  BY <1>1, <1>18, <1>19, <1>20 DEF Consistent
<1> QED BY <1>7, <1>17, <1>21 DEF E

(* Every entry is among the Len(D.entries) least recently used. *)
LEMMA AllLeastUsed ==
  ASSUME NEW D, D.entries \in Seq(Entry)
  PROVE  /\ \A m : LeastUsed(D, m) \in SUBSET Positions(D)
         /\ LeastUsed(D, Len(D.entries)) = Positions(D)
<1> DEFINE P == Positions(D)
           older(i) == {j \in P :
                          \/ D.entries[j].last_used < D.entries[i].last_used
                          \/ D.entries[j].last_used = D.entries[i].last_used /\ j < i}
<1>1. P = 1 .. Len(D.entries) /\ Len(D.entries) \in Nat /\ IsFiniteSet(P) /\ P \in SUBSET Nat
  BY Index
<1>2. Cardinality(P) = Len(D.entries)
  BY <1>1, FS_Interval
<1>3. ASSUME NEW i \in P PROVE Cardinality(older(i)) < Len(D.entries)
  <2>1. D.entries[i].last_used \in Nat
    BY <1>3, Index DEF Entry
  <2>2. older(i) \in SUBSET P /\ i \notin older(i)
    BY <1>1, <1>3, <2>1
  <2>3. older(i) # P
    BY <1>3, <2>2
  <2>4. /\ IsFiniteSet(older(i)) /\ Cardinality(older(i)) <= Cardinality(P)
        /\ Cardinality(older(i)) # Cardinality(P)
    <3> HIDE DEF older, P
    <3> QED BY <1>1, <2>2, <2>3, FS_Subset
  <2>5. Cardinality(older(i)) \in Nat
    BY <2>4, FS_CardinalityType
  <2> HIDE DEF older
  <2> QED BY <1>1, <1>2, <2>4, <2>5
<1>4. LeastUsed(D, Len(D.entries)) = {i \in P : Cardinality(older(i)) < Len(D.entries)}
  BY DEF LeastUsed
<1>5. \A m : LeastUsed(D, m) \in SUBSET P
  BY DEF LeastUsed
<1> HIDE DEF older, P
<1> QED BY <1>3, <1>4, <1>5 DEF P

(* Room is made: what comes in fits the budget, or nothing is left. *)
LEMMA MakeRoom ==
  ASSUME NEW D, NEW w, NEW n, Consistent(D, w, n), w.pc # "renamed",
         NEW incoming \in Nat, NEW room \in Rooms
  PROVE  LET E == make_room_locked(D, incoming, room)
         IN  /\ Consistent(E, w, n) /\ Undisturbed(D, E)
             /\ Held(E) \in SUBSET Held(D)
             /\ E.total_bytes + incoming <= BudgetBytes \/ E.total_bytes = 0
<1> DEFINE fits(k) == \/ k = Len(D.entries)
                      \/ Less(D.total_bytes, Bytes(D, LeastUsed(D, k))) + incoming
                           <= budget_locked(D, room)
           K == {k \in 0 .. Len(D.entries) : fits(k)}
           m == Min(K)
           I == LeastUsed(D, m)
           E == make_room_locked(D, incoming, room)
<1>1. /\ D \in Store /\ D.entries \in Seq(Entry) /\ Len(D.entries) \in Nat
      /\ D.total_bytes \in Nat /\ D.pending_bytes \in Nat
      /\ D.total_bytes = Bytes(D, Positions(D))
  <2>1. D \in Store /\ Counted(D)
    BY DEF Consistent, Indexed
  <2> QED BY <2>1 DEF Store, Counted
<1>2. m \in K
  <2>1. K \in SUBSET Nat /\ Len(D.entries) \in K
    BY <1>1
  <2> HIDE DEF K
  <2> QED BY <2>1, MinProps
<1>3. fits(m)
  <2> HIDE DEF m, fits
  <2> QED BY <1>2
<1>4. E = remove_entries(D, I)
  BY DEF make_room_locked
<1>5. budget_locked(D, room) <= BudgetBytes /\ budget_locked(D, room) \in Nat
  <2>1. room \in Nat /\ BudgetBytes \in Nat
    BY StoreAssumption
  <2> QED BY <1>1, <2>1 DEF budget_locked, Less
<1> HIDE DEF K, m, E
<1>6. I \in SUBSET Positions(D)
  BY <1>1, AllLeastUsed
<1>7. /\ Consistent(E, w, n) /\ Undisturbed(D, E) /\ Held(E) \in SUBSET Held(D)
      /\ E.total_bytes = D.total_bytes - Bytes(D, I)
  <2> HIDE DEF I
  <2> QED BY <1>4, <1>6, RemoveConsistent
<1>8. Bytes(D, I) \in Nat
  BY <1>1, <1>6, BytesNat
<1>9. CASE m = Len(D.entries)
  <2>1. I = Positions(D)
    BY <1>1, <1>9, AllLeastUsed
  <2>2. E.total_bytes = 0
    BY <1>1, <1>7, <2>1
  <2> QED BY <1>7, <2>2 DEF E
<1>10. CASE Less(D.total_bytes, Bytes(D, I)) + incoming <= budget_locked(D, room)
  <2>1. E.total_bytes \in Nat
    BY <1>7 DEF Consistent, Indexed, Store
  <2>2. E.total_bytes = Less(D.total_bytes, Bytes(D, I))
    BY <1>1, <1>7, <1>8, <2>1 DEF Less
  <2>3. BudgetBytes \in Nat
    BY StoreAssumption
  <2>4. E.total_bytes + incoming <= BudgetBytes
    BY <1>5, <1>10, <2>1, <2>2, <2>3
  <2> QED BY <1>7, <2>4 DEF E
<1> QED BY <1>3, <1>9, <1>10

LEMMA ExpireConsistent ==
  ASSUME NEW D, NEW w, NEW n, Consistent(D, w, n), w.pc # "renamed"
  PROVE  LET E == expire_locked(D)
         IN  /\ Consistent(E, w, n) /\ Undisturbed(D, E)
             /\ E.total_bytes <= D.total_bytes
<1> DEFINE I == {i \in Positions(D) : expired(D, i)}
<1>1. I \in SUBSET Positions(D)
  OBVIOUS
<1>2. expire_locked(D) = remove_entries(D, I)
  BY DEF expire_locked
<1> HIDE DEF I
<1> QED BY <1>1, <1>2, RemoveConsistent

-----------------------------------------------------------------------------
(* Steps of the threads that call the store.                               *)

(* Nobody on a done_cv_ wait for what has already happened. *)
Waits(p) ==
  up /\ mu_free /\ caller[p].pc # "idle" /\ ~ caller[p].awake =>
    IF caller[p].pc = "saving" THEN backpressure(disk, caller[p].key) ELSE ~ idle(disk, p)

(* Something of p's is queued or being written. *)
Busy(D, w, p) ==
  \E e \in Held(D) : /\ Owner[e.key] = p
                     /\ e.id \in ToSet(D.queue) \/ (w.job.id # 0 /\ e.id = w.job.id)

LEMMA BusyProps ==
  ASSUME NEW p
  PROVE  /\ \A D : ~ idle(D, p) <=> Busy(D, writer, p)
         /\ (~ idle(disk, p))' <=> Busy(disk', writer', p)
<1>1. \A D, id : mine(D, p, id) <=> \E e \in Held(D) : e.id = id /\ Owner[e.key] = p
  BY DEF mine, find_entry_id, Held
<1>2. \A D : ToSet(D.queue) = {D.queue[i] : i \in DOMAIN D.queue}
  BY DEF ToSet
<1>3. \A D : ~ idle(D, p) <=> Busy(D, writer, p)
  <2> SUFFICES ASSUME NEW D PROVE ~ idle(D, p) <=> Busy(D, writer, p)
    OBVIOUS
  <2> DEFINE asks == \E i \in DOMAIN D.queue : mine(D, p, D.queue[i])
             writes == writer.job.id # 0 /\ mine(D, p, writer.job.id)
  <2>1. ~ idle(D, p) <=> asks \/ writes
    BY DEF idle
  <2>2. asks <=> \E e \in Held(D) : Owner[e.key] = p /\ e.id \in ToSet(D.queue)
    <3>1. \A x : x \in ToSet(D.queue) <=> \E i \in DOMAIN D.queue : D.queue[i] = x
      BY <1>2
    <3>2. ASSUME NEW i \in DOMAIN D.queue, mine(D, p, D.queue[i])
          PROVE  \E e \in Held(D) : Owner[e.key] = p /\ e.id \in ToSet(D.queue)
      BY <1>1, <3>1, <3>2
    <3>3. ASSUME NEW e \in Held(D), Owner[e.key] = p, e.id \in ToSet(D.queue) PROVE asks
      <4>1. PICK i \in DOMAIN D.queue : D.queue[i] = e.id
        BY <3>1, <3>3
      <4>2. mine(D, p, D.queue[i])
        BY <1>1, <3>3, <4>1
      <4> QED BY <4>2
    <3> QED BY <3>2, <3>3
  <2>3. writes <=> \E e \in Held(D) : Owner[e.key] = p /\ writer.job.id # 0 /\ e.id = writer.job.id
    BY <1>1
  <2> HIDE DEF asks, writes
  <2> QED BY <2>1, <2>2, <2>3 DEF Busy
<1>4. idle(disk, p)' <=> /\ \A i \in DOMAIN disk'.queue : ~ mine(disk', p, disk'.queue[i])
                         /\ writer'.job.id = 0 \/ ~ mine(disk', p, writer'.job.id)
  BY DEF idle, mine, find_entry_id, Positions
<1>5. (~ idle(disk, p))' <=> Busy(disk', writer', p)
  BY <1>1, <1>2, <1>4 DEF Busy
<1> QED BY <1>3, <1>5

LEMMA WaitsAll ==
  /\ NoWakeupLost <=> \A p \in Owners : Waits(p)
  /\ NoWakeupLost' <=> \A p \in Owners : Waits(p)'
BY DEF NoWakeupLost, Waits

(* What waited still waits, unless it is told to look again. *)
LEMMA StillWaits ==
  ASSUME StoreInv, mu_free, NEW E \in Store, Undisturbed(disk, E),
         disk' = settle(E), writer' = writer, up' = up,
         NEW p \in Owners, caller'[p] = woken(E)[p]
  PROVE  Waits(p)'
<1>1. /\ caller[p] \in Callers /\ disk \in Store /\ Waits(p) /\ ~ disk.notified
      /\ caller[p].awake \in BOOLEAN
  <2>1. caller \in [Owners -> Callers] /\ disk \in Store /\ NoWakeupLost /\ ~ disk.notified
    BY DEF StoreInv, ThreadsOK, Consistent, Indexed
  <2>2. \A c \in Callers : c.awake \in BOOLEAN
    BY DEF Callers
  <2> QED BY <2>1, <2>2, WaitsAll
<1>2. /\ disk'.entries = E.entries /\ disk'.queue = E.queue
      /\ disk'.pending_bytes = E.pending_bytes
  BY DEF settle, Store
<1>3. caller'[p] = IF E.notified THEN [caller[p] EXCEPT !.awake = caller[p].pc # "idle"]
                   ELSE caller[p]
  BY DEF woken
<1>4. CASE E.notified
  <2>1. caller[p] = [pc |-> caller[p].pc, key |-> caller[p].key, awake |-> caller[p].awake]
    BY <1>1 DEF Callers
  <2>2. caller'[p].pc = caller[p].pc /\ caller'[p].awake = (caller[p].pc # "idle")
    BY <1>3, <1>4, <2>1
  <2> QED BY <2>2 DEF Waits
<1>5. CASE ~ E.notified
  <2>1. caller'[p] = caller[p]
    BY <1>3, <1>5
  <2>2. /\ disk.pending_bytes <= E.pending_bytes
        /\ ToSet(disk.queue) \subseteq ToSet(E.queue)
        /\ \A e \in Held(disk) : \E f \in Held(E) : f.id = e.id /\ f.key = e.key
    BY <1>5 DEF Undisturbed
  <2>3. ASSUME caller[p].pc = "saving", backpressure(disk, caller[p].key)
        PROVE  backpressure(disk, caller[p].key)'
    <3>1. caller[p].key \in Keys /\ Size[caller[p].key] \in Nat /\ MaxPendingBytes \in Nat
      BY <1>1, <2>3, StoreAssumption DEF Callers
    <3>2. disk.pending_bytes \in Nat /\ E.pending_bytes \in Nat
      BY <1>1 DEF Store
    <3> QED BY <1>2, <2>1, <2>2, <2>3, <3>1, <3>2 DEF backpressure
  <2>4. ASSUME ~ idle(disk, p) PROVE (~ idle(disk, p))'
    <3>1. Busy(disk, writer, p)
      BY <2>4, BusyProps
    <3>2. Busy(E, writer, p)
      BY <2>2, <3>1 DEF Busy
    <3>3. Busy(disk', writer', p)
      BY <1>2, <3>2 DEF Busy, Held, Positions
    <3> QED BY <3>3, BusyProps
  <2> QED BY <1>1, <2>1, <2>3, <2>4 DEF Waits, mu_free
<1> QED BY <1>4, <1>5

LEMMA SettleConsistent ==
  ASSUME NEW E, NEW w, NEW n, Consistent(E, w, n)
  PROVE  /\ Consistent(settle(E), w, n)
         /\ settle(E).notified = FALSE /\ settle(E).total_bytes = E.total_bytes
<1> DEFINE F == settle(E)
<1>1. /\ Indexed(E, w, n) /\ Stored(E, w) /\ (~ env.rotted => Whole(E))
      /\ up => Tracked(E, w)
  BY DEF Consistent
<1>2. E \in Store
  BY <1>1 DEF Indexed
<1>3. /\ F \in Store /\ F.notified = FALSE
      /\ F.entries = E.entries /\ F.queue = E.queue
      /\ F.total_bytes = E.total_bytes /\ F.pending_bytes = E.pending_bytes
      /\ F.files = E.files /\ F.stable = E.stable
      /\ F.tmp = E.tmp /\ F.tmp_stable = E.tmp_stable
  BY <1>2 DEF Store, settle
<1> HIDE DEF F
<1>4. /\ Positions(F) = Positions(E) /\ Held(F) = Held(E) /\ Unwritten(F) = Unwritten(E)
      /\ \A J : Bytes(F, J) = Bytes(E, J)
  BY <1>3 DEF Positions, Held, Unwritten, Bytes
<1>5. Indexed(F, w, n)
  <2>1. Distinct(F) /\ Queued(F, w) /\ Written(F, w)
    BY <1>1, <1>3, <1>4 DEF Indexed, Distinct, Queued, Written
  <2>2. Counted(F)
    BY <1>1, <1>3, <1>4 DEF Indexed, Counted
  <2> QED BY <1>1, <1>3, <1>4, <2>1, <2>2 DEF Indexed
<1>6. Stored(F, w) /\ (Whole(E) => Whole(F))
  BY <1>1, <1>3 DEF Stored, Whole
<1>7. up => Tracked(F, w)
  BY <1>1, <1>3, <1>4 DEF Tracked, Shown
<1> QED BY <1>1, <1>3, <1>5, <1>6, <1>7 DEF Consistent, F

LEMMA WokenCallers ==
  ASSUME StoreInv, NEW E
  PROVE  /\ woken(E) \in [Owners -> Callers] /\ caller \in [Owners -> Callers]
         /\ Idle \in Callers
<1>1. caller \in [Owners -> Callers]
  BY DEF StoreInv, ThreadsOK
<1>2. ASSUME NEW c \in Callers PROVE [c EXCEPT !.awake = c.pc # "idle"] \in Callers
  BY DEF Callers
<1>3. woken(E) \in [Owners -> Callers]
  BY <1>1, <1>2 DEF woken
<1>4. Idle \in Callers
  BY DEF Idle, Callers
<1> QED BY <1>1, <1>3, <1>4

LEMMA WritersGrow ==
  ASSUME NEW n \in Nat, NEW w \in Writers(n)
  PROVE  w \in Writers(n + 1)
<1>1. 1 .. n - 1 \in SUBSET (1 .. (n + 1) - 1)
  OBVIOUS
<1> QED BY <1>1 DEF Writers

(* A step that holds mu_ and leaves a consistent store. *)
LEMMA CallStep ==
  ASSUME StoreInv, up, mu_free,
         NEW E, NEW n \in {next_entry_id, next_entry_id + 1},
         Consistent(E, writer, n), Undisturbed(disk, E), E.total_bytes <= BudgetBytes,
         disk' = settle(E), next_entry_id' = n,
         writer' = writer, up' = up, env' = env, now' = now,
         caller' \in [Owners -> Callers], loader' \in [Owners -> Loaders], RestoreIsExact',
         \A p \in Owners : caller'[p] = woken(E)[p] \/ Waits(p)'
  PROVE  StoreInv'
<1>1. ThreadsOK'
  <2>1. /\ next_entry_id \in Nat \ {0} /\ now \in Nat /\ up \in BOOLEAN
        /\ writer \in Writers(next_entry_id)
        /\ env \in [events : Nat, rotted : BOOLEAN]
    BY DEF StoreInv, ThreadsOK
  <2>2. n \in Nat \ {0} /\ writer \in Writers(n)
    BY <2>1, WritersGrow
  <2> QED BY <2>1, <2>2 DEF ThreadsOK
<1> DEFINE F == settle(E)
<1>2. /\ Consistent(F, writer, n)
      /\ F.notified = FALSE /\ F.total_bytes = E.total_bytes
  BY SettleConsistent
<1>3. disk' = F
  OBVIOUS
<1> HIDE DEF F
<1>4. Consistent(disk, writer, next_entry_id)'
  BY <1>2, <1>3 DEF Consistent
<1>5. NoWakeupLost'
  <2>1. E \in Store
    BY DEF Consistent, Indexed
  <2>2. ASSUME NEW p \in Owners PROVE Waits(p)'
    BY <2>1, StillWaits
  <2> QED BY <2>2, WaitsAll
<1> QED BY <1>1, <1>2, <1>3, <1>4, <1>5 DEF StoreInv

(* What holds whenever mu_ is free. *)
LEMMA Free ==
  ASSUME StoreInv
  PROVE  /\ Consistent(disk, writer, next_entry_id) /\ disk \in Store
         /\ disk.entries \in Seq(Entry) /\ disk.total_bytes <= BudgetBytes
         /\ disk.total_bytes \in Nat /\ disk.notified = FALSE
         /\ next_entry_id \in Nat \ {0} /\ now \in Nat /\ writer \in Writers(next_entry_id)
         /\ caller \in [Owners -> Callers] /\ loader \in [Owners -> Loaders]
         /\ mu_free => writer.pc # "renamed"
BY DEF StoreInv, ThreadsOK, Consistent, Indexed, Store, mu_free

LEMMA FirstFound ==
  ASSUME NEW D, D.entries \in Seq(Entry)
  PROVE  /\ \A h : find_entry(D, h) # {} => Min(find_entry(D, h)) \in find_entry(D, h)
         /\ \A id : find_entry_id(D, id) # {} => Min(find_entry_id(D, id)) \in find_entry_id(D, id)
         /\ \A h : find_entry(D, h) \in SUBSET Positions(D)
         /\ \A id : find_entry_id(D, id) \in SUBSET Positions(D)
<1>1. Positions(D) \in SUBSET Nat
  BY Index
<1>2. /\ \A h : find_entry(D, h) \in SUBSET Positions(D)
      /\ \A id : find_entry_id(D, id) \in SUBSET Positions(D)
  BY DEF find_entry, find_entry_id
<1>3. \A T : T \in SUBSET Positions(D) /\ T # {} => Min(T) \in T
  BY <1>1, MinProps
<1> QED BY <1>2, <1>3

LEMMA SaveQueueStep ==
  ASSUME StoreInv, up, mu_free, NEW o \in Owners, NEW k \in Keys, save_queue(o, k),
         UNCHANGED <<writer, loader, now, up, env>>
  PROVE  StoreInv'
<1> DEFINE D == expire_locked(disk)
<1>1. /\ Consistent(disk, writer, next_entry_id) /\ disk \in Store
      /\ disk.total_bytes <= BudgetBytes /\ disk.total_bytes \in Nat
      /\ next_entry_id \in Nat \ {0} /\ now \in Nat /\ writer \in Writers(next_entry_id)
      /\ writer.pc # "renamed" /\ BudgetBytes \in Nat
  BY Free, StoreAssumption
<1>2. /\ Consistent(D, writer, next_entry_id) /\ Undisturbed(disk, D)
      /\ D.total_bytes <= disk.total_bytes
  BY <1>1, ExpireConsistent
<1>3. D \in Store /\ D.entries \in Seq(Entry) /\ D.total_bytes \in Nat
  BY <1>2 DEF Consistent, Indexed, Store
<1>4. loader' \in [Owners -> Loaders] /\ RestoreIsExact'
  BY Free DEF StoreInv, RestoreIsExact
<1>5. ASSUME NEW E, NEW n \in {next_entry_id, next_entry_id + 1},
             Consistent(E, writer, n), Undisturbed(D, E), E.total_bytes <= BudgetBytes,
             disk' = settle(E), next_entry_id' = n, caller' = [woken(E) EXCEPT ![o] = Idle]
      PROVE  StoreInv'
  <2>1. E \in Store
    BY <1>5 DEF Consistent, Indexed
  <2>2. Undisturbed(disk, E)
    BY <1>1, <1>2, <1>3, <1>5, <2>1, UndisturbedTransitive
  <2>3. woken(E) \in [Owners -> Callers] /\ Idle \in Callers
    BY WokenCallers
  <2>4. caller' \in [Owners -> Callers]
    BY <1>5, <2>3
  <2>5. ASSUME NEW p \in Owners PROVE caller'[p] = woken(E)[p] \/ Waits(p)'
    <3>1. CASE p = o
      BY <1>5, <2>3, <3>1 DEF Waits, Idle
    <3>2. CASE p # o
      BY <1>5, <2>3, <3>2
    <3> QED BY <3>1, <3>2
  <2> QED BY <1>4, <1>5, <2>2, <2>4, <2>5, CallStep
<1> HIDE DEF D
<1>6. ASSUME find_entry(D, Hash[k]) # {}, UNCHANGED next_entry_id,
             disk' = settle(touch_locked(D, Min(find_entry(D, Hash[k])))),
             caller' = [woken(touch_locked(D, Min(find_entry(D, Hash[k])))) EXCEPT ![o] = Idle]
      PROVE  StoreInv'
  <2> DEFINE i == Min(find_entry(D, Hash[k]))
             E == touch_locked(D, i)
  <2>1. i \in Positions(D)
    BY <1>3, <1>6, FirstFound
  <2> HIDE DEF i
  <2>2. /\ Consistent(E, writer, next_entry_id) /\ Undisturbed(D, E)
        /\ E.total_bytes = D.total_bytes
    BY <1>1, <1>2, <2>1, TouchConsistent
  <2>3. disk' = settle(E) /\ caller' = [woken(E) EXCEPT ![o] = Idle]
    BY <1>6 DEF i
  <2> HIDE DEF E
  <2>4. E.total_bytes <= BudgetBytes
    BY <1>1, <1>2, <1>3, <2>2
  <2> QED BY <1>5, <1>6, <2>2, <2>3, <2>4
<1>7. ASSUME UNCHANGED next_entry_id, disk' = settle(D),
             caller' = [woken(D) EXCEPT ![o] = Idle]
      PROVE  StoreInv'
  <2>1. Undisturbed(D, D)
    BY <1>3 DEF Undisturbed, Store
  <2>2. D.total_bytes <= BudgetBytes
    BY <1>1, <1>2, <1>3
  <2> QED BY <1>2, <1>5, <1>7, <2>1, <2>2
<1>8. ASSUME NEW room \in Rooms, NEW left \in Rooms, find_entry(D, Hash[k]) = {},
             Size[k] <= budget_locked(D, room),
             disk' = settle(indexed(make_room_locked(D, Size[k], left), k)),
             caller' = [woken(indexed(make_room_locked(D, Size[k], left), k)) EXCEPT ![o] = Idle],
             next_entry_id' = next_entry_id + 1
      PROVE  StoreInv'
  <2> DEFINE F == make_room_locked(D, Size[k], left)
             E == indexed(F, k)
  <2>1. Size[k] \in Nat
    BY StoreAssumption
  <2>2. /\ Consistent(F, writer, next_entry_id) /\ Undisturbed(D, F)
        /\ Held(F) \in SUBSET Held(D)
        /\ F.total_bytes + Size[k] <= BudgetBytes \/ F.total_bytes = 0
    BY <1>1, <1>2, <1>8, <2>1, MakeRoom
  <2>3. disk' = settle(E) /\ caller' = [woken(E) EXCEPT ![o] = Idle]
    BY <1>8
  <2> HIDE DEF F
  <2>4. find_entry(F, Hash[k]) = {}
    BY <1>8, <2>2, Unused
  <2>5. /\ Consistent(E, writer, next_entry_id + 1) /\ Undisturbed(F, E)
        /\ E.total_bytes = F.total_bytes + Size[k]
    BY <1>1, <2>2, <2>4, EntryAdded
  <2> HIDE DEF E
  <2>6. F \in Store /\ E \in Store
    BY <2>2, <2>5 DEF Consistent, Indexed
  <2>7. Undisturbed(D, E)
    BY <1>3, <2>2, <2>5, <2>6, UndisturbedTransitive
  <2>8. Size[k] <= BudgetBytes
    <3>1. budget_locked(D, room) <= BudgetBytes /\ budget_locked(D, room) \in Nat
      BY <1>3, StoreAssumption DEF budget_locked, Less, Store
    <3> QED BY <1>1, <1>8, <2>1, <3>1
  <2>9. E.total_bytes <= BudgetBytes
    BY <1>1, <2>1, <2>2, <2>5, <2>8
  <2> QED BY <1>5, <1>8, <2>3, <2>5, <2>7, <2>9
<1> QED BY <1>6, <1>7, <1>8 DEF save_queue, D

(* A step of a thread that leaves the store as it is. *)
LEMMA QuietStep ==
  ASSUME StoreInv, up, UNCHANGED <<disk, next_entry_id, writer, up, env, now>>,
         caller' \in [Owners -> Callers], loader' \in [Owners -> Loaders], RestoreIsExact',
         \A p \in Owners : caller'[p] = caller[p] \/ Waits(p)'
  PROVE  StoreInv'
<1>1. ThreadsOK'
  BY DEF StoreInv, ThreadsOK
<1>2. Consistent(disk, writer, next_entry_id)'
  BY DEF StoreInv, Consistent
<1>3. NoWakeupLost'
  <2>1. ASSUME NEW p \in Owners PROVE Waits(p)'
    <3>1. Waits(p)
      BY WaitsAll DEF StoreInv
    <3>2. CASE caller'[p] = caller[p]
      <4>1. mu_free' <=> mu_free
        BY DEF mu_free
      <4>2. backpressure(disk, caller[p].key)' <=> backpressure(disk, caller[p].key)
        BY <3>2 DEF backpressure
      <4>3. (~ idle(disk, p))' <=> ~ idle(disk, p)
        BY BusyProps
      <4> QED BY <3>1, <3>2, <4>1, <4>2, <4>3 DEF Waits
    <3> QED BY <3>2
  <2> QED BY <2>1, WaitsAll
<1> QED BY <1>1, <1>2, <1>3 DEF StoreInv

LEMMA SaveAsyncStep ==
  ASSUME StoreInv, NEW o \in Owners, NEW k \in Keys, save_async(o, k)
  PROVE  StoreInv'
<1>1. up /\ mu_free /\ UNCHANGED <<writer, abort_write, loader, now, up, env>>
  BY DEF save_async
<1>2. CASE save_queue(o, k)
  BY <1>1, <1>2, SaveQueueStep
<1>3. CASE /\ backpressure(disk, k) /\ UNCHANGED <<disk, next_entry_id>>
           /\ caller' = [caller EXCEPT ![o] = [pc |-> "saving", key |-> k, awake |-> FALSE]]
  <2>1. caller \in [Owners -> Callers] /\ loader' \in [Owners -> Loaders] /\ RestoreIsExact'
    BY <1>1, Free DEF StoreInv, RestoreIsExact
  <2>2. [pc |-> "saving", key |-> k, awake |-> FALSE] \in Callers
    BY DEF Callers
  <2>3. caller' \in [Owners -> Callers]
    BY <1>3, <2>1, <2>2
  <2>4. \A p \in Owners \ {o} : caller'[p] = caller[p]
    BY <1>3, <2>1
  <2>5. Waits(o)'
    <3>1. caller'[o] = [pc |-> "saving", key |-> k, awake |-> FALSE]
      BY <1>3, <2>1
    <3>2. backpressure(disk, caller[o].key)'
      BY <1>3, <3>1 DEF backpressure
    <3> QED BY <3>1, <3>2 DEF Waits
  <2>6. UNCHANGED <<disk, next_entry_id, writer, up, env, now>>
    BY <1>1, <1>3
  <2> QED BY <1>1, <2>1, <2>3, <2>4, <2>5, <2>6, QuietStep
<1> QED BY <1>2, <1>3 DEF save_async

LEMMA SaveAsyncWakesStep ==
  ASSUME StoreInv, NEW o \in Owners, save_async_wakes(o)
  PROVE  StoreInv'
<1>1. /\ up /\ mu_free /\ UNCHANGED <<writer, abort_write, loader, now, up, env>>
      /\ caller[o].pc = "saving"
  BY DEF save_async_wakes
<1>2. caller \in [Owners -> Callers] /\ loader' \in [Owners -> Loaders] /\ RestoreIsExact'
  BY <1>1, Free DEF StoreInv, RestoreIsExact
<1>3. caller[o] \in Callers /\ caller[o].key \in Keys
  BY <1>1, <1>2 DEF Callers
<1>4. CASE save_queue(o, caller[o].key)
  BY <1>1, <1>3, <1>4, SaveQueueStep
<1>5. CASE /\ backpressure(disk, caller[o].key) /\ UNCHANGED <<disk, next_entry_id>>
           /\ caller' = [caller EXCEPT ![o].awake = FALSE]
  <2>1. [caller[o] EXCEPT !.awake = FALSE] \in Callers
    BY <1>3 DEF Callers
  <2>2. caller' \in [Owners -> Callers] /\ caller'[o] = [caller[o] EXCEPT !.awake = FALSE]
    BY <1>2, <1>5, <2>1
  <2>3. \A p \in Owners \ {o} : caller'[p] = caller[p]
    BY <1>2, <1>5
  <2>4. Waits(o)'
    <3>1. caller'[o].pc = "saving" /\ caller'[o].key = caller[o].key
      BY <1>1, <1>3, <2>2 DEF Callers
    <3>2. backpressure(disk, caller[o].key)'
      BY <1>5, <3>1 DEF backpressure
    <3> QED BY <3>1, <3>2 DEF Waits
  <2>5. UNCHANGED <<disk, next_entry_id, writer, up, env, now>>
    BY <1>1, <1>5
  <2> QED BY <1>1, <1>2, <2>2, <2>3, <2>4, <2>5, QuietStep
<1> QED BY <1>4, <1>5 DEF save_async_wakes

LEMMA SaveStep ==
  ASSUME StoreInv, NEW o \in Owners, NEW k \in Keys, save(o, k)
  PROVE  StoreInv'
<1> DEFINE i == Min(find_entry(disk, Hash[k]))
           E == touch_locked(disk, i)
<1>1. /\ up /\ mu_free /\ find_entry(disk, Hash[k]) # {} /\ disk' = E
      /\ UNCHANGED <<next_entry_id, writer, abort_write, caller, loader, now, up, env>>
  BY DEF save
<1>2. i \in Positions(disk)
  BY <1>1, Free, FirstFound
<1> HIDE DEF i
<1>3. /\ Consistent(E, writer, next_entry_id) /\ Undisturbed(disk, E)
      /\ E.total_bytes = disk.total_bytes /\ E.notified = disk.notified
  BY <1>1, <1>2, Free, TouchConsistent
<1> HIDE DEF E
<1>4. E \in Store /\ E.notified = FALSE
  BY <1>3, Free DEF Consistent, Indexed
<1>5. settle(E) = E
  BY <1>4 DEF settle, Store
<1>6. /\ caller' \in [Owners -> Callers] /\ loader' \in [Owners -> Loaders] /\ RestoreIsExact'
      /\ E.total_bytes <= BudgetBytes
  BY <1>1, <1>3, Free DEF StoreInv, RestoreIsExact
<1>7. \A p \in Owners : caller'[p] = woken(E)[p]
  BY <1>1, <1>4 DEF woken
<1>8. disk' = settle(E) /\ next_entry_id' = next_entry_id
  BY <1>1, <1>5
<1> QED BY <1>1, <1>3, <1>6, <1>7, <1>8, CallStep

LEMMA PruneStep ==
  ASSUME StoreInv, NEW o \in Owners, NEW k \in Keys, NEW keep_max, prune_ancestors(o, k, keep_max)
  PROVE  StoreInv'
<1> DEFINE I == superseded(disk, k, keep_max)
           E == remove_entries(disk, I)
<1>1. /\ up /\ mu_free /\ disk' = settle(E) /\ caller' = woken(E)
      /\ UNCHANGED <<next_entry_id, writer, abort_write, loader, now, up, env>>
  BY DEF prune_ancestors
<1>2. I \in SUBSET Positions(disk)
  BY DEF superseded
<1> HIDE DEF I
<1>3. /\ Consistent(E, writer, next_entry_id) /\ Undisturbed(disk, E)
      /\ E.total_bytes <= disk.total_bytes
  BY <1>1, <1>2, Free, RemoveConsistent
<1> HIDE DEF E
<1>4. E.total_bytes \in Nat
  BY <1>3 DEF Consistent, Indexed, Store
<1>5. E.total_bytes <= BudgetBytes
  BY <1>3, <1>4, Free, StoreAssumption
<1>6. caller' \in [Owners -> Callers] /\ loader' \in [Owners -> Loaders] /\ RestoreIsExact'
  BY <1>1, Free, WokenCallers DEF StoreInv, RestoreIsExact
<1> QED BY <1>1, <1>3, <1>5, <1>6, CallStep

LEMMA DrainStep ==
  ASSUME StoreInv, NEW o \in Owners, drain(o) \/ drain_wakes(o)
  PROVE  StoreInv'
<1>1. up /\ UNCHANGED <<disk, next_entry_id, writer, abort_write, loader, now, up, env>>
  BY DEF drain, drain_wakes
<1>2. caller \in [Owners -> Callers] /\ loader' \in [Owners -> Loaders] /\ RestoreIsExact'
  BY <1>1, Free DEF StoreInv, RestoreIsExact
<1>3. (~ idle(disk, o))' <=> ~ idle(disk, o)
  BY <1>1, BusyProps
<1>4. UNCHANGED <<disk, next_entry_id, writer, up, env, now>>
  BY <1>1
<1>5. CASE drain(o)
  <2>1. [pc |-> "draining", key |-> None, awake |-> FALSE] \in Callers
    BY DEF Callers
  <2>2. /\ caller' \in [Owners -> Callers]
        /\ caller'[o] = [pc |-> "draining", key |-> None, awake |-> FALSE]
        /\ \A p \in Owners \ {o} : caller'[p] = caller[p]
    BY <1>2, <1>5, <2>1 DEF drain
  <2>3. Waits(o)'
    BY <1>3, <1>5, <2>2 DEF Waits, drain
  <2> QED BY <1>1, <1>2, <1>4, <2>2, <2>3, QuietStep
<1>6. CASE drain_wakes(o)
  <2> DEFINE c == IF idle(disk, o) THEN Idle ELSE [caller[o] EXCEPT !.awake = FALSE]
  <2>1. caller[o] \in Callers /\ caller[o].pc \in {"draining", "cancelled"}
    BY <1>2, <1>6 DEF drain_wakes
  <2>2. /\ [caller[o] EXCEPT !.awake = FALSE] \in Callers
        /\ [caller[o] EXCEPT !.awake = FALSE].pc = caller[o].pc
    BY <2>1 DEF Callers
  <2>3. c \in Callers /\ (~ idle(disk, o) => c.pc # "saving") /\ (idle(disk, o) => c.pc = "idle")
    BY <2>1, <2>2, WokenCallers DEF Idle
  <2> HIDE DEF c
  <2>4. /\ caller' \in [Owners -> Callers] /\ caller'[o] = c
        /\ \A p \in Owners \ {o} : caller'[p] = caller[p]
    BY <1>2, <1>6, <2>3 DEF drain_wakes, c
  <2>5. Waits(o)'
    BY <1>3, <2>3, <2>4 DEF Waits
  <2> QED BY <1>1, <1>2, <1>4, <2>4, <2>5, QuietStep
<1> QED BY <1>5, <1>6

LEMMA DrainLimitStep ==
  ASSUME StoreInv, NEW o \in Owners, drain_limit(o)
  PROVE  StoreInv'
<1> DEFINE I == {i \in Positions(disk) : /\ Owner[disk.entries[i].key] = o
                                         /\ Contains(disk.queue, disk.entries[i].id)}
           E == remove_entries(disk, I)
           c == IF idle(E, o) THEN Idle ELSE [pc |-> "cancelled", key |-> None, awake |-> FALSE]
<1>1. /\ up /\ mu_free /\ disk' = settle(E) /\ caller' = [woken(E) EXCEPT ![o] = c]
      /\ UNCHANGED <<next_entry_id, writer, loader, now, up, env>>
  BY DEF drain_limit
<1>2. I \in SUBSET Positions(disk)
  OBVIOUS
<1> HIDE DEF I
<1>3. /\ Consistent(E, writer, next_entry_id) /\ Undisturbed(disk, E)
      /\ E.total_bytes <= disk.total_bytes
  BY <1>1, <1>2, Free, RemoveConsistent
<1> HIDE DEF E
<1>4. E \in Store /\ E.total_bytes \in Nat
  BY <1>3 DEF Consistent, Indexed, Store
<1>5. E.total_bytes <= BudgetBytes
  BY <1>3, <1>4, Free, StoreAssumption
<1>6. /\ c \in Callers /\ c.pc # "saving"
      /\ idle(E, o) => c.pc = "idle"
  BY WokenCallers DEF Callers, Idle
<1> HIDE DEF c
<1>7. /\ caller' \in [Owners -> Callers] /\ caller'[o] = c
      /\ \A p \in Owners \ {o} : caller'[p] = woken(E)[p]
  BY <1>1, <1>6, WokenCallers
<1>8. loader' \in [Owners -> Loaders] /\ RestoreIsExact'
  BY <1>1, Free DEF StoreInv, RestoreIsExact
<1>9. Waits(o)'
  <2>1. ASSUME ~ idle(E, o) PROVE (~ idle(disk, o))'
    <3>1. Busy(E, writer, o)
      BY <2>1, BusyProps
    <3>2. disk'.entries = E.entries /\ disk'.queue = E.queue
      BY <1>1, <1>4 DEF settle, Store
    <3>3. Busy(disk', writer', o)
      BY <1>1, <3>1, <3>2 DEF Busy, Held, Positions
    <3> QED BY <3>3, BusyProps
  <2> QED BY <1>6, <1>7, <2>1 DEF Waits
<1> QED BY <1>1, <1>3, <1>5, <1>7, <1>8, <1>9, CallStep

-----------------------------------------------------------------------------
(* Loading.                                                                *)

(* What one owner's loader becomes. *)
LEMMA LoaderSet ==
  ASSUME StoreInv, NEW o \in Owners, NEW l \in Loaders, loader' = [loader EXCEPT ![o] = l],
         l.pc = "loaded" => l.out = l.key, l.pc = "read" => l.out \in {l.key, None}
  PROVE  loader' \in [Owners -> Loaders] /\ RestoreIsExact'
<1>1. loader \in [Owners -> Loaders] /\ RestoreIsExact
  BY Free DEF StoreInv
<1>2. loader' \in [Owners -> Loaders] /\ \A p \in Owners : loader'[p] = IF p = o THEN l ELSE loader[p]
  BY <1>1
<1> QED BY <1>1, <1>2 DEF RestoreIsExact

LEMMA LoadStep ==
  ASSUME StoreInv, NEW o \in Owners, NEW k \in Keys, load(o, k)
  PROVE  StoreInv'
<1> DEFINE i == Min(find_entry(disk, Hash[k]))
           E == remove_entries(disk, {i})
           l == [pc |-> "reading", key |-> k, id |-> disk.entries[i].id,
                 from_memory |-> disk.entries[i].pending,
                 out |-> IF disk.entries[i].pending THEN disk.entries[i].key ELSE None]
<1>1. /\ up /\ mu_free /\ find_entry(disk, Hash[k]) # {}
      /\ UNCHANGED <<next_entry_id, writer, abort_write, now, up, env>>
  BY DEF load
<1>2. i \in Positions(disk)
  BY <1>1, Free, FirstFound
<1>3. \/ disk' = settle(E) /\ caller' = woken(E) /\ UNCHANGED loader
      \/ loader' = [loader EXCEPT ![o] = l] /\ UNCHANGED <<disk, caller>>
  BY DEF load
<1> HIDE DEF i
<1>4. CASE disk' = settle(E) /\ caller' = woken(E) /\ UNCHANGED loader
  <2>1. {i} \in SUBSET Positions(disk)
    BY <1>2
  <2>2. /\ Consistent(E, writer, next_entry_id) /\ Undisturbed(disk, E)
        /\ E.total_bytes <= disk.total_bytes
    BY <1>1, <2>1, Free, RemoveConsistent
  <2> HIDE DEF E
  <2>3. E.total_bytes \in Nat
    BY <2>2 DEF Consistent, Indexed, Store
  <2>4. E.total_bytes <= BudgetBytes
    BY <2>2, <2>3, Free, StoreAssumption
  <2>5. caller' \in [Owners -> Callers] /\ loader' \in [Owners -> Loaders] /\ RestoreIsExact'
    BY <1>4, Free, WokenCallers DEF StoreInv, RestoreIsExact
  <2> QED BY <1>1, <1>4, <2>2, <2>4, <2>5, CallStep
<1>5. CASE loader' = [loader EXCEPT ![o] = l] /\ UNCHANGED <<disk, caller>>
  <2>1. disk.entries[i] \in Entry
    BY <1>2, Free, Index
  <2>2. l \in Loaders /\ l.pc = "reading"
    BY <2>1 DEF Loaders, Entry
  <2> HIDE DEF l
  <2>3. loader' \in [Owners -> Loaders] /\ RestoreIsExact'
    BY <1>5, <2>2, LoaderSet
  <2>4. caller' \in [Owners -> Callers] /\ UNCHANGED <<disk, next_entry_id, writer, up, env, now>>
    BY <1>1, <1>5, Free
  <2> QED BY <1>1, <1>5, <2>3, <2>4, QuietStep
<1> QED BY <1>3, <1>4, <1>5

LEMMA LoadReadsStep ==
  ASSUME StoreInv, NEW o \in Owners, load_reads(o) \/ adopt(o)
  PROVE  StoreInv'
<1> DEFINE l == loader[o]
<1>1. up /\ UNCHANGED <<disk, next_entry_id, writer, abort_write, caller, now, up, env>>
  BY DEF load_reads, adopt
<1>2. l \in Loaders /\ NotLoading \in Loaders /\ NotLoading.pc = "idle"
  BY Free DEF Loaders, NotLoading
<1>3. loader' \in [Owners -> Loaders] /\ RestoreIsExact'
  <2>1. CASE adopt(o)
    BY <1>2, <2>1, LoaderSet DEF adopt
  <2>2. CASE load_reads(o)
    <3>1. l.pc = "reading"
      BY <2>2 DEF load_reads
    <3>2. l \in [pc : {"reading", "read", "loaded"}, key : Keys, id : Nat, from_memory : BOOLEAN,
                 out : Keys \cup {None}]
      BY <1>2, <3>1 DEF Loaders, NotLoading
    <3> DEFINE out == read_file(disk.files[Hash[l.key]], l.key)
               m == [l EXCEPT !.pc = "read"]
               f == [l EXCEPT !.pc = "read", !.out = out]
    <3>3. out \in {l.key, None} /\ out \in Keys \cup {None}
      BY <3>2 DEF read_file
    <3> HIDE DEF out
    <3>4. /\ m \in Loaders /\ m.pc = "read" /\ m.out = l.out /\ m.key = l.key
          /\ f \in Loaders /\ f.pc = "read" /\ f.out = out /\ f.key = l.key
      BY <3>2, <3>3 DEF Loaders
    <3>5. \/ l.out = l.key /\ loader' = [loader EXCEPT ![o] = m]
          \/ loader' = [loader EXCEPT ![o] = NotLoading]
          \/ loader' = [loader EXCEPT ![o] = f]
      BY <2>2 DEF load_reads, out
    <3> HIDE DEF m, f
    <3>6. CASE l.out = l.key /\ loader' = [loader EXCEPT ![o] = m]
      <4>1. m.out \in {m.key, None} /\ (m.pc = "loaded" => m.out = m.key)
        BY <3>4, <3>6
      <4> HIDE DEF l
      <4> QED BY <3>4, <3>6, <4>1, LoaderSet
    <3>7. CASE loader' = [loader EXCEPT ![o] = NotLoading]
      BY <1>2, <3>7, LoaderSet
    <3>8. CASE loader' = [loader EXCEPT ![o] = f]
      <4>1. f.out \in {f.key, None} /\ (f.pc = "loaded" => f.out = f.key)
        BY <3>3, <3>4
      <4> HIDE DEF l
      <4> QED BY <3>4, <3>8, <4>1, LoaderSet
    <3> QED BY <3>5, <3>6, <3>7, <3>8
  <2> QED BY <2>1, <2>2
<1>4. caller' \in [Owners -> Callers] /\ UNCHANGED <<disk, next_entry_id, writer, up, env, now>>
  BY <1>1, Free
<1> QED BY <1>1, <1>3, <1>4, QuietStep

LEMMA LoadReturnsStep ==
  ASSUME StoreInv, NEW o \in Owners, load_returns(o)
  PROVE  StoreInv'
<1> DEFINE l == loader[o]
           found == find_entry_id(disk, l.id)
           bad == {i \in found : l.out = None /\ ~ disk.entries[i].pending}
           E == IF l.out # None /\ found # {} THEN touch_locked(disk, Min(found))
                ELSE remove_entries(disk, bad)
           m == [l EXCEPT !.pc = "loaded"]
<1>1. /\ up /\ mu_free /\ l.pc = "read" /\ disk' = settle(E) /\ caller' = woken(E)
      /\ loader' = [loader EXCEPT ![o] = IF l.out = None THEN NotLoading ELSE m]
      /\ UNCHANGED <<next_entry_id, writer, abort_write, now, up, env>>
  BY DEF load_returns
<1>2. /\ Consistent(E, writer, next_entry_id) /\ Undisturbed(disk, E)
      /\ E.total_bytes <= disk.total_bytes
  <2>1. CASE l.out # None /\ found # {}
    <3> DEFINE i == Min(found)
    <3>1. i \in Positions(disk)
      BY <2>1, Free, FirstFound
    <3> HIDE DEF i
    <3>2. /\ Consistent(touch_locked(disk, i), writer, next_entry_id)
          /\ Undisturbed(disk, touch_locked(disk, i))
          /\ touch_locked(disk, i).total_bytes = disk.total_bytes
      BY <1>1, <3>1, Free, TouchConsistent
    <3>3. E = touch_locked(disk, i)
      BY <2>1 DEF i
    <3> HIDE DEF E
    <3> QED BY <3>2, <3>3, Free
  <2>2. CASE ~ (l.out # None /\ found # {})
    <3>1. bad \in SUBSET Positions(disk)
      BY DEF find_entry_id
    <3>2. E = remove_entries(disk, bad)
      BY <2>2
    <3> HIDE DEF bad, E
    <3> QED BY <1>1, <3>1, <3>2, Free, RemoveConsistent
  <2> QED BY <2>1, <2>2
<1> HIDE DEF E
<1>3. E.total_bytes \in Nat
  BY <1>2 DEF Consistent, Indexed, Store
<1>4. E.total_bytes <= BudgetBytes
  BY <1>2, <1>3, Free, StoreAssumption
<1>5. loader' \in [Owners -> Loaders] /\ RestoreIsExact'
  <2>1. l \in Loaders /\ NotLoading \in Loaders /\ NotLoading.pc = "idle"
    BY Free DEF Loaders, NotLoading
  <2>2. CASE l.out = None
    BY <1>1, <2>1, <2>2, LoaderSet
  <2>3. CASE l.out # None
    <3>1. l \in [pc : {"reading", "read", "loaded"}, key : Keys, id : Nat, from_memory : BOOLEAN,
                 out : Keys \cup {None}]
      BY <1>1, <2>1 DEF Loaders, NotLoading
    <3>2. l.out = l.key
      BY <1>1, <2>3 DEF StoreInv, RestoreIsExact
    <3>3. m \in Loaders /\ m.pc = "loaded" /\ m.out = m.key
      BY <3>1, <3>2 DEF Loaders
    <3>4. loader' = [loader EXCEPT ![o] = m]
      BY <1>1, <2>3
    <3> HIDE DEF m
    <3> QED BY <3>3, <3>4, LoaderSet
  <2> QED BY <2>2, <2>3
<1>6. caller' \in [Owners -> Callers]
  BY <1>1, WokenCallers
<1> QED BY <1>1, <1>2, <1>4, <1>5, <1>6, CallStep

-----------------------------------------------------------------------------
(* The writer thread.                                                      *)

(* What a step of the writer alone has to show. *)
LEMMA WriterStep ==
  ASSUME StoreInv, up, up' = up, env' = env, now' = now, next_entry_id' = next_entry_id,
         NEW E, NEW w \in Writers(next_entry_id), disk' = settle(E), writer' = w,
         Consistent(E, w, next_entry_id), E.total_bytes <= BudgetBytes,
         caller' \in [Owners -> Callers], loader' = loader, NoWakeupLost'
  PROVE  StoreInv'
<1> DEFINE F == settle(E)
<1>1. Consistent(F, w, next_entry_id) /\ F.notified = FALSE /\ F.total_bytes = E.total_bytes
  BY SettleConsistent
<1>2. disk' = F
  OBVIOUS
<1> HIDE DEF F
<1>3. Consistent(disk, writer, next_entry_id)'
  BY <1>1, <1>2 DEF Consistent
<1>4. ThreadsOK'
  BY DEF StoreInv, ThreadsOK
<1>5. RestoreIsExact'
  BY DEF StoreInv, RestoreIsExact
<1> QED BY <1>1, <1>2, <1>3, <1>4, <1>5 DEF StoreInv

(* Whoever waited for the job waits for it still. *)
LEMMA WriterWaits ==
  ASSUME StoreInv, up' = up, caller' = caller, mu_free,
         disk'.pending_bytes = disk.pending_bytes, disk'.entries = disk.entries,
         \A e \in Held(disk) :
           e.id \in ToSet(disk.queue) \/ (writer.job.id # 0 /\ e.id = writer.job.id) =>
             e.id \in ToSet(disk'.queue) \/ (writer'.job.id # 0 /\ e.id = writer'.job.id)
  PROVE  NoWakeupLost'
<1>1. ASSUME NEW p \in Owners PROVE Waits(p)'
  <2>1. Waits(p)
    BY WaitsAll DEF StoreInv
  <2>2. backpressure(disk, caller[p].key)' <=> backpressure(disk, caller[p].key)
    BY DEF backpressure
  <2>3. ASSUME ~ idle(disk, p) PROVE (~ idle(disk, p))'
    <3>1. Busy(disk, writer, p)
      BY <2>3, BusyProps
    <3>2. Busy(disk', writer', p)
      BY <3>1 DEF Busy, Held, Positions
    <3> QED BY <3>2, BusyProps
  <2> QED BY <2>1, <2>2, <2>3 DEF Waits
<1> QED BY <1>1, WaitsAll

LEMMA SameIndex ==
  ASSUME NEW D, NEW E, E.entries = D.entries
  PROVE  /\ Positions(E) = Positions(D) /\ Held(E) = Held(D) /\ Unwritten(E) = Unwritten(D)
         /\ Distinct(D) => Distinct(E)
         /\ E.total_bytes = D.total_bytes /\ E.pending_bytes = D.pending_bytes /\ Counted(D)
              => Counted(E)
<1>1. /\ Positions(E) = Positions(D) /\ Held(E) = Held(D) /\ Unwritten(E) = Unwritten(D)
      /\ \A J : Bytes(E, J) = Bytes(D, J)
  BY DEF Positions, Held, Unwritten, Bytes
<1>2. Distinct(D) => Distinct(E)
  BY <1>1 DEF Distinct
<1>3. E.total_bytes = D.total_bytes /\ E.pending_bytes = D.pending_bytes /\ Counted(D) => Counted(E)
  BY <1>1 DEF Counted
<1> QED BY <1>1, <1>2, <1>3

LEMMA TakesStep ==
  ASSUME StoreInv, writer_takes
  PROVE  StoreInv'
<1> DEFINE q == disk.queue
           r == Tail(q)
           id == Head(q)
           at == {i \in find_entry_id(disk, id) : disk.entries[i].pending}
           d == disk.entries[Min(at)]
           w == [pc |-> "opening", job |-> [id |-> id, key |-> d.key, last_used |-> d.last_used]]
           E == [disk EXCEPT !.queue = r]
<1>1. /\ up /\ writer.pc = "idle" /\ q # <<>> /\ disk' = E
      /\ IF at = {} THEN UNCHANGED writer ELSE writer' = w
      /\ UNCHANGED <<next_entry_id, caller, loader, now, up, env>>
  BY DEF writer_takes
<1>2. /\ Indexed(disk, writer, next_entry_id) /\ Stored(disk, writer)
      /\ (~ env.rotted => Whole(disk)) /\ Tracked(disk, writer)
  BY <1>1, Free DEF Consistent
<1>3. writer.job.id = 0 /\ mu_free
  BY <1>1, Free DEF Writers, NoJob, mu_free
<1>4. /\ q \in Seq(Nat) /\ IsInjective(q)
      /\ ToSet(q) = {e.id : e \in Unwritten(disk)} \ {0}
  BY <1>2, <1>3, Free DEF Indexed, Queued, Store
<1>5. /\ r \in Seq(Nat) /\ id \in ToSet(q)
      /\ ToSet(r) = ToSet(q) \ {id} /\ IsInjective(r)
  <2> DEFINE C == Nat
  <2>1. q \in Seq(C)
    BY <1>4
  <2> HIDE DEF q, C
  <2> QED BY <1>1, <1>4, <2>1, TailRest
<1>6. at # {} /\ at \in SUBSET Positions(disk) /\ Positions(disk) \in SUBSET Nat
  <2>1. PICK e \in Unwritten(disk) : e.id = id
    BY <1>4, <1>5
  <2>2. PICK i \in Positions(disk) : disk.entries[i] = e
    BY <2>1 DEF Unwritten, Held
  <2>3. i \in at
    BY <2>1, <2>2 DEF Unwritten, find_entry_id
  <2>4. Positions(disk) \in SUBSET Nat
    BY Free, Index
  <2> QED BY <2>3, <2>4 DEF find_entry_id
<1>7. d \in Held(disk) /\ d.id = id /\ d.pending
  <2>1. Min(at) \in at
    <3> HIDE DEF at
    <3> QED BY <1>6, MinProps
  <2> QED BY <2>1 DEF find_entry_id, Held
<1>8. d \in Entry /\ d.id < next_entry_id
  BY <1>2, <1>7, Free, Index DEF Indexed
<1>9. writer' = w
  BY <1>1, <1>6
<1> HIDE DEF at, d, id, r
<1>10. w \in Writers(next_entry_id)
  BY <1>7, <1>8, Free DEF Writers, Entry
<1>11. /\ E \in Store /\ E.entries = disk.entries /\ E.queue = r
       /\ E.total_bytes = disk.total_bytes /\ E.pending_bytes = disk.pending_bytes
       /\ E.files = disk.files /\ E.stable = disk.stable /\ E.notified = FALSE
       /\ E.tmp = disk.tmp /\ E.tmp_stable = disk.tmp_stable
  BY <1>5, Free DEF Store
<1> HIDE DEF E, q
<1>12. settle(E) = E
  BY <1>11 DEF settle, Store
<1>13. Held(E) = Held(disk) /\ Unwritten(E) = Unwritten(disk) /\ Distinct(E) /\ Counted(E)
  BY <1>2, <1>11, SameIndex DEF Indexed
<1>14. Queued(E, w)
  <2>1. \A e \in Unwritten(disk) : e.id # 0
    <3>1. Held(disk) \in SUBSET Entry
      BY Free, Index
    <3> QED BY <3>1 DEF Unwritten, Entry
  <2>2. ToSet(r) = {e.id : e \in Unwritten(disk)} \ {id}
    BY <1>4, <1>5, <2>1
  <2> QED BY <1>5, <1>11, <1>13, <2>2 DEF Queued
<1>15. Written(E, w)
  <2>1. \A e \in Held(disk) : e.id = id => e = d
    BY <1>2, <1>7, Free, HeldDistinct DEF Indexed
  <2> QED BY <1>7, <1>13, <2>1 DEF Written
<1>16. Indexed(E, w, next_entry_id)
  BY <1>2, <1>11, <1>13, <1>14, <1>15 DEF Indexed
<1>17. Stored(E, w) /\ (~ env.rotted => Whole(E))
  BY <1>1, <1>2, <1>11 DEF Stored, Whole
<1>18. Tracked(E, w)
  BY <1>1, <1>2, <1>11, <1>13 DEF Tracked, Shown
<1>19. Consistent(E, w, next_entry_id)
  BY <1>16, <1>17, <1>18 DEF Consistent
<1>20. NoWakeupLost'
  <2>1. \A e \in Held(disk) : e.id \in ToSet(disk.queue) => e.id \in ToSet(r) \/ e.id = id
    BY <1>5 DEF q
  <2>2. id # 0
    BY <1>7, <1>8 DEF Entry
  <2> QED BY <1>1, <1>3, <1>9, <1>11, <2>1, <2>2, WriterWaits
<1>21. disk' = settle(E) /\ caller' \in [Owners -> Callers] /\ E.total_bytes <= BudgetBytes
  BY <1>1, <1>11, <1>12, Free
<1>22. /\ up /\ up' = up /\ env' = env /\ now' = now /\ next_entry_id' = next_entry_id
       /\ loader' = loader
  BY <1>1
<1> HIDE DEF w
<1> QED BY <1>9, <1>10, <1>19, <1>20, <1>21, <1>22, WriterStep

(* The writer has an entry's job whenever it is not idle. *)
LEMMA Job ==
  ASSUME StoreInv, writer.pc # "idle"
  PROVE  /\ writer = [pc |-> writer.pc, job |-> writer.job]
         /\ writer.pc \in {"opening", "writing", "written", "failed", "renamed"}
         /\ writer.job \in [id : 1 .. next_entry_id - 1, key : Keys, last_used : Nat]
         /\ writer.job.id \in Nat /\ writer.job.id # 0 /\ writer.job.key \in Keys
         /\ writer.job.last_used \in Nat /\ job_name \in Names
         /\ \A b \in {"whole", "short", "damaged"} :
              File(writer.job.key, writer.job.last_used, b) \in FileRecords
<1>1. writer \in [pc : {"opening", "writing", "written", "failed", "renamed"},
                  job : [id : 1 .. next_entry_id - 1, key : Keys, last_used : Nat]]
  BY Free DEF Writers
<1>2. writer.job.key \in Keys /\ writer.job.last_used \in Nat
  BY <1>1
<1>3. job_name \in Names
  BY <1>2 DEF job_name, Names
<1>4. \A b \in {"whole", "short", "damaged"} :
        File(writer.job.key, writer.job.last_used, b) \in FileRecords
  BY <1>2 DEF File, FileRecords
<1>5. writer.job.id \in Nat /\ writer.job.id # 0
  BY <1>1, Free
<1> QED BY <1>1, <1>2, <1>3, <1>4, <1>5

(* What the writer becomes and what it leaves when it only turns a page. *)
LEMMA WriterPc ==
  ASSUME StoreInv, writer.pc # "idle",
         NEW p \in {"writing", "written", "failed", "renamed"}, writer' = [writer EXCEPT !.pc = p]
  PROVE  writer'.pc = p /\ writer'.job = writer.job /\ writer' \in Writers(next_entry_id)
<1>1. /\ writer = [pc |-> writer.pc, job |-> writer.job]
      /\ writer.job \in [id : 1 .. next_entry_id - 1, key : Keys, last_used : Nat]
  BY Job
<1> QED BY <1>1 DEF Writers

(* A step of the write that touches temporary files only. *)
LEMMA TempStep ==
  ASSUME StoreInv, up, UNCHANGED <<next_entry_id, caller, loader, now, up, env>>,
         writer.pc \in {"opening", "writing"},
         writer'.pc \in {"writing", "written", "failed"}, writer'.job = writer.job,
         writer' \in Writers(next_entry_id),
         disk' \in Store, disk'.entries = disk.entries, disk'.queue = disk.queue,
         disk'.total_bytes = disk.total_bytes, disk'.pending_bytes = disk.pending_bytes,
         disk'.files = disk.files, disk'.stable = disk.stable, disk'.notified = disk.notified,
         \A m \in Names : disk'.tmp[m] # None => m = job_name,
         writer'.pc = "written" =>
           /\ disk'.tmp[job_name] = File(writer.job.key, writer.job.last_used, "whole")
           /\ \A g \in disk'.tmp_stable[job_name] :
                g # None => g.key = writer.job.key /\ g.bytes = "whole"
  PROVE  StoreInv'
<1> DEFINE w == writer'
           E == disk'
<1>1. /\ Indexed(disk, writer, next_entry_id) /\ Stored(disk, writer)
      /\ (~ env.rotted => Whole(disk)) /\ Tracked(disk, writer)
  BY Free DEF Consistent
<1>2. disk' = settle(disk')
  BY Free DEF settle, Store
<1>3. /\ Held(E) = Held(disk) /\ Unwritten(E) = Unwritten(disk) /\ Distinct(E) /\ Counted(E)
  BY <1>1, SameIndex DEF Indexed
<1>4. Indexed(E, w, next_entry_id)
  BY <1>1, <1>3 DEF Indexed, Queued, Written
<1>5. Stored(E, w) /\ (~ env.rotted => Whole(E))
  BY <1>1 DEF Stored, Whole
<1>6. Tracked(E, w)
  BY <1>1, <1>3 DEF Tracked, Shown, job_name
<1>7. Consistent(E, w, next_entry_id)
  BY <1>4, <1>5, <1>6 DEF Consistent
<1>8. NoWakeupLost'
  BY WriterWaits DEF mu_free
<1>9. caller' \in [Owners -> Callers] /\ E.total_bytes <= BudgetBytes
  BY Free
<1> QED BY <1>2, <1>7, <1>8, <1>9, WriterStep

LEMMA WriteStep ==
  ASSUME StoreInv, write_file_begins \/ write_file_ends \/ write_file_fails
  PROVE  StoreInv'
<1> DEFINE k == writer.job.key
           u == writer.job.last_used
<1>1. /\ up /\ writer.pc \in {"opening", "writing"}
      /\ UNCHANGED <<next_entry_id, caller, loader, now, up, env>>
  BY DEF write_file_begins, write_file_ends, write_file_fails
<1>2. /\ disk.tmp \in [Names -> Contents] /\ disk.tmp_stable \in [Names -> SUBSET Contents]
      /\ \A m \in Names : disk.tmp[m] # None => m = job_name
  BY <1>1, Free DEF Consistent, Tracked, Store, job_name
<1>3. /\ job_name \in Names
      /\ File(k, u, "whole") \in Contents /\ File(k, u, "short") \in Contents
      /\ File(k, u, "damaged") \in Contents /\ None \in Contents
  BY <1>1, Job DEF Contents
<1>4. CASE write_file_begins
  <2> DEFINE t == [disk.tmp EXCEPT ![job_name] = File(k, u, "short")]
             s == [disk.tmp_stable EXCEPT ![job_name] = @ \cup Torn(k, u)]
  <2>1. t \in [Names -> Contents] /\ s \in [Names -> SUBSET Contents]
    BY <1>2, <1>3 DEF Torn
  <2>2. \A m \in Names : t[m] # None => m = job_name
    BY <1>2, <1>3
  <2>3. disk' = [disk EXCEPT !.tmp = t, !.tmp_stable = s] /\ writer' = [writer EXCEPT !.pc = "writing"]
    BY <1>4, Free DEF write_file_begins, Store
  <2> HIDE DEF t, s
  <2>4. /\ disk' \in Store /\ disk'.entries = disk.entries /\ disk'.queue = disk.queue
        /\ disk'.total_bytes = disk.total_bytes /\ disk'.pending_bytes = disk.pending_bytes
        /\ disk'.files = disk.files /\ disk'.stable = disk.stable
        /\ disk'.notified = disk.notified /\ disk'.tmp = t /\ disk'.tmp_stable = s
    BY <2>1, <2>3, Free DEF Store
  <2>5. /\ writer'.pc = "writing" /\ writer'.job = writer.job
        /\ writer' \in Writers(next_entry_id)
    BY <1>1, <2>3, WriterPc
  <2> QED BY <1>1, <2>2, <2>4, <2>5, TempStep
<1>5. CASE write_file_ends
  <2> DEFINE t == [disk.tmp EXCEPT ![job_name] = File(k, u, "whole")]
             s == [disk.tmp_stable EXCEPT ![job_name] = {None, File(k, u, "whole")}]
  <2>1. t \in [Names -> Contents] /\ s \in [Names -> SUBSET Contents]
    BY <1>2, <1>3
  <2>2. \A m \in Names : t[m] # None => m = job_name
    BY <1>2, <1>3
  <2>3. /\ t[job_name] = File(k, u, "whole")
        /\ \A g \in s[job_name] : g # None => g.key = k /\ g.bytes = "whole"
    BY <1>2, <1>3 DEF File
  <2>4. disk' = [disk EXCEPT !.tmp = t, !.tmp_stable = s] /\ writer' = [writer EXCEPT !.pc = "written"]
    BY <1>5, Free DEF write_file_ends, Store
  <2> HIDE DEF t, s
  <2>5. /\ disk' \in Store /\ disk'.entries = disk.entries /\ disk'.queue = disk.queue
        /\ disk'.total_bytes = disk.total_bytes /\ disk'.pending_bytes = disk.pending_bytes
        /\ disk'.files = disk.files /\ disk'.stable = disk.stable
        /\ disk'.notified = disk.notified /\ disk'.tmp = t /\ disk'.tmp_stable = s
    BY <2>1, <2>4, Free DEF Store
  <2>6. /\ writer'.pc = "written" /\ writer'.job = writer.job
        /\ writer' \in Writers(next_entry_id)
    BY <1>1, <2>4, WriterPc
  <2> QED BY <1>1, <2>2, <2>3, <2>5, <2>6, TempStep
<1>6. CASE write_file_fails
  <2>1. disk' = disk /\ writer' = [writer EXCEPT !.pc = "failed"]
    BY <1>6 DEF write_file_fails
  <2>2. /\ writer'.pc = "failed" /\ writer'.job = writer.job
        /\ writer' \in Writers(next_entry_id)
    BY <1>1, <2>1, WriterPc
  <2> QED BY <1>1, <1>2, <2>1, <2>2, Free, TempStep
<1> QED BY <1>4, <1>5, <1>6

LEMMA RenamesStep ==
  ASSUME StoreInv, writer_renames
  PROVE  StoreInv'
<1> DEFINE n == job_name
           k == writer.job.key
           f == File(k, writer.job.last_used, "whole")
           F == [disk.files EXCEPT ![n] = disk.tmp[n]]
           S == [disk.stable EXCEPT ![n] = @ \cup (disk.tmp_stable[n] \ {None})]
           T == [disk.tmp EXCEPT ![n] = None]
           E == disk'
           w == writer'
<1>1. /\ up /\ writer.pc = "written" /\ find_entry_id(disk, writer.job.id) # {}
      /\ writer' = [writer EXCEPT !.pc = "renamed"]
      /\ disk' = [disk EXCEPT !.files = F, !.stable = S, !.tmp = T]
      /\ UNCHANGED <<next_entry_id, caller, loader, now, up, env>>
  BY Free DEF writer_renames, Store
<1>2. /\ Indexed(disk, writer, next_entry_id) /\ Stored(disk, writer)
      /\ (~ env.rotted => Whole(disk)) /\ Tracked(disk, writer)
  BY <1>1, Free DEF Consistent
<1>3. /\ disk.files \in [Names -> Contents] /\ disk.stable \in [Names -> SUBSET Contents]
      /\ disk.tmp \in [Names -> Contents] /\ disk.tmp_stable \in [Names -> SUBSET Contents]
  BY Free DEF Store
<1>4. /\ n \in Names /\ f \in Contents /\ None \in Contents /\ f # None
      /\ f.key = k /\ f.bytes = "whole" /\ Hash[k] = n
  BY <1>1, Job, StoreAssumption DEF Contents, File, job_name
<1>5. disk.tmp[n] = f
  BY <1>1, <1>2 DEF Tracked, job_name
<1>6. \A g \in disk.tmp_stable[n] : g # None => g.key = k /\ g.bytes = "whole"
  BY <1>1, <1>2 DEF Tracked, job_name
<1> HIDE DEF n, k, f
<1>7. /\ F \in [Names -> Contents] /\ S \in [Names -> SUBSET Contents] /\ T \in [Names -> Contents]
      /\ F[n] = f /\ S[n] = disk.stable[n] \cup (disk.tmp_stable[n] \ {None}) /\ T[n] = None
      /\ \A m \in Names \ {n} : F[m] = disk.files[m] /\ S[m] = disk.stable[m] /\ T[m] = disk.tmp[m]
  BY <1>3, <1>4, <1>5
<1> HIDE DEF F, S, T
<1>8. /\ E \in Store /\ E.entries = disk.entries /\ E.queue = disk.queue
      /\ E.total_bytes = disk.total_bytes /\ E.pending_bytes = disk.pending_bytes
      /\ E.files = F /\ E.stable = S /\ E.notified = disk.notified
      /\ E.tmp = T /\ E.tmp_stable = disk.tmp_stable
  BY <1>1, <1>7, Free DEF Store
<1>9. w.pc = "renamed" /\ w.job = writer.job /\ w \in Writers(next_entry_id)
  BY <1>1, WriterPc
<1>10. disk' = settle(disk')
  BY <1>8, Free DEF settle, Store
<1>11. /\ Held(E) = Held(disk) /\ Unwritten(E) = Unwritten(disk) /\ Distinct(E) /\ Counted(E)
  BY <1>2, <1>8, SameIndex DEF Indexed
<1>12. PICK e \in Held(disk) : e.id = writer.job.id /\ e.pending /\ e.key = k
  <2>1. PICK i \in Positions(disk) : disk.entries[i].id = writer.job.id
    BY <1>1 DEF find_entry_id
  <2>2. disk.entries[i] \in Held(disk)
    BY DEF Held
  <2> QED BY <1>2, <2>1, <2>2 DEF Indexed, Written, k
<1>13. \A d \in Held(disk) : ~ d.pending => Hash[d.key] # n
  <2>1. \A d \in Held(disk) : Hash[d.key] = Hash[e.key] => d = e
    BY <1>2, <1>12, Free, HeldDistinct DEF Indexed
  <2> QED BY <1>4, <1>12, <2>1
<1>14. Indexed(E, w, next_entry_id)
  BY <1>2, <1>8, <1>9, <1>11, <1>12 DEF Indexed, Queued, Written
<1>15. Stored(E, w)
  <2> SUFFICES ASSUME NEW m \in Names
               PROVE  /\ \A g \in S[m] \cup {F[m]} : g # None => Hash[g.key] = m
                      /\ F[m] # None /\ m # n => \A g \in S[m] : g # None /\ g.key = F[m].key
    BY <1>4, <1>8, <1>9 DEF Stored, k
  <2>1. /\ \A g \in disk.stable[m] \cup {disk.files[m]} : g # None => Hash[g.key] = m
        /\ disk.files[m] # None => \A g \in disk.stable[m] : g # None /\ g.key = disk.files[m].key
    BY <1>1, <1>2 DEF Stored
  <2>2. CASE m = n
    BY <1>4, <1>6, <1>7, <2>1, <2>2
  <2>3. CASE m # n
    BY <1>7, <2>1, <2>3
  <2> QED BY <2>2, <2>3
<1>16. ~ env.rotted => Whole(E)
  <2> SUFFICES ASSUME ~ env.rotted, NEW m \in Names, NEW g \in S[m] \cup {F[m]}, g # None
               PROVE  g.bytes = "whole"
    BY <1>8 DEF Whole
  <2>1. \A h \in disk.stable[m] \cup {disk.files[m]} : h # None => h.bytes = "whole"
    BY <1>2 DEF Whole
  <2>2. CASE m = n
    BY <1>4, <1>6, <1>7, <2>1, <2>2
  <2>3. CASE m # n
    BY <1>7, <2>1, <2>3
  <2> QED BY <2>2, <2>3
<1>17. Tracked(E, w)
  <2>1. Shown(E, w)
    <3> SUFFICES ASSUME NEW m \in Names
                 PROVE  F[m] # None <=> \/ \E d \in Held(disk) : ~ d.pending /\ Hash[d.key] = m
                                        \/ m = n
      BY <1>4, <1>8, <1>9, <1>11 DEF Shown, k
    <3>1. disk.files[m] # None <=> \E d \in Held(disk) : ~ d.pending /\ Hash[d.key] = m
      BY <1>1, <1>2 DEF Tracked, Shown
    <3> QED BY <1>4, <1>7, <3>1
  <2>2. \A d \in Held(E) : ~ d.pending => E.files[Hash[d.key]].key = d.key
    <3>1. \A d \in Held(disk) : Hash[d.key] \in Names
      BY Free, Index
    <3> QED BY <1>2, <1>7, <1>8, <1>11, <1>13, <3>1 DEF Tracked
  <2>3. E.files[Hash[w.job.key]].key = w.job.key
    BY <1>4, <1>7, <1>8, <1>9 DEF k
  <2>4. \A m \in Names : E.tmp[m] = None
    BY <1>2, <1>4, <1>7, <1>8 DEF Tracked, k
  <2>5. \A g \in E.tmp_stable[Hash[w.job.key]] : g # None => g.key = w.job.key /\ g.bytes = "whole"
    BY <1>4, <1>6, <1>8, <1>9 DEF k
  <2> QED BY <1>9, <2>1, <2>2, <2>3, <2>4, <2>5 DEF Tracked
<1>18. Consistent(E, w, next_entry_id)
  BY <1>14, <1>15, <1>16, <1>17 DEF Consistent
<1>19. NoWakeupLost'
  BY <1>9 DEF NoWakeupLost, mu_free
<1>20. caller' \in [Owners -> Callers] /\ E.total_bytes <= BudgetBytes
  BY <1>1, <1>8, Free
<1> QED BY <1>1, <1>9, <1>10, <1>18, <1>19, <1>20, WriterStep

(* What the sync of a directory settles. *)
LEMMA SyncProps ==
  ASSUME NEW D \in Store, NEW n \in Names
  PROVE  LET E == sync_directory(D, n)
         IN  /\ E \in Store /\ E.entries = D.entries /\ E.queue = D.queue
             /\ E.total_bytes = D.total_bytes /\ E.pending_bytes = D.pending_bytes
             /\ E.files = D.files /\ E.tmp = D.tmp /\ E.notified = D.notified
             /\ E.stable[n] = D.tmp_stable[n] \ {None}
             /\ \A m \in Names \ {n} : E.stable[m] = D.stable[m]
                                       \/ (D.files[m] = None /\ E.stable[m] = {None})
<1> DEFINE synced == {m \in Names : dir_of(m) = dir_of(n)}
           S == [m \in Names |-> IF m = n THEN D.tmp_stable[n] \ {None}
                                 ELSE IF m \in synced /\ D.files[m] = None THEN {None}
                                 ELSE D.stable[m]]
           T == [m \in Names |-> IF m \in synced THEN {None} ELSE D.tmp_stable[m]]
           E == sync_directory(D, n)
<1>1. E = [D EXCEPT !.stable = S, !.tmp_stable = T]
  BY DEF sync_directory
<1>2. /\ D.stable \in [Names -> SUBSET Contents] /\ D.tmp_stable \in [Names -> SUBSET Contents]
      /\ {None} \in SUBSET Contents
  BY DEF Store, Contents
<1> HIDE DEF synced, E
<1>3. /\ S \in [Names -> SUBSET Contents] /\ T \in [Names -> SUBSET Contents]
      /\ S[n] = D.tmp_stable[n] \ {None}
      /\ \A m \in Names \ {n} : S[m] = D.stable[m] \/ (D.files[m] = None /\ S[m] = {None})
  BY <1>2
<1> HIDE DEF S, T
<1>4. /\ E \in Store /\ E.entries = D.entries /\ E.queue = D.queue
      /\ E.total_bytes = D.total_bytes /\ E.pending_bytes = D.pending_bytes
      /\ E.files = D.files /\ E.tmp = D.tmp /\ E.notified = D.notified /\ E.stable = S
  BY <1>1, <1>3 DEF Store
<1> QED BY <1>3, <1>4 DEF E

(* The published file is the job's whatever happens next, and what was *)
(* removed stays so. *)
LEMMA SyncStored ==
  ASSUME NEW D \in Store, NEW w, NEW v, NEW k \in Keys, Stored(D, w),
         w.pc = "renamed", w.job.key = k, v.pc # "renamed", D.files[Hash[k]].key = k,
         \A g \in D.tmp_stable[Hash[k]] : g # None => g.key = k /\ g.bytes = "whole"
  PROVE  LET E == sync_directory(D, Hash[k])
         IN  Stored(E, v) /\ (Whole(D) => Whole(E))
<1> DEFINE n == Hash[k]
           E == sync_directory(D, n)
<1>1. n \in Names
  BY DEF Names
<1>2. /\ E.files = D.files /\ E.stable[n] = D.tmp_stable[n] \ {None}
      /\ \A m \in Names \ {n} : E.stable[m] = D.stable[m]
                                \/ (D.files[m] = None /\ E.stable[m] = {None})
  BY <1>1, SyncProps
<1> HIDE DEF E
<1>3. Stored(E, v)
  <2> SUFFICES ASSUME NEW m \in Names
               PROVE  /\ \A f \in E.stable[m] \cup {E.files[m]} : f # None => Hash[f.key] = m
                      /\ E.files[m] # None => \A g \in E.stable[m] : g # None /\ g.key = E.files[m].key
    BY DEF Stored
  <2>1. /\ \A f \in D.stable[m] \cup {D.files[m]} : f # None => Hash[f.key] = m
        /\ D.files[m] # None /\ m # n =>
             \A g \in D.stable[m] : g # None /\ g.key = D.files[m].key
    BY DEF Stored
  <2>2. CASE m = n
    BY <1>2, <2>1, <2>2
  <2>3. CASE m # n
    BY <1>2, <2>1, <2>3
  <2> QED BY <2>2, <2>3
<1>4. ASSUME Whole(D) PROVE Whole(E)
  <2> SUFFICES ASSUME NEW m \in Names, NEW f \in E.stable[m] \cup {E.files[m]}, f # None
               PROVE  f.bytes = "whole"
    BY DEF Whole
  <2>1. \A g \in D.stable[m] \cup {D.files[m]} : g # None => g.bytes = "whole"
    BY <1>4 DEF Whole
  <2>2. CASE m = n
    BY <1>2, <2>1, <2>2
  <2>3. CASE m # n
    BY <1>2, <2>1, <2>3
  <2> QED BY <2>2, <2>3
<1> QED BY <1>3, <1>4 DEF E

(* A notification leaves nobody asleep. *)
LEMMA AllWoken ==
  ASSUME StoreInv, NEW E, E.notified, caller' = woken(E)
  PROVE  NoWakeupLost' /\ caller' \in [Owners -> Callers]
<1>1. caller' \in [Owners -> Callers] /\ caller \in [Owners -> Callers]
  BY WokenCallers
<1>2. \A o \in Owners : caller'[o] = [caller[o] EXCEPT !.awake = caller[o].pc # "idle"]
  BY DEF woken
<1>3. ASSUME NEW c \in Callers, NEW d, d = [c EXCEPT !.awake = c.pc # "idle"], d.pc # "idle"
      PROVE  d.awake
  BY <1>3 DEF Callers
<1>4. ASSUME NEW o \in Owners, caller'[o].pc # "idle" PROVE caller'[o].awake
  BY <1>1, <1>2, <1>3, <1>4
<1> QED BY <1>1, <1>4 DEF NoWakeupLost

(* The entry at p is on disk now, and nothing is being written. *)
LEMMA PublishedIndexed ==
  ASSUME NEW D, NEW w, NEW v, NEW n, Indexed(D, w, n), v.pc = "idle", v.job.id = 0,
         NEW p \in Positions(D), D.entries[p].id = w.job.id, D.entries[p].pending,
         NEW E \in Store, Positions(E) = Positions(D), E.queue = D.queue,
         \A i \in Positions(D) : /\ E.entries[i].id = D.entries[i].id
                                 /\ E.entries[i].key = D.entries[i].key
                                 /\ E.entries[i].pending <=> D.entries[i].pending /\ i # p,
         E.total_bytes = D.total_bytes, E.pending_bytes = Less(D.pending_bytes, Bytes(D, {p}))
  PROVE  Indexed(E, v, n)
<1> DEFINE P == Positions(D)
           W == {i \in P : D.entries[i].pending}
<1>1. /\ D \in Store /\ D.entries \in Seq(Entry) /\ E.entries \in Seq(Entry)
      /\ Distinct(D) /\ Counted(D) /\ Queued(D, w) /\ \A e \in Held(D) : e.id < n
  BY DEF Indexed, Store
<1>2. Distinct(E)
  BY <1>1 DEF Distinct
<1>3. \A e \in Held(E) : e.id < n
  BY <1>1 DEF Held
<1>4. Queued(E, v)
  <2> DEFINE A == {e.id : e \in Unwritten(D)}
             B == {e.id : e \in Unwritten(E)}
  <2>1. ToSet(D.queue) = A \ {w.job.id} /\ IsInjective(D.queue)
    BY <1>1 DEF Queued
  <2>2. \A i \in W : D.entries[i].id # 0 /\ (D.entries[i].id = w.job.id <=> i = p)
    BY <1>1, Index DEF Distinct, Entry
  <2>3. \A x : x \in A <=> \E i \in W : x = D.entries[i].id
    BY DEF Unwritten, Held
  <2>4. \A x : x \in B <=> \E i \in W : i # p /\ x = D.entries[i].id
    BY DEF Unwritten, Held
  <2> HIDE DEF A, B, W, P
  <2>5. \A x : x \in A \ {w.job.id} <=> x \in B \ {0}
    BY <2>2, <2>3, <2>4
  <2>6. ToSet(E.queue) = B \ {v.job.id}
    BY <2>1, <2>5
  <2> QED BY <2>1, <2>6 DEF Queued, B
<1>5. Counted(E)
  <2>1. \A J \in SUBSET P : Bytes(E, J) = Bytes(D, J)
    <3> SUFFICES ASSUME NEW J \in SUBSET P PROVE Bytes(E, J) = Bytes(D, J)
      OBVIOUS
    <3>1. [i \in J |-> Size[E.entries[i].key]] = [i \in J |-> Size[D.entries[i].key]]
      OBVIOUS
    <3> QED BY <3>1 DEF Bytes
  <2>2. W \in SUBSET P /\ {p} \in SUBSET W /\ P \in SUBSET Positions(D)
    OBVIOUS
  <2>3. {i \in Positions(E) : E.entries[i].pending} = W \ {p}
    OBVIOUS
  <2>4. D.total_bytes = Bytes(D, P) /\ D.pending_bytes = Bytes(D, W)
    BY <1>1 DEF Counted
  <2> HIDE DEF W, P
  <2>5. Bytes(D, W) = Bytes(D, {p}) + Bytes(D, W \ {p})
    BY <1>1, <2>2, BytesSplit
  <2>6. Bytes(D, {p}) \in Nat /\ Bytes(D, W \ {p}) \in Nat
    <3>1. {p} \in SUBSET Positions(D) /\ W \ {p} \in SUBSET Positions(D)
      BY <2>2
    <3> QED BY <1>1, <3>1, BytesNat
  <2>7. E.pending_bytes = Bytes(D, W \ {p})
    BY <2>4, <2>5, <2>6 DEF Less
  <2>8. Bytes(E, W \ {p}) = Bytes(D, W \ {p}) /\ Bytes(E, P) = Bytes(D, P)
    BY <2>1, <2>2
  <2> QED BY <2>3, <2>4, <2>7, <2>8 DEF Counted, P
<1>6. Written(E, v)
  <2>1. \A e \in Held(E) : e.id # 0
    BY <1>1, Index DEF Entry
  <2> QED BY <2>1 DEF Written
<1> QED BY <1>2, <1>3, <1>4, <1>5, <1>6 DEF Indexed

LEMMA PublishesStep ==
  ASSUME StoreInv, writer_publishes
  PROVE  StoreInv'
<1> DEFINE n == job_name
           k == writer.job.key
           at == find_entry_id(disk, writer.job.id)
           used == {disk.entries[i].last_used : i \in at} \ {writer.job.last_used}
           D == sync_directory(disk, n)
           X == IF used # {} THEN stamp(D, n, Max(used)) ELSE D
           s == [i \in Positions(D) |-> [D.entries[i] EXCEPT !.pending = @ /\ i \notin at]]
           b == Less(X.pending_bytes, Bytes(disk, at))
           E == [X EXCEPT !.pending_bytes = b, !.entries = s, !.notified = TRUE]
           v == [pc |-> "idle", job |-> NoJob]
           P == Positions(disk)
<1>1. /\ up /\ writer.pc = "renamed" /\ disk' = settle(E) /\ caller' = woken(E) /\ writer' = v
      /\ UNCHANGED <<next_entry_id, abort_write, loader, now, up, env>>
  BY DEF writer_publishes
<1>2. /\ Indexed(disk, writer, next_entry_id) /\ Stored(disk, writer)
      /\ (~ env.rotted => Whole(disk)) /\ Tracked(disk, writer)
  BY <1>1, Free DEF Consistent
<1>3. /\ n \in Names /\ k \in Keys /\ Hash[k] = n /\ disk.files[n].key = k
      /\ \A g \in disk.tmp_stable[n] : g # None => g.key = k /\ g.bytes = "whole"
  BY <1>1, <1>2, Job DEF job_name, Tracked
<1>4. v.pc = "idle" /\ v.job.id = 0 /\ v \in Writers(next_entry_id)
  BY DEF NoJob, Writers
<1>5. /\ P = 1 .. Len(disk.entries) /\ Len(disk.entries) \in Nat
      /\ \A i \in P : disk.entries[i] \in Entry
  BY Free, Index
<1>6. PICK p \in P : /\ disk.entries[p].id = writer.job.id /\ disk.entries[p].pending
                     /\ disk.entries[p].key = k
  <2>1. PICK e \in Held(disk) : e.id = writer.job.id /\ e.pending /\ e.key = k
    BY <1>1, <1>2 DEF Indexed, Written
  <2> QED BY <2>1 DEF Held
<1>7. at = {p}
  BY <1>2, <1>6 DEF find_entry_id, Indexed, Distinct
<1>8. used # {} => Max(used) \in Nat
  <2> DEFINE x == disk.entries[p].last_used
  <2>1. x \in Nat
    BY <1>5 DEF Entry
  <2>2. used \in SUBSET {x}
    BY <1>7
  <2> HIDE DEF x, used
  <2>3. used # {} => used = {x}
    BY <2>2
  <2>4. Max({x}) = x
    <3>1. \E y \in {x} : \A z \in {x} : y >= z
      BY <2>1
    <3> QED BY <3>1 DEF Max
  <2> QED BY <2>1, <2>3, <2>4
<1> HIDE DEF at, used, v, n, k
<1>9. /\ D \in Store /\ D.entries = disk.entries /\ D.queue = disk.queue
      /\ D.total_bytes = disk.total_bytes /\ D.pending_bytes = disk.pending_bytes
      /\ D.files = disk.files /\ D.tmp = disk.tmp
  BY <1>3, Free, SyncProps
<1>10. Stored(D, v) /\ (Whole(disk) => Whole(D))
  <2>1. D = sync_directory(disk, Hash[k])
    BY <1>3
  <2> HIDE DEF D
  <2> QED BY <1>1, <1>2, <1>3, <1>4, <2>1, Free, SyncStored DEF k
<1> HIDE DEF D
<1>11. /\ X \in Store /\ X.entries = disk.entries /\ X.queue = disk.queue
       /\ X.total_bytes = disk.total_bytes /\ X.pending_bytes = disk.pending_bytes
       /\ X.tmp = disk.tmp
       /\ \A m \in Names : /\ X.files[m] = None <=> disk.files[m] = None
                           /\ disk.files[m] # None => X.files[m].key = disk.files[m].key
  <2>1. CASE used # {}
    <3> DEFINE Y == stamp(D, n, Max(used))
    <3>1. /\ Y \in Store /\ Y.entries = D.entries /\ SameEntries(D, Y) /\ Y.tmp = D.tmp
          /\ \A m \in Names \ {n} : Y.files[m] = D.files[m]
          /\ D.files[n] = None => Y.files[n] = None
          /\ D.files[n] # None => Y.files[n] # None /\ Y.files[n].key = D.files[n].key
      BY <1>3, <1>8, <1>9, <2>1, StampProps
    <3>2. X = Y
      BY <2>1
    <3> HIDE DEF X, Y
    <3> QED BY <1>9, <3>1, <3>2 DEF SameEntries
  <2>2. CASE used = {}
    BY <1>9, <2>2
  <2> QED BY <2>1, <2>2
<1>12. Stored(X, v) /\ (~ env.rotted => Whole(X))
  <2>1. CASE used # {}
    BY <1>2, <1>3, <1>8, <1>9, <1>10, <2>1, StampStored
  <2>2. CASE used = {}
    BY <1>2, <1>10, <2>2
  <2> QED BY <2>1, <2>2
<1> HIDE DEF X
<1>13. /\ s \in Seq(Entry) /\ DOMAIN s = P
       /\ \A i \in P : /\ s[i].id = disk.entries[i].id /\ s[i].key = disk.entries[i].key
                       /\ s[i].pending <=> disk.entries[i].pending /\ i # p
  <2>1. Positions(D) = P
    BY <1>9 DEF Positions
  <2>2. \A i \in P : s[i] = [disk.entries[i] EXCEPT !.pending = @ /\ i # p]
    BY <1>7, <1>9, <2>1
  <2>3. DOMAIN s = P
    BY <2>1
  <2> HIDE DEF s
  <2>4. \A i \in P : /\ s[i] \in Entry
                     /\ s[i].id = disk.entries[i].id /\ s[i].key = disk.entries[i].key
                     /\ s[i].pending <=> disk.entries[i].pending /\ i # p
    <3>1. ASSUME NEW e \in Entry, NEW c \in BOOLEAN, NEW d, d = [e EXCEPT !.pending = @ /\ c]
          PROVE  d \in Entry /\ d.id = e.id /\ d.key = e.key /\ (d.pending <=> e.pending /\ c)
      BY <3>1 DEF Entry
    <3> SUFFICES ASSUME NEW i \in P
                 PROVE  /\ s[i] \in Entry
                        /\ s[i].id = disk.entries[i].id /\ s[i].key = disk.entries[i].key
                        /\ s[i].pending <=> disk.entries[i].pending /\ i # p
      OBVIOUS
    <3> DEFINE c == i # p
    <3>2. disk.entries[i] \in Entry /\ c \in BOOLEAN /\ s[i] = [disk.entries[i] EXCEPT !.pending = @ /\ c]
      BY <1>5, <2>2
    <3> HIDE DEF c
    <3>3. /\ s[i] \in Entry
          /\ s[i].id = disk.entries[i].id /\ s[i].key = disk.entries[i].key
          /\ s[i].pending <=> disk.entries[i].pending /\ c
      BY <3>1, <3>2
    <3> QED BY <3>3 DEF c
  <2>5. s = [i \in 1 .. Len(disk.entries) |-> s[i]]
    BY <1>5, <2>2, <2>3 DEF s
  <2>6. s \in Seq(Entry)
    BY <1>5, <2>4, <2>5
  <2> QED BY <2>3, <2>4, <2>6
<1>14. b \in Nat /\ b = Less(disk.pending_bytes, Bytes(disk, {p}))
  <2>1. Bytes(disk, {p}) \in Nat /\ disk.pending_bytes \in Nat
    BY Free, BytesNat DEF Store
  <2> QED BY <1>7, <1>11, <2>1 DEF Less
<1> HIDE DEF s, b
<1>15. /\ E \in Store /\ E.entries = s /\ E.queue = disk.queue
       /\ E.total_bytes = disk.total_bytes /\ E.pending_bytes = b
       /\ E.files = X.files /\ E.stable = X.stable /\ E.notified
       /\ E.tmp = disk.tmp /\ E.tmp_stable = X.tmp_stable
  BY <1>11, <1>13, <1>14 DEF Store
<1> HIDE DEF E
<1>16. Positions(E) = P
  BY <1>13, <1>15 DEF Positions
<1>17. Indexed(E, v, next_entry_id)
  <2>1. \A i \in Positions(disk) : /\ E.entries[i].id = disk.entries[i].id
                                   /\ E.entries[i].key = disk.entries[i].key
                                   /\ E.entries[i].pending <=> disk.entries[i].pending /\ i # p
    BY <1>13, <1>15
  <2>2. /\ E \in Store /\ Positions(E) = Positions(disk) /\ E.queue = disk.queue
        /\ E.total_bytes = disk.total_bytes
        /\ E.pending_bytes = Less(disk.pending_bytes, Bytes(disk, {p}))
    BY <1>14, <1>15, <1>16
  <2> QED BY <1>1, <1>2, <1>4, <1>6, <2>1, <2>2, PublishedIndexed
<1>18. Stored(E, v) /\ (~ env.rotted => Whole(E))
  BY <1>12, <1>15 DEF Stored, Whole
<1>19. \A e \in Held(E) : ~ e.pending <=> \/ \E d \in Held(disk) : ~ d.pending /\ d.key = e.key
                                          \/ e.key = k
  <2> SUFFICES ASSUME NEW i \in P
               PROVE  ~ s[i].pending <=> \/ \E d \in Held(disk) : ~ d.pending /\ d.key = s[i].key
                                         \/ s[i].key = k
    BY <1>15, <1>16 DEF Held
  <2>1. \A j \in P : disk.entries[j].key = disk.entries[i].key => i = j
    BY <1>2 DEF Indexed, Distinct
  <2>2. i = p <=> disk.entries[i].key = k
    BY <1>2, <1>6 DEF Indexed, Distinct
  <2> QED BY <1>13, <2>1, <2>2 DEF Held
<1>20. Tracked(E, v)
  <2>1. Shown(E, v)
    <3> SUFFICES ASSUME NEW m \in Names
                 PROVE  disk.files[m] # None <=> \E e \in Held(E) : ~ e.pending /\ Hash[e.key] = m
      BY <1>4, <1>11, <1>15 DEF Shown
    <3>1. disk.files[m] # None <=> \/ \E d \in Held(disk) : ~ d.pending /\ Hash[d.key] = m
                                   \/ m = n
      BY <1>1, <1>2, <1>3 DEF Tracked, Shown, k
    <3>2. \A e \in Held(disk) : \E f \in Held(E) : f.key = e.key
      BY <1>13, <1>15, <1>16 DEF Held
    <3>3. \E f \in Held(E) : f.key = k
      BY <1>6, <3>2 DEF Held
    <3> QED BY <1>3, <1>19, <3>1, <3>2, <3>3
  <2>2. \A e \in Held(E) : ~ e.pending => E.files[Hash[e.key]].key = e.key
    <3> SUFFICES ASSUME NEW e \in Held(E), ~ e.pending PROVE E.files[Hash[e.key]].key = e.key
      OBVIOUS
    <3>1. disk.files[Hash[e.key]] # None /\ disk.files[Hash[e.key]].key = e.key
      <4>1. CASE e.key = k
        BY <1>1, <1>2, <1>3, <4>1 DEF Tracked, Shown, k
      <4>2. CASE \E d \in Held(disk) : ~ d.pending /\ d.key = e.key
        BY <1>2, <4>2, Free, Index DEF Tracked, Shown
      <4> QED BY <1>19, <4>1, <4>2
    <3>2. Hash[e.key] \in Names
      BY <1>15, Index DEF Store
    <3> QED BY <1>11, <1>15, <3>1, <3>2
  <2>3. \A m \in Names : E.tmp[m] = None
    BY <1>1, <1>2, <1>15 DEF Tracked
  <2> QED BY <1>4, <2>1, <2>2, <2>3 DEF Tracked
<1>21. Consistent(E, v, next_entry_id)
  BY <1>17, <1>18, <1>20 DEF Consistent
<1>22. NoWakeupLost' /\ caller' \in [Owners -> Callers]
  BY <1>1, <1>15, AllWoken
<1>23. E.total_bytes <= BudgetBytes
  BY <1>15, Free
<1> QED BY <1>1, <1>4, <1>21, <1>22, <1>23, WriterStep

LEMMA DiscardsStep ==
  ASSUME StoreInv, writer_discards
  PROVE  StoreInv'
<1> DEFINE n == job_name
           at == find_entry_id(disk, writer.job.id)
           D == remove_entries(disk, at)
           T == [D.tmp EXCEPT ![n] = None]
           S == [D.tmp_stable EXCEPT ![n] = @ \cup {None}]
           E == [D EXCEPT !.tmp = T, !.tmp_stable = S, !.notified = TRUE]
           v == [pc |-> "idle", job |-> NoJob]
<1>1. /\ up /\ writer.pc \in {"written", "failed"} /\ writer' = v
      /\ UNCHANGED <<next_entry_id, abort_write, loader, now, up, env>>
      /\ disk' = settle([D EXCEPT !.tmp[n] = None, !.tmp_stable[n] = @ \cup {None},
                                  !.notified = TRUE])
      /\ caller' = woken([D EXCEPT !.tmp[n] = None, !.tmp_stable[n] = @ \cup {None},
                                   !.notified = TRUE])
  BY DEF writer_discards
<1>2. v.pc = "idle" /\ v.job.id = 0 /\ v \in Writers(next_entry_id) /\ n \in Names
  BY <1>1, Job DEF NoJob, Writers
<1>3. at \in SUBSET Positions(disk) /\ {disk.entries[i] : i \in at}
        = {e \in Held(disk) : e.id = writer.job.id}
  BY DEF find_entry_id, Held
<1> HIDE DEF at, v
<1>4. /\ Consistent(D, writer, next_entry_id)
      /\ Held(D) = Held(disk) \ {disk.entries[i] : i \in at}
      /\ D.total_bytes <= disk.total_bytes
  BY <1>1, <1>3, Free, RemoveConsistent
<1> HIDE DEF D
<1>5. /\ Indexed(D, writer, next_entry_id) /\ Stored(D, writer)
      /\ (~ env.rotted => Whole(D)) /\ Tracked(D, writer)
      /\ D \in Store /\ D.entries \in Seq(Entry) /\ D.total_bytes \in Nat
  BY <1>1, <1>4 DEF Consistent, Indexed, Store
<1>6. /\ T \in [Names -> Contents] /\ S \in [Names -> SUBSET Contents]
      /\ \A m \in Names : T[m] = None
  <2>1. D.tmp \in [Names -> Contents] /\ D.tmp_stable \in [Names -> SUBSET Contents]
    BY <1>5 DEF Store
  <2>2. \A m \in Names : D.tmp[m] # None => m = n
    BY <1>5 DEF Tracked, job_name
  <2> HIDE DEF n
  <2> QED BY <1>2, <2>1, <2>2 DEF Contents
<1>7. [D EXCEPT !.tmp[n] = None, !.tmp_stable[n] = @ \cup {None}, !.notified = TRUE] = E
  BY <1>5 DEF Store
<1> HIDE DEF T, S
<1>8. /\ E \in Store /\ E.entries = D.entries /\ E.queue = D.queue
      /\ E.total_bytes = D.total_bytes /\ E.pending_bytes = D.pending_bytes
      /\ E.files = D.files /\ E.stable = D.stable /\ E.notified /\ E.tmp = T
  BY <1>5, <1>6 DEF Store
<1>9. disk' = settle(E) /\ caller' = woken(E)
  BY <1>1, <1>7
<1> HIDE DEF E
<1>10. Held(E) = Held(D) /\ Unwritten(E) = Unwritten(D) /\ Distinct(E) /\ Counted(E)
  BY <1>5, <1>8, SameIndex DEF Indexed
<1>11. \A e \in Held(D) : e.id # writer.job.id /\ e.id # 0
  <2>1. Held(D) \in SUBSET Entry
    BY <1>5, Index
  <2> QED BY <1>3, <1>4, <2>1 DEF Entry
<1>12. Queued(E, v)
  <2>1. \A e \in Unwritten(D) : e.id # writer.job.id /\ e.id # v.job.id
    BY <1>2, <1>11 DEF Unwritten
  <2>2. {e.id : e \in Unwritten(D)} \ {writer.job.id} = {e.id : e \in Unwritten(D)} \ {v.job.id}
    BY <2>1
  <2> QED BY <1>5, <1>8, <1>10, <2>2 DEF Indexed, Queued
<1>13. Written(E, v)
  BY <1>2, <1>10, <1>11 DEF Written
<1>14. Indexed(E, v, next_entry_id)
  BY <1>5, <1>8, <1>10, <1>12, <1>13 DEF Indexed
<1>15. Stored(E, v) /\ (~ env.rotted => Whole(E))
  BY <1>1, <1>2, <1>5, <1>8 DEF Stored, Whole
<1>16. Tracked(E, v)
  BY <1>1, <1>2, <1>5, <1>6, <1>8, <1>10 DEF Tracked, Shown
<1>17. Consistent(E, v, next_entry_id)
  BY <1>14, <1>15, <1>16 DEF Consistent
<1>18. NoWakeupLost' /\ caller' \in [Owners -> Callers]
  BY <1>8, <1>9, AllWoken
<1>19. E.total_bytes <= BudgetBytes
  BY <1>4, <1>5, <1>8, Free, StoreAssumption
<1> QED BY <1>1, <1>2, <1>9, <1>17, <1>18, <1>19, WriterStep

-----------------------------------------------------------------------------
(* The process and its surroundings.                                       *)

(* An empty index is in order. *)
LEMMA EmptyIndexed ==
  ASSUME NEW D \in Store, D.entries = <<>>, D.queue = <<>>, D.total_bytes = 0,
         D.pending_bytes = 0, NEW v, v.pc = "idle", NEW n
  PROVE  Indexed(D, v, n) /\ Held(D) = {}
<1>1. Positions(D) = {} /\ Held(D) = {} /\ Unwritten(D) = {}
  BY DEF Positions, Held, Unwritten
<1>2. Distinct(D) /\ \A e \in Held(D) : e.id < n
  BY <1>1 DEF Distinct
<1>3. Queued(D, v)
  BY <1>1 DEF Queued, IsInjective, ToSet
<1>4. Counted(D)
  <2>1. Bytes(D, {}) = 0 /\ {i \in Positions(D) : D.entries[i].pending} = {}
    BY <1>1, BytesNone
  <2> QED BY <1>1, <2>1 DEF Counted
<1>5. Written(D, v)
  BY <1>1 DEF Written
<1> QED BY <1>1, <1>2, <1>3, <1>4, <1>5 DEF Indexed

(* The process ends; the directory holds what it held, or what a crash left. *)
LEMMA DownStep ==
  ASSUME StoreInv, Down, now' = now, ~ env'.rotted => ~ env.rotted,
         env' \in [events : Nat, rotted : BOOLEAN],
         disk' \in Store, disk'.entries = <<>>, disk'.queue = <<>>, disk'.total_bytes = 0,
         disk'.pending_bytes = 0, disk'.notified = FALSE,
         \A m \in Names :
           /\ disk'.stable[m] \cup {disk'.files[m]} \subseteq disk.stable[m] \cup {disk.files[m]}
           /\ disk'.files[m] # None =>
                \A g \in disk'.stable[m] : g # None /\ g.key = disk'.files[m].key
  PROVE  StoreInv'
<1>1. /\ up' = FALSE /\ next_entry_id' = 1 /\ writer' = [pc |-> "idle", job |-> NoJob]
      /\ caller' = [o \in Owners |-> Idle] /\ loader' = [o \in Owners |-> NotLoading]
  BY DEF Down
<1>2. writer'.pc = "idle" /\ writer' \in Writers(1)
  BY <1>1 DEF Writers
<1>3. /\ Idle \in Callers /\ NotLoading \in Loaders /\ NotLoading.pc = "idle"
      /\ now \in Nat /\ disk \in Store /\ Stored(disk, writer) /\ (~ env.rotted => Whole(disk))
  BY WokenCallers, Free DEF Loaders, NotLoading, Consistent
<1>4. ThreadsOK'
  <2>1. caller' \in [Owners -> Callers] /\ loader' \in [Owners -> Loaders]
    BY <1>1, <1>3
  <2>2. next_entry_id' \in Nat \ {0} /\ now' \in Nat /\ up' \in BOOLEAN
    <3>1. up' \in BOOLEAN
      BY <1>1
    <3>2. next_entry_id' \in Nat \ {0} /\ now' \in Nat
      <4>1. next_entry_id' = 1 /\ now' \in Nat
        BY <1>1, <1>3, Zenon
      <4> QED BY <4>1
    <3> QED BY <3>1, <3>2
  <2>3. writer' \in Writers(next_entry_id') /\ writer'.pc = "idle" /\ disk'.entries = <<>>
    BY <1>1, <1>2
  <2>4. \A o \in Owners : caller'[o] = Idle /\ loader'[o] = NotLoading
    BY <1>1
  <2> QED BY <2>1, <2>2, <2>3, <2>4 DEF ThreadsOK, Writers
<1>5. Indexed(disk', writer', 1)
  BY <1>2, EmptyIndexed
<1>6. Stored(disk', writer')
  <2>1. \A m \in Names : \A f \in disk'.stable[m] \cup {disk'.files[m]} : f # None => Hash[f.key] = m
    BY <1>3 DEF Stored
  <2> QED BY <2>1 DEF Stored
<1>7. ~ env'.rotted => Whole(disk')
  BY <1>3 DEF Whole
<1>8. Consistent(disk, writer, next_entry_id)'
  <2> DEFINE D == disk'
             w == writer'
  <2>1. Indexed(D, w, 1) /\ Stored(D, w) /\ (~ env'.rotted => Whole(D)) /\ next_entry_id' = 1 /\ up' = FALSE
    BY <1>1, <1>5, <1>6, <1>7
  <2> QED BY <2>1 DEF Consistent
<1>9. RestoreIsExact' /\ NoWakeupLost'
  BY <1>1, <1>3 DEF RestoreIsExact, NoWakeupLost
<1>10. disk'.total_bytes <= BudgetBytes
  BY StoreAssumption
<1> QED BY <1>4, <1>8, <1>9, <1>10 DEF StoreInv

LEMMA ClosedFields ==
  ASSUME NEW D \in Store
  PROVE  LET E == Closed(D)
         IN  /\ E \in Store /\ E.entries = <<>> /\ E.queue = <<>> /\ E.total_bytes = 0
             /\ E.pending_bytes = 0 /\ E.notified = FALSE
             /\ E.files = D.files /\ E.stable = D.stable
<1> DEFINE a == <<>>
           E == [D EXCEPT !.entries = a, !.queue = a, !.total_bytes = 0,
                          !.pending_bytes = 0, !.notified = FALSE]
<1>1. a \in Seq(Entry) /\ a \in Seq(Nat)
  OBVIOUS
<1>2. Closed(D) = E
  BY DEF Closed
<1> HIDE DEF a
<1>3. /\ E \in Store /\ E.entries = a /\ E.queue = a /\ E.total_bytes = 0
      /\ E.pending_bytes = 0 /\ E.notified = FALSE
      /\ E.files = D.files /\ E.stable = D.stable
  BY <1>1 DEF Store
<1> QED BY <1>2, <1>3 DEF a

LEMMA CloseStep ==
  ASSUME StoreInv, close
  PROVE  StoreInv'
<1>1. /\ writer.pc = "idle" /\ disk' = Closed(disk) /\ Down /\ now' = now /\ env' = env
      /\ env' \in [events : Nat, rotted : BOOLEAN]
  BY DEF close, StoreInv, ThreadsOK
<1>2. disk \in Store /\ Stored(disk, writer)
  BY Free DEF Consistent
<1>3. /\ disk' \in Store /\ disk'.entries = <<>> /\ disk'.queue = <<>> /\ disk'.total_bytes = 0
      /\ disk'.pending_bytes = 0 /\ disk'.notified = FALSE
      /\ disk'.files = disk.files /\ disk'.stable = disk.stable
  BY <1>1, <1>2, ClosedFields
<1>4. \A m \in Names : disk'.files[m] # None =>
        \A g \in disk'.stable[m] : g # None /\ g.key = disk'.files[m].key
  BY <1>1, <1>2, <1>3 DEF Stored
<1> QED BY <1>1, <1>3, <1>4, DownStep

LEMMA CrashStep ==
  ASSUME StoreInv, crash
  PROVE  StoreInv'
<1>1. PICK f \in [Names -> UNION {disk.stable[n] : n \in Names}],
           t \in [Names -> UNION {disk.tmp_stable[n] : n \in Names}] :
        /\ \A n \in Names : f[n] \in disk.stable[n] /\ t[n] \in disk.tmp_stable[n]
        /\ disk' = [Closed(disk) EXCEPT
                      !.files = f, !.stable = [n \in Names |-> {f[n]}],
                      !.tmp = t, !.tmp_stable = [n \in Names |-> {t[n]}]]
  BY DEF crash
<1>2. /\ Down /\ now' = now /\ (~ env'.rotted => ~ env.rotted)
      /\ env' \in [events : Nat, rotted : BOOLEAN]
  BY DEF crash, Happens, StoreInv, ThreadsOK
<1>3. /\ disk \in Store /\ disk.stable \in [Names -> SUBSET Contents]
      /\ disk.tmp_stable \in [Names -> SUBSET Contents]
  BY Free DEF Store
<1> DEFINE S == [n \in Names |-> {f[n]}]
           T == [n \in Names |-> {t[n]}]
<1>4. /\ f \in [Names -> Contents] /\ t \in [Names -> Contents]
      /\ S \in [Names -> SUBSET Contents] /\ T \in [Names -> SUBSET Contents]
      /\ \A n \in Names : S[n] = {f[n]}
  <2>1. \A n \in Names : f[n] \in Contents /\ t[n] \in Contents
    BY <1>1, <1>3
  <2>2. f = [n \in Names |-> f[n]] /\ t = [n \in Names |-> t[n]]
    BY <1>1
  <2> QED BY <2>1, <2>2
<1>5. disk' = [Closed(disk) EXCEPT !.files = f, !.stable = S, !.tmp = t, !.tmp_stable = T]
  BY <1>1
<1> HIDE DEF S, T
<1>6. /\ disk' \in Store /\ disk'.entries = <<>> /\ disk'.queue = <<>> /\ disk'.total_bytes = 0
      /\ disk'.pending_bytes = 0 /\ disk'.notified = FALSE
      /\ disk'.files = f /\ disk'.stable = S
  <2> DEFINE C == Closed(disk)
  <2>1. /\ C \in Store /\ C.entries = <<>> /\ C.queue = <<>> /\ C.total_bytes = 0
        /\ C.pending_bytes = 0 /\ C.notified = FALSE
    BY <1>3, ClosedFields
  <2> HIDE DEF C
  <2>2. disk' = [C EXCEPT !.files = f, !.stable = S, !.tmp = t, !.tmp_stable = T]
    BY <1>5 DEF C
  <2> QED BY <1>4, <2>1, <2>2 DEF Store
<1>7. \A m \in Names :
        /\ disk'.stable[m] \cup {disk'.files[m]} \subseteq disk.stable[m] \cup {disk.files[m]}
        /\ disk'.files[m] # None =>
             \A g \in disk'.stable[m] : g # None /\ g.key = disk'.files[m].key
  BY <1>1, <1>4, <1>6
<1> QED BY <1>2, <1>6, <1>7, DownStep

LEMMA TickStep ==
  ASSUME StoreInv, tick
  PROVE  StoreInv'
<1>1. /\ UNCHANGED <<disk, next_entry_id, writer, caller, loader, up>>
      /\ now' = MaxTime /\ env' = [env EXCEPT !.events = MaxEvents]
  BY DEF tick
<1>2. env' \in [events : Nat, rotted : BOOLEAN] /\ env'.rotted = env.rotted
  BY <1>1, StoreAssumption DEF StoreInv, ThreadsOK
<1>3. ThreadsOK'
  BY <1>1, <1>2, StoreAssumption DEF StoreInv, ThreadsOK
<1>4. Consistent(disk, writer, next_entry_id)'
  BY <1>1, <1>2 DEF StoreInv, Consistent
<1>5. RestoreIsExact'
  BY <1>1 DEF StoreInv, RestoreIsExact
<1>6. NoWakeupLost'
  BY <1>1 DEF StoreInv, NoWakeupLost, mu_free, backpressure, idle, mine, find_entry_id, Positions
<1> QED BY <1>1, <1>3, <1>4, <1>5, <1>6 DEF StoreInv

(* Damage changes no name and no key. *)
LEMMA RotsStep ==
  ASSUME StoreInv, NEW n \in Names, rots(n)
  PROVE  StoreInv'
<1> DEFINE f == [disk.files[n] EXCEPT !.bytes = "damaged"]
           R == {IF g = None THEN None ELSE [g EXCEPT !.bytes = "damaged"] : g \in disk.stable[n]}
           F == [disk.files EXCEPT ![n] = f]
           S == [disk.stable EXCEPT ![n] = R]
           E == disk'
<1>1. /\ mu_free /\ disk.files[n] # None
      /\ UNCHANGED <<next_entry_id, writer, abort_write, caller, loader, now, up>>
      /\ disk' = [disk EXCEPT !.files = F, !.stable = S]
  BY Free DEF rots, Store
<1>2. env' \in [events : Nat, rotted : BOOLEAN] /\ env'.rotted = TRUE
  <2> DEFINE r == env.rotted \/ TRUE
  <2>1. env' = [events |-> env.events + 1, rotted |-> r]
    BY DEF rots, Happens
  <2>2. env.events + 1 \in Nat
    BY DEF StoreInv, ThreadsOK
  <2>3. r = TRUE
    OBVIOUS
  <2> HIDE DEF r
  <2>4. env' = [events |-> env.events + 1, rotted |-> TRUE]
    BY <2>1, <2>3
  <2> QED BY <2>2, <2>4
<1>3. /\ disk.files \in [Names -> Contents] /\ disk.stable \in [Names -> SUBSET Contents]
      /\ disk.files[n] \in FileRecords
  BY <1>1, Free DEF Store, Contents
<1>4. ASSUME NEW g \in FileRecords, NEW h, h = [g EXCEPT !.bytes = "damaged"]
      PROVE  h \in Contents /\ h # None /\ h.key = g.key
  BY <1>4, StoreAssumption DEF FileRecords, Contents
<1>5. f \in Contents /\ f # None /\ f.key = disk.files[n].key
  <2> HIDE DEF f
  <2> QED BY <1>3, <1>4 DEF f
<1>6. \A h \in R : /\ h \in Contents
                  /\ \E g \in disk.stable[n] : (h # None <=> g # None) /\ (h # None => h.key = g.key)
  <2> SUFFICES ASSUME NEW g \in disk.stable[n], NEW h,
                      h = IF g = None THEN None ELSE [g EXCEPT !.bytes = "damaged"]
               PROVE  h \in Contents /\ (h # None <=> g # None) /\ (h # None => h.key = g.key)
    OBVIOUS
  <2>1. g \in Contents
    BY <1>3
  <2>2. CASE g = None
    BY <2>1, <2>2
  <2>3. CASE g # None
    <3>1. g \in FileRecords /\ h = [g EXCEPT !.bytes = "damaged"]
      BY <2>1, <2>3 DEF Contents
    <3> QED BY <1>4, <2>3, <3>1
  <2> QED BY <2>2, <2>3
<1> HIDE DEF f, R
<1>7. /\ F \in [Names -> Contents] /\ S \in [Names -> SUBSET Contents]
      /\ F[n] = f /\ S[n] = R
      /\ \A m \in Names \ {n} : F[m] = disk.files[m] /\ S[m] = disk.stable[m]
  BY <1>3, <1>5, <1>6
<1> HIDE DEF F, S
<1>8. /\ E \in Store /\ E.entries = disk.entries /\ E.queue = disk.queue
      /\ E.total_bytes = disk.total_bytes /\ E.pending_bytes = disk.pending_bytes
      /\ E.files = F /\ E.stable = S /\ E.notified = disk.notified
      /\ E.tmp = disk.tmp /\ E.tmp_stable = disk.tmp_stable
  BY <1>1, <1>7, Free DEF Store
<1>9. /\ Indexed(disk, writer, next_entry_id) /\ Stored(disk, writer)
      /\ (up => Tracked(disk, writer)) /\ writer.pc # "renamed"
  BY <1>1, Free DEF Consistent
<1>10. /\ Held(E) = Held(disk) /\ Unwritten(E) = Unwritten(disk) /\ Distinct(E) /\ Counted(E)
  BY <1>8, <1>9, SameIndex DEF Indexed
<1>11. Indexed(E, writer, next_entry_id)
  BY <1>8, <1>9, <1>10 DEF Indexed, Queued, Written
<1>12. Stored(E, writer)
  <2> SUFFICES ASSUME NEW m \in Names
               PROVE  /\ \A g \in S[m] \cup {F[m]} : g # None => Hash[g.key] = m
                      /\ F[m] # None => \A g \in S[m] : g # None /\ g.key = F[m].key
    BY <1>8 DEF Stored
  <2>1. /\ \A g \in disk.stable[m] \cup {disk.files[m]} : g # None => Hash[g.key] = m
        /\ disk.files[m] # None => \A g \in disk.stable[m] : g # None /\ g.key = disk.files[m].key
    BY <1>9 DEF Stored
  <2>2. CASE m = n
    BY <1>1, <1>5, <1>6, <1>7, <2>1, <2>2
  <2>3. CASE m # n
    BY <1>7, <2>1, <2>3
  <2> QED BY <2>2, <2>3
<1>13. ASSUME up PROVE Tracked(E, writer)
  <2>1. \A m \in Names : /\ F[m] = None <=> disk.files[m] = None
                         /\ F[m] # None => F[m].key = disk.files[m].key
    BY <1>1, <1>5, <1>7
  <2>2. \A e \in Held(disk) : Hash[e.key] \in Names
    BY Free, Index
  <2>3. Shown(E, writer)
    BY <1>8, <1>9, <1>10, <1>13, <2>1 DEF Tracked, Shown
  <2>4. \A e \in Held(E) : ~ e.pending => E.files[Hash[e.key]].key = e.key
    BY <1>8, <1>9, <1>10, <1>13, <2>1, <2>2, <2>3 DEF Tracked, Shown
  <2> QED BY <1>8, <1>9, <1>13, <2>3, <2>4 DEF Tracked
<1>14. Consistent(disk, writer, next_entry_id)'
  <2>1. Indexed(E, writer', next_entry_id') /\ Stored(E, writer') /\ (up' => Tracked(E, writer'))
    BY <1>1, <1>11, <1>12, <1>13
  <2> QED BY <1>2, <2>1 DEF Consistent
<1>15. ThreadsOK'
  BY <1>1, <1>2, <1>8 DEF StoreInv, ThreadsOK
<1>16. RestoreIsExact'
  BY <1>1 DEF StoreInv, RestoreIsExact
<1>17. NoWakeupLost'
  BY <1>1, <1>8, WriterWaits
<1>18. disk'.total_bytes <= BudgetBytes /\ disk'.notified = FALSE
  BY <1>8, Free
<1> QED BY <1>14, <1>15, <1>16, <1>17, <1>18 DEF StoreInv

-----------------------------------------------------------------------------
(* A listing of a finite set has each of its members once. *)
LEMMA ListedProps ==
  ASSUME NEW S, IsFiniteSet(S), NEW l \in SetToSeqs(S)
  PROVE  /\ Len(l) \in Nat /\ DOMAIN l = 1 .. Len(l)
         /\ \A i \in DOMAIN l : l[i] \in S
         /\ \A i, j \in DOMAIN l : l[i] = l[j] => i = j
         /\ \A x \in S : \E i \in DOMAIN l : l[i] = x
<1> DEFINE c == Cardinality(S)
           N == 1 .. c
<1>1. c \in Nat
  BY FS_CardinalityType
<1>2. l \in [N -> S] /\ \A i, j \in N : i # j => l[i] # l[j]
  BY DEF SetToSeqs
<1>3. DOMAIN l = N /\ Len(l) = c
  <2>1. DOMAIN l = N
    BY <1>2
  <2>2. l \in Seq(S)
    BY <1>1, <1>2
  <2>3. Len(l) \in Nat /\ DOMAIN l = 1 .. Len(l)
    BY <2>2
  <2> QED BY <1>1, <2>1, <2>3
<1>4. IsFiniteSet(N) /\ Cardinality(N) = c
  BY <1>1, FS_Interval
<1> HIDE DEF N, c
<1>5. l \in Injection(N, S)
  BY <1>2 DEF Injection, IsInjective
<1>6. l \in Surjection(N, S)
  BY <1>4, <1>5, FS_Injection DEF c
<1> QED BY <1>1, <1>2, <1>3, <1>6 DEF Surjection, N

(* What scan_all makes of a directory. *)
LEMMA ScanFields ==
  ASSUME NEW D \in Store, NEW l \in SetToSeqs(valid(D)), \A m \in Names : D.files[m] # None =>
           D.files[m] \in FileRecords
  PROVE  LET E == scan_all(D, l)
         IN  /\ E \in Store /\ E.queue = D.queue /\ E.pending_bytes = D.pending_bytes
             /\ Positions(E) = DOMAIN l /\ Len(E.entries) = Len(l)
             /\ \A i \in DOMAIN l : /\ E.entries[i].id = i /\ ~ E.entries[i].pending
                                    /\ E.entries[i].key = D.files[l[i]].key
             /\ E.total_bytes = Total([n \in valid(D) |-> Size[D.files[n].key]], valid(D))
             /\ \A m \in Names :
                  /\ E.files[m] = IF m \in valid(D) THEN D.files[m] ELSE None
                  /\ E.stable[m] = D.stable[m] \cup (IF m \in valid(D) THEN {} ELSE {None})
                  /\ E.tmp[m] = None
             /\ E.notified = D.notified
             /\ IsFiniteSet(valid(D)) /\ valid(D) \in SUBSET Names
<1> DEFINE V == valid(D)
           a == [i \in DOMAIN l |-> [id |-> i, key |-> D.files[l[i]].key,
                                     last_used |-> D.files[l[i]].used, pending |-> FALSE]]
           g == [n \in V |-> Size[D.files[n].key]]
           b == Total(g, V)
           F == [n \in Names |-> IF n \in V THEN D.files[n] ELSE None]
           S == [n \in Names |-> D.stable[n] \cup (IF n \in V THEN {} ELSE {None})]
           T == [n \in Names |-> None]
           U == [n \in Names |-> D.tmp_stable[n] \cup {None}]
           E == scan_all(D, l)
<1>1. E = [D EXCEPT !.entries = a, !.total_bytes = b, !.files = F, !.stable = S, !.tmp = T,
                    !.tmp_stable = U]
  BY DEF scan_all
<1>2. /\ IsFiniteSet(V) /\ V \in SUBSET Names
      /\ \A m \in V : D.files[m] \in FileRecords
  <2>1. IsFiniteSet(Names)
    <3>1. [k \in Keys |-> Hash[k]] \in Surjection(Keys, Names)
      BY DEF Surjection, Names
    <3> QED BY <3>1, StoreAssumption, FS_Surjection
  <2>2. V \in SUBSET Names /\ \A m \in V : D.files[m] # None
    BY DEF valid, validate_snapshot_file
  <2>3. IsFiniteSet(V)
    <3> HIDE DEF V
    <3> QED BY <2>1, <2>2, FS_Subset
  <2> QED BY <2>2, <2>3
<1>3. /\ D.files \in [Names -> Contents] /\ D.stable \in [Names -> SUBSET Contents]
      /\ D.tmp_stable \in [Names -> SUBSET Contents]
  BY DEF Store
<1> HIDE DEF V, E
<1>4. /\ Len(l) \in Nat /\ DOMAIN l = 1 .. Len(l) /\ \A i \in DOMAIN l : l[i] \in V
  BY <1>2, ListedProps DEF V
<1>5. a \in Seq(Entry) /\ Len(a) = Len(l) /\ DOMAIN a = DOMAIN l
  <2>1. \A i \in DOMAIN l : a[i] \in Entry
    <3> SUFFICES ASSUME NEW i \in DOMAIN l PROVE a[i] \in Entry
      OBVIOUS
    <3>1. D.files[l[i]] \in FileRecords /\ i \in Nat \ {0}
      BY <1>2, <1>4
    <3> QED BY <3>1 DEF Entry, FileRecords
  <2>2. a = [i \in 1 .. Len(l) |-> a[i]]
    BY <1>4
  <2> HIDE DEF a
  <2>3. a \in Seq(Entry)
    BY <1>4, <2>1, <2>2
  <2>4. Len(a) = Len(l)
    BY <1>4, <2>2
  <2> QED BY <1>4, <2>2, <2>3, <2>4
<1>6. b \in Nat
  <2>1. \A m \in V : g[m] \in Nat
    BY <1>2, StoreAssumption DEF FileRecords
  <2> HIDE DEF g
  <2> QED BY <1>2, <2>1, UnitsFinite
<1>7. /\ F \in [Names -> Contents] /\ S \in [Names -> SUBSET Contents]
      /\ T \in [Names -> Contents] /\ U \in [Names -> SUBSET Contents]
  BY <1>3 DEF Contents
<1>8. /\ \A i \in DOMAIN l : a[i].id = i /\ ~ a[i].pending /\ a[i].key = D.files[l[i]].key
      /\ \A m \in Names : /\ F[m] = IF m \in V THEN D.files[m] ELSE None
                          /\ S[m] = D.stable[m] \cup (IF m \in V THEN {} ELSE {None})
                          /\ T[m] = None
  OBVIOUS
<1> HIDE DEF a, b, F, S, T, U
<1>9. /\ E \in Store /\ E.queue = D.queue /\ E.pending_bytes = D.pending_bytes
      /\ E.entries = a /\ E.total_bytes = b /\ E.files = F /\ E.stable = S /\ E.tmp = T
      /\ E.notified = D.notified
  BY <1>1, <1>5, <1>6, <1>7 DEF Store
<1> QED BY <1>2, <1>5, <1>8, <1>9 DEF Positions, V, E, b

(* The index read from the directory is exactly the directory. *)
LEMMA ScanConsistent ==
  ASSUME StoreInv, ~ up, NEW l \in SetToSeqs(valid(disk))
  PROVE  LET D == scan_all(disk, l)
         IN  /\ Indexed(D, writer, 1 + Len(D.entries)) /\ Stored(D, writer)
             /\ (~ env.rotted => Whole(D)) /\ Tracked(D, writer)
             /\ Len(D.entries) \in Nat /\ D.notified = FALSE
<1> DEFINE D == scan_all(disk, l)
           V == valid(disk)
           P == DOMAIN l
           g == [n \in V |-> Size[disk.files[n].key]]
<1>1. /\ disk \in Store /\ Stored(disk, writer) /\ (~ env.rotted => Whole(disk))
      /\ Indexed(disk, writer, next_entry_id)
      /\ disk.entries = <<>> /\ writer.pc = "idle" /\ writer.job.id = 0 /\ disk.notified = FALSE
  <2>1. /\ disk \in Store /\ Stored(disk, writer) /\ (~ env.rotted => Whole(disk))
        /\ Indexed(disk, writer, next_entry_id) /\ disk.notified = FALSE
        /\ writer \in Writers(next_entry_id)
    BY Free DEF Consistent
  <2>2. disk.entries = <<>> /\ writer.pc = "idle"
    BY DEF StoreInv, ThreadsOK
  <2>3. writer.job.id = 0
    BY <2>1, <2>2 DEF Writers, NoJob
  <2> QED BY <2>1, <2>2, <2>3
<1>2. \A m \in Names : disk.files[m] # None => disk.files[m] \in FileRecords /\ Hash[disk.files[m].key] = m
  BY <1>1 DEF Stored, Store, Contents
<1>3. /\ D \in Store /\ D.queue = disk.queue /\ D.pending_bytes = disk.pending_bytes
      /\ Positions(D) = P /\ Len(D.entries) = Len(l)
      /\ \A i \in P : /\ D.entries[i].id = i /\ ~ D.entries[i].pending
                      /\ D.entries[i].key = disk.files[l[i]].key
      /\ D.total_bytes = Total(g, V)
      /\ \A m \in Names : /\ D.files[m] = IF m \in V THEN disk.files[m] ELSE None
                          /\ D.stable[m] = disk.stable[m] \cup (IF m \in V THEN {} ELSE {None})
                          /\ D.tmp[m] = None
      /\ D.notified = disk.notified
      /\ IsFiniteSet(V) /\ V \in SUBSET Names
  BY <1>1, <1>2, ScanFields
<1>4. /\ Len(l) \in Nat /\ P = 1 .. Len(l) /\ \A i \in P : l[i] \in V
      /\ \A i, j \in P : l[i] = l[j] => i = j
      /\ \A m \in V : \E i \in P : l[i] = m
  BY <1>3, ListedProps
<1>5. \A m \in V : disk.files[m] # None /\ disk.files[m] \in FileRecords /\ Hash[disk.files[m].key] = m
  BY <1>2, <1>3 DEF valid, validate_snapshot_file
<1> HIDE DEF D, V, P, g
<1>6. \A i \in P : Hash[D.entries[i].key] = l[i]
  BY <1>3, <1>4, <1>5
<1>7. Distinct(D)
  BY <1>3, <1>4, <1>6 DEF Distinct
<1>8. \A e \in Held(D) : e.id < 1 + Len(D.entries) /\ ~ e.pending /\ e.id # 0
  <2>1. \A i \in P : i < 1 + Len(l) /\ i # 0
    BY <1>4
  <2> QED BY <1>3, <2>1 DEF Held
<1>9. Queued(D, writer)
  <2>1. Held(disk) = {} /\ Unwritten(disk) = {} /\ Unwritten(D) = {}
    BY <1>1, <1>8 DEF Held, Unwritten, Positions
  <2> QED BY <1>1, <1>3, <2>1 DEF Indexed, Queued
<1>10. Counted(D)
  <2>1. {i \in Positions(D) : D.entries[i].pending} = {}
    BY <1>3
  <2>2. D.pending_bytes = 0
    <3>1. Positions(disk) = {}
      BY <1>1 DEF Positions
    <3>2. {i \in Positions(disk) : disk.entries[i].pending} = {}
      BY <3>1
    <3>3. disk.pending_bytes = Bytes(disk, {})
      BY <1>1, <3>2 DEF Indexed, Counted
    <3> QED BY <1>3, <3>3, BytesNone
  <2>3. D.total_bytes = Bytes(D, P)
    <3> DEFINE f == [i \in P |-> Size[D.entries[i].key]]
    <3>1. \A i \in P : f[i] \in Nat /\ g[l[i]] = f[i]
      <4> SUFFICES ASSUME NEW i \in P PROVE f[i] \in Nat /\ g[l[i]] = f[i]
        OBVIOUS
      <4>1. l[i] \in V /\ D.entries[i].key = disk.files[l[i]].key /\ disk.files[l[i]].key \in Keys
        BY <1>3, <1>4, <1>5 DEF FileRecords
      <4> QED BY <4>1, StoreAssumption DEF g
    <3>2. IsFiniteSet(P)
      BY <1>4, FS_Interval
    <3> HIDE DEF f
    <3>3. \A i, j \in P : l[i] = l[j] => i = j
      BY <1>4
    <3>4. {l[i] : i \in P} = V
      BY <1>4
    <3>5. Total(g, {l[i] : i \in P}) = Total(f, P)
      BY ONLY <3>1, <3>2, <3>3, TotalReindex
    <3> QED BY <1>3, <3>4, <3>5 DEF Bytes, f
  <2> QED BY <1>3, <2>1, <2>2, <2>3, BytesNone DEF Counted
<1>11. Written(D, writer)
  BY <1>1, <1>8 DEF Written
<1>12. Indexed(D, writer, 1 + Len(D.entries))
  BY <1>3, <1>7, <1>8, <1>9, <1>10, <1>11 DEF Indexed
<1>13. Stored(D, writer)
  <2> SUFFICES ASSUME NEW m \in Names
               PROVE  /\ \A f \in D.stable[m] \cup {D.files[m]} : f # None => Hash[f.key] = m
                      /\ D.files[m] # None =>
                           \A f \in D.stable[m] : f # None /\ f.key = D.files[m].key
    BY DEF Stored
  <2>1. /\ \A f \in disk.stable[m] \cup {disk.files[m]} : f # None => Hash[f.key] = m
        /\ disk.files[m] # None => \A f \in disk.stable[m] : f # None /\ f.key = disk.files[m].key
    BY <1>1 DEF Stored
  <2>2. CASE m \in V
    BY <1>3, <2>1, <2>2
  <2>3. CASE m \notin V
    BY <1>3, <2>1, <2>3
  <2> QED BY <2>2, <2>3
<1>14. ~ env.rotted => Whole(D)
  <2> SUFFICES ASSUME ~ env.rotted, NEW m \in Names, NEW f \in D.stable[m] \cup {D.files[m]}, f # None
               PROVE  f.bytes = "whole"
    BY DEF Whole
  <2>1. f \in disk.stable[m] \cup {disk.files[m]}
    BY <1>3
  <2> QED BY <1>1, <2>1 DEF Whole
<1>15. Tracked(D, writer)
  <2>1. Shown(D, writer)
    <3> SUFFICES ASSUME NEW m \in Names
                 PROVE  D.files[m] # None <=> \E e \in Held(D) : ~ e.pending /\ Hash[e.key] = m
      BY <1>1 DEF Shown
    <3>1. D.files[m] # None <=> m \in V
      BY <1>3, <1>5
    <3>2. (\E e \in Held(D) : ~ e.pending /\ Hash[e.key] = m) <=> m \in V
      BY <1>3, <1>4, <1>6 DEF Held
    <3> QED BY <3>1, <3>2
  <2>2. \A e \in Held(D) : D.files[Hash[e.key]].key = e.key
    <3> SUFFICES ASSUME NEW i \in P PROVE D.files[Hash[D.entries[i].key]].key = D.entries[i].key
      BY <1>3 DEF Held
    <3> QED BY <1>3, <1>4, <1>6
  <2> QED BY <1>1, <1>3, <2>1, <2>2 DEF Tracked
<1> QED BY <1>1, <1>3, <1>4, <1>12, <1>13, <1>14, <1>15 DEF D

LEMMA OpenStep ==
  ASSUME StoreInv, open
  PROVE  StoreInv'
<1>1. PICK l \in SetToSeqs(valid(disk)), room \in Rooms :
        /\ disk' = settle(make_room_locked(expire_locked(scan_all(disk, l)), 0, room))
        /\ next_entry_id' = 1 + Len(scan_all(disk, l).entries)
  BY DEF open
<1> DEFINE D == scan_all(disk, l)
           n == 1 + Len(D.entries)
           X == expire_locked(D)
           I == {i \in Positions(D) : expired(D, i)}
           Y == make_room_locked(X, 0, room)
           Z == settle(Y)
<1>2. /\ ~ up /\ up' = TRUE /\ UNCHANGED <<writer, abort_write, caller, loader, now, env>>
      /\ disk' = Z /\ next_entry_id' = n
  BY <1>1 DEF open
<1>3. /\ Indexed(D, writer, n) /\ Stored(D, writer)
      /\ (~ env.rotted => Whole(D)) /\ Tracked(D, writer)
      /\ n \in Nat \ {0} /\ D \in Store /\ Distinct(D)
  <2>1. /\ Indexed(D, writer, n) /\ Stored(D, writer)
        /\ (~ env.rotted => Whole(D)) /\ Tracked(D, writer)
        /\ Len(D.entries) \in Nat
    BY <1>2, ScanConsistent
  <2> HIDE DEF D
  <2> QED BY <2>1 DEF Indexed
<1>4. /\ writer.pc = "idle" /\ writer = [pc |-> "idle", job |-> NoJob] /\ now \in Nat
      /\ \A o \in Owners : caller[o] = Idle
      /\ caller \in [Owners -> Callers] /\ loader \in [Owners -> Loaders]
      /\ RestoreIsExact /\ env \in [events : Nat, rotted : BOOLEAN]
  BY <1>2 DEF StoreInv, ThreadsOK, Writers
<1>5. Consistent(D, writer, n)
  BY <1>2, <1>3 DEF Consistent
<1> HIDE DEF D, n
<1>6. Consistent(X, writer, n) /\ Tracked(X, writer)
  <2>1. Consistent(X, writer, n)
    BY <1>4, <1>5, ExpireConsistent
  <2>2. X = remove_entries(D, I) /\ I \in SUBSET Positions(D)
    BY DEF expire_locked
  <2> HIDE DEF I, X
  <2>3. Tracked(X, writer)
    BY <1>3, <1>4, <2>2, RemoveTracked
  <2> QED BY <2>1, <2>3
<1> HIDE DEF X
<1>7. X \in Store /\ X.entries \in Seq(Entry) /\ Distinct(X)
  BY <1>6 DEF Consistent, Indexed, Store
<1>8. /\ Consistent(Y, writer, n) /\ (Y.total_bytes + 0 <= BudgetBytes \/ Y.total_bytes = 0)
      /\ Tracked(Y, writer)
  <2>1. Consistent(Y, writer, n) /\ (Y.total_bytes + 0 <= BudgetBytes \/ Y.total_bytes = 0)
    BY <1>1, <1>4, <1>6, MakeRoom
  <2>2. PICK m : Y = remove_entries(X, LeastUsed(X, m))
    BY DEF make_room_locked
  <2>3. LeastUsed(X, m) \in SUBSET Positions(X)
    BY <1>7, AllLeastUsed
  <2> HIDE DEF Y
  <2>4. Tracked(Y, writer)
    BY <1>4, <1>6, <1>7, <2>2, <2>3, RemoveTracked
  <2> QED BY <2>1, <2>4
<1> HIDE DEF Y
<1>9. Consistent(Z, writer, n) /\ Z.notified = FALSE /\ Z.total_bytes = Y.total_bytes
  BY <1>8, SettleConsistent
<1>10. Tracked(Z, writer)
  <2>1. /\ Z.entries = Y.entries /\ Z.files = Y.files
        /\ Z.tmp = Y.tmp /\ Z.tmp_stable = Y.tmp_stable
    BY <1>8 DEF settle, Consistent, Indexed, Store
  <2>2. Held(Z) = Held(Y)
    BY <2>1 DEF Held, Positions
  <2> HIDE DEF Z
  <2> QED BY <1>8, <2>1, <2>2 DEF Tracked, Shown
<1> HIDE DEF Z
<1>11. Consistent(disk, writer, next_entry_id)'
  BY <1>2, <1>9, <1>10 DEF Consistent
<1>12. ThreadsOK'
  <2>1. writer \in Writers(n)
    BY <1>4 DEF Writers
  <2> QED BY <1>2, <1>3, <1>4, <2>1 DEF ThreadsOK
<1>13. RestoreIsExact' /\ NoWakeupLost'
  BY <1>2, <1>4 DEF RestoreIsExact, NoWakeupLost, Idle
<1>14. Z.total_bytes <= BudgetBytes
  <2>1. Y.total_bytes \in Nat /\ BudgetBytes \in Nat
    BY <1>8, StoreAssumption DEF Consistent, Indexed, Store
  <2> QED BY <1>8, <1>9, <2>1
<1> QED BY <1>2, <1>9, <1>11, <1>12, <1>13, <1>14 DEF StoreInv

(* A stuttering step. *)
LEMMA StoreStutters ==
  ASSUME StoreInv, UNCHANGED vars
  PROVE  StoreInv'
<1>1. /\ disk' = disk /\ next_entry_id' = next_entry_id /\ writer' = writer
      /\ abort_write' = abort_write /\ caller' = caller /\ loader' = loader
      /\ now' = now /\ up' = up /\ env' = env
  BY DEF vars
<1>2. ThreadsOK'
  BY <1>1 DEF StoreInv, ThreadsOK
<1>3. Consistent(disk, writer, next_entry_id)'
  BY <1>1 DEF StoreInv, Consistent
<1>4. (~ disk.notified /\ disk.total_bytes <= BudgetBytes)' /\ RestoreIsExact'
  BY <1>1 DEF StoreInv, RestoreIsExact
<1>5. NoWakeupLost'
  BY <1>1 DEF StoreInv, NoWakeupLost, mu_free, backpressure, idle, mine, find_entry_id, Positions
<1> QED BY <1>2, <1>3, <1>4, <1>5 DEF StoreInv

(* The process has not started yet and the directory is empty. *)
LEMMA StoreInit ==
  ASSUME Init
  PROVE  StoreInv
<1>1. /\ disk.entries = <<>> /\ disk.queue = <<>> /\ disk.total_bytes = 0
      /\ disk.pending_bytes = 0 /\ disk.notified = FALSE
      /\ disk.files = [n \in Names |-> None] /\ disk.stable = [n \in Names |-> {None}]
  BY DEF Init
<1>2. disk \in Store
  BY DEF Init, Store, Contents
<1>3. ThreadsOK
  <2>1. writer \in Writers(next_entry_id)
    BY DEF Init, Writers
  <2>2. Idle \in Callers /\ NotLoading \in Loaders
    BY DEF Callers, Loaders, Idle
  <2>3. /\ caller \in [Owners -> Callers] /\ loader \in [Owners -> Loaders]
        /\ \A o \in Owners : caller[o] = Idle /\ loader[o] = NotLoading
    BY <2>2 DEF Init
  <2>4. next_entry_id \in Nat \ {0} /\ now \in Nat /\ writer.pc = "idle"
    BY DEF Init
  <2>5. up \in BOOLEAN
    BY DEF Init
  <2>6. env \in [events : Nat, rotted : BOOLEAN]
    BY DEF Init
  <2> QED BY <1>1, <2>1, <2>3, <2>4, <2>5, <2>6 DEF ThreadsOK
<1>4. writer.pc = "idle" /\ Indexed(disk, writer, next_entry_id)
  BY <1>1, <1>2, EmptyIndexed DEF Init
<1>5. Stored(disk, writer) /\ Whole(disk)
  BY <1>1 DEF Stored, Whole
<1>6. ~ up
  BY DEF Init
<1>7. Consistent(disk, writer, next_entry_id)
  BY <1>4, <1>5, <1>6 DEF Consistent
<1>8. RestoreIsExact /\ NoWakeupLost
  BY <1>6 DEF Init, RestoreIsExact, NoWakeupLost, NotLoading
<1>9. disk.total_bytes <= BudgetBytes
  BY <1>1, StoreAssumption
<1> QED BY <1>1, <1>3, <1>7, <1>8, <1>9 DEF StoreInv

(* Every step keeps the invariant. *)
LEMMA StoreNext ==
  ASSUME StoreInv, [Next]_vars
  PROVE  StoreInv'
<1>1. CASE WriterNext
  BY <1>1, TakesStep, WriteStep, RenamesStep, PublishesStep, DiscardsStep DEF WriterNext
<1>2. ASSUME NEW o \in Owners, CallerNext(o) PROVE StoreInv'
  <2>1. CASE \E k \in Keys : save_async(o, k) \/ save(o, k) \/ load(o, k)
    BY <2>1, SaveAsyncStep, SaveStep, LoadStep
  <2>2. CASE \E k \in Keys, keep_max \in {0, 1} : prune_ancestors(o, k, keep_max)
    BY <2>2, PruneStep
  <2>3. CASE drain(o) \/ drain_wakes(o)
    BY <2>3, DrainStep
  <2>4. CASE drain_limit(o)
    BY <2>4, DrainLimitStep
  <2>5. CASE save_async_wakes(o)
    BY <2>5, SaveAsyncWakesStep
  <2>6. CASE load_reads(o) \/ adopt(o)
    BY <2>6, LoadReadsStep
  <2>7. CASE load_returns(o)
    BY <2>7, LoadReturnsStep
  <2> QED BY <1>2, <2>1, <2>2, <2>3, <2>4, <2>5, <2>6, <2>7 DEF CallerNext
<1>3. CASE open \/ close \/ crash \/ tick
  BY <1>3, OpenStep, CloseStep, CrashStep, TickStep
<1>4. ASSUME NEW n \in Names, rots(n) PROVE StoreInv'
  BY <1>4, RotsStep
<1>5. CASE UNCHANGED vars
  BY <1>5, StoreStutters
<1> QED BY <1>1, <1>2, <1>3, <1>4, <1>5 DEF Next

(* What a save, a load, a drain, the writer, an eviction, a close, a crash *)
(* and a start of the process leave of the store is what StoreInv says. *)
THEOREM StoreInvariant == Spec => []StoreInv
<1>1. Init => StoreInv
  BY StoreInit
<1>2. StoreInv /\ [Next]_vars => StoreInv'
  BY StoreNext
<1> QED BY <1>1, <1>2, PTL DEF Spec

(* load() hands out the snapshot of exactly the prompt asked for, whatever *)
(* was evicted, rewritten, torn or damaged between its lookup under mu_    *)
(* and its read without it. *)
THEOREM LoadIsExact == Spec => []RestoreIsExact
<1>1. StoreInv => RestoreIsExact
  BY DEF StoreInv
<1> QED BY <1>1, StoreInvariant, PTL

(* Nobody sleeps on done_cv_ with nothing left to wait for: every removal  *)
(* and every finished write tells those it concerns. *)
THEOREM WakeupsReach == Spec => []NoWakeupLost
<1>1. StoreInv => NoWakeupLost
  BY DEF StoreInv
<1> QED BY <1>1, StoreInvariant, PTL

(* An entry's file has a name of the directory. *)
LEMMA EntryNames ==
  ASSUME StoreInv
  PROVE  \A e \in Held(disk) : e.key \in Keys /\ Hash[e.key] \in Names
<1>1. disk.entries \in Seq(Entry)
  BY Free
<1>2. \A i \in Positions(disk) : disk.entries[i] \in Entry
  BY <1>1 DEF Positions
<1> QED BY <1>2 DEF Held, Entry, Names

(* The directory shows the files of the entries on disk and no other. *)
LEMMA MatchesFiles ==
  ASSUME StoreInv
  PROVE  IndexMatchesFiles
<1> SUFFICES ASSUME up, mu_free
             PROVE  {n \in Names : disk.files[n] # None}
                      = {Hash[disk.entries[i].key] :
                           i \in {j \in Positions(disk) : ~ disk.entries[j].pending}}
  BY DEF IndexMatchesFiles
<1> DEFINE J == {j \in Positions(disk) : ~ disk.entries[j].pending}
           B == {Hash[disk.entries[i].key] : i \in J}
<1>1. \A m \in Names : disk.files[m] # None
                         <=> \E e \in Held(disk) : ~ e.pending /\ Hash[e.key] = m
  BY DEF StoreInv, Consistent, Tracked, Shown, mu_free
<1>2. \A m : m \in B <=> \E e \in Held(disk) : ~ e.pending /\ Hash[e.key] = m
  BY DEF Held
<1>3. \A e \in Held(disk) : Hash[e.key] \in Names
  BY EntryNames
<1>4. {n \in Names : disk.files[n] # None} = B
  <2> HIDE DEF B
  <2> QED BY <1>1, <1>2, <1>3
<1> QED BY <1>4

(* The index and the directory agree whenever mu_ is free; every pending   *)
(* entry is queued once or being written; the byte counts are the sums     *)
(* over the index and within the budget; and a writer at rest has left no  *)
(* temporary file. *)
THEOREM IndexIsExact == Spec => []IndexExact
<1>1. StoreInv => IndexExact
  <2> SUFFICES ASSUME StoreInv PROVE IndexExact
    OBVIOUS
  <2>1. PendingIsQueued
    <3> DEFINE J == {j \in Positions(disk) : disk.entries[j].pending}
               waiting == {disk.entries[i].id : i \in J}
               ids == {e.id : e \in Unwritten(disk)}
    <3>1. \A x : x \in waiting <=> \E e \in Held(disk) : e.pending /\ e.id = x
      BY DEF Held
    <3>2. \A x : x \in ids <=> \E e \in Held(disk) : e.pending /\ e.id = x
      BY DEF Unwritten
    <3>3. IsInjective(disk.queue) /\ ToSet(disk.queue) = ids \ {writer.job.id}
      BY DEF StoreInv, Consistent, Indexed, Queued
    <3>4. waiting = ids
      <4> HIDE DEF waiting, ids
      <4> QED BY <3>1, <3>2
    <3> QED BY <3>3, <3>4 DEF PendingIsQueued
  <2>2. BudgetHeld
    BY DEF StoreInv, Consistent, Indexed, Counted, BudgetHeld
  <2>3. up /\ writer.pc = "idle" => \A n \in Names : disk.tmp[n] = None
    BY DEF StoreInv, Consistent, Tracked
  <2> QED BY <2>1, <2>2, <2>3, MatchesFiles DEF IndexExact
<1> QED BY <1>1, StoreInvariant, PTL

(* What the writer reported done survives a crash: the rename is synced    *)
(* before the entry stops being pending, so no outcome of a crash loses,   *)
(* tears or replaces the file of an entry on disk. *)
THEOREM PublishedIsDurable == Spec => []PublishedSurvives
<1>1. StoreInv => PublishedSurvives
  <2> SUFFICES ASSUME StoreInv, up, ~ env.rotted, NEW i \in Positions(disk),
                      ~ disk.entries[i].pending,
                      NEW f \in disk.stable[Hash[disk.entries[i].key]]
               PROVE  f # None /\ f.key = disk.entries[i].key /\ f.bytes = "whole"
    BY DEF PublishedSurvives
  <2> DEFINE e == disk.entries[i]
             m == Hash[e.key]
  <2>1. e \in Held(disk) /\ m \in Names
    <3>1. e \in Held(disk)
      BY DEF Held
    <3> QED BY <3>1, EntryNames
  <2>2. disk.files[m] # None /\ disk.files[m].key = e.key
    BY <2>1 DEF StoreInv, Consistent, Tracked, Shown
  <2>3. ~ (writer.pc = "renamed" /\ m = Hash[writer.job.key])
    <3> SUFFICES ASSUME writer.pc = "renamed", m = Hash[writer.job.key] PROVE FALSE
      OBVIOUS
    <3>1. PICK j \in Positions(disk) : disk.entries[j].id = writer.job.id
      BY DEF StoreInv, Consistent, Indexed, Written, Held
    <3>2. disk.entries[j].pending /\ disk.entries[j].key = writer.job.key
      BY <3>1 DEF StoreInv, Consistent, Indexed, Written, Held
    <3>3. i = j
      BY <3>2 DEF StoreInv, Consistent, Indexed, Distinct
    <3> QED BY <3>2, <3>3
  <2>4. \A g \in disk.stable[m] : g # None /\ g.key = disk.files[m].key
    BY <2>1, <2>2, <2>3 DEF StoreInv, Consistent, Stored
  <2>5. \A g \in disk.stable[m] : g # None => g.bytes = "whole"
    BY <2>1 DEF StoreInv, Consistent, Whole
  <2> QED BY <2>2, <2>4, <2>5
<1> QED BY <1>1, StoreInvariant, PTL

-----------------------------------------------------------------------------
(* What a lookup finds.                                                    *)

(* Among prefixes of one prompt there is a longest. *)
LEMMA LongestProps ==
  ASSUME NEW p \in Seq(Nat), NEW S \in SUBSET Seq(Nat), S # {},
         \A k \in S : Len(k) <= Len(p)
  PROVE  Longest(S) \in S
<1> DEFINE T == {Len(k) : k \in S}
<1>1. (\A k \in S : Len(k) \in Nat) /\ Len(p) \in Nat
  OBVIOUS
<1>2. T \in SUBSET Nat /\ \A n \in T : n <= Len(p)
  <2> SUFFICES ASSUME NEW n \in T PROVE n \in Nat /\ n <= Len(p)
    OBVIOUS
  <2>1. PICK k \in S : n = Len(k)
    OBVIOUS
  <2> QED BY <1>1, <2>1
<1>3. T # {}
  OBVIOUS
<1> HIDE DEF T
<1>4. PICK n \in T : \A m \in T : m <= n
  BY <1>1, <1>2, <1>3, GreatestNat
<1>5. \E k \in S : \A o \in S : Len(o) <= Len(k)
  BY <1>4 DEF T
<1> QED BY <1>5 DEF Longest

(* A cold start is a prefix of every prompt. *)
LEMMA EmptyIsPrefix ==
  ASSUME NEW r \in Requests
  PROVE  Empty \in Seq(Nat) /\ Len(Empty) = 0 /\ IsStrictPrefix(Empty, Prompt[r])
<1>1. Prompt[r] \in Seq(Nat) /\ Prompt[r] # <<>>
  BY ReadAssumption
<1>2. SubSeq(<<>>, 1, 0) = <<>> /\ SubSeq(Prompt[r], 1, 0) = <<>>
  BY SubSeqEmpty
<1>3. Len(<<>>) = 0 /\ <<>> \in Seq(Nat) /\ Len(Prompt[r]) \in Nat
  BY <1>1
<1> QED BY <1>1, <1>2, <1>3 DEF Empty, IsStrictPrefix, IsPrefix

(* What the prefix index finds is a state of the request's own prompt. *)
LEMMA RamHitProps ==
  ASSUME NEW r \in Requests, ram \subseteq States
  PROVE  RamHit(r) \in Seq(Nat) /\ IsStrictPrefix(RamHit(r), Prompt[r])
<1> DEFINE S == {k \in ram : IsStrictPrefix(k, Prompt[r])}
<1>1. S \in SUBSET Seq(Nat) /\ Prompt[r] \in Seq(Nat) /\ \A k \in S : Len(k) <= Len(Prompt[r])
  BY ReadAssumption DEF IsStrictPrefix, IsPrefix
<1>2. RamHit(r) = Longest(S)
  BY DEF RamHit
<1>3. CASE S = {}
  BY <1>2, <1>3, EmptyIsPrefix DEF Longest
<1>4. CASE S # {}
  <2> HIDE DEF S
  <2>1. Longest(S) \in S
    BY <1>1, <1>4, LongestProps
  <2> QED BY <1>1, <1>2, <2>1 DEF S
<1> QED BY <1>3, <1>4

(* And what a reader is started for. *)
LEMMA ProbeProps ==
  ASSUME NEW r \in Requests, ram \subseteq States, disk_keys \subseteq States, WantsRead(r)
  PROVE  Probe(r) \in disk_keys /\ Probe(r) \in States /\ IsStrictPrefix(Probe(r), Prompt[r])
<1> DEFINE S == {k \in disk_keys : IsPrefix(k, Prompt[r]) /\ Len(k) \in Fixed[r]}
<1>1. S \in SUBSET Seq(Nat) /\ Prompt[r] \in Seq(Nat) /\ \A k \in S : Len(k) <= Len(Prompt[r])
  BY ReadAssumption DEF IsPrefix
<1>2. Probe(r) = Longest(S)
  BY DEF Probe
<1>3. Len(Probe(r)) > Len(RamHit(r)) /\ Len(Probe(r)) < Len(Prompt[r])
  BY DEF WantsRead
<1>4. Len(RamHit(r)) \in Nat
  BY RamHitProps
<1>5. S # {}
  <2> SUFFICES ASSUME S = {} PROVE FALSE
    OBVIOUS
  <2>1. Len(Probe(r)) = 0
    BY <1>2, EmptyIsPrefix DEF Longest
  <2> QED BY <1>3, <1>4, <2>1
<1> HIDE DEF S
<1>6. Probe(r) \in S
  BY <1>1, <1>2, <1>5, LongestProps
<1>7. Probe(r) \in disk_keys /\ IsPrefix(Probe(r), Prompt[r])
  BY <1>6 DEF S
<1>8. Probe(r) # Prompt[r]
  BY <1>1, <1>3, <1>6
<1> QED BY <1>7, <1>8 DEF IsStrictPrefix

(* A new thread is none of those that were not joined. *)
LEMMA NewReaderProps ==
  ASSUME IsFiniteSet(DOMAIN readers), DOMAIN readers \subseteq Nat
  PROVE  NewReader \in Nat /\ NewReader \notin DOMAIN readers
<1> DEFINE n == Cardinality(DOMAIN readers)
           T == (1 .. n + 1) \ DOMAIN readers
<1>1. n \in Nat
  BY FS_CardinalityType
<1>2. T # {}
  <2> SUFFICES ASSUME T = {} PROVE FALSE
    OBVIOUS
  <2>1. (1 .. n + 1) \in SUBSET (DOMAIN readers)
    OBVIOUS
  <2>2. Cardinality(1 .. n + 1) <= n
    BY <2>1, FS_Subset
  <2>3. Cardinality(1 .. n + 1) = n + 1
    BY <1>1, FS_Interval
  <2> QED BY <1>1, <2>2, <2>3
<1>3. T \in SUBSET Nat
  BY <1>1
<1>4. NewReader = Min(T)
  BY DEF NewReader
<1> HIDE DEF T, n
<1>5. Min(T) \in T
  BY <1>2, <1>3, MinProps
<1> QED BY <1>3, <1>4, <1>5 DEF T

-----------------------------------------------------------------------------
(* Every step keeps the invariant.                                         *)

LEMMA ReadInitInv == ReadInit => ReadInv
<1> SUFFICES ASSUME ReadInit PROVE ReadInv
  OBVIOUS
<1>1. ReadTypeOK
  <2>1. IsFiniteSet({}) /\ DOMAIN readers = {} /\ <<>> \in Seq(Requests) /\ <<>> \in Seq(Nat)
    BY FS_EmptySet DEF ReadInit
  <2> QED BY <2>1 DEF ReadInit, ReadTypeOK, Empty
<1>2. LineDistinct
  <2>1. ToSet(<<>>) = {} /\ IsInjective(<<>>)
    BY DEF ToSet, IsInjective
  <2> QED BY <2>1, ReadAssumption DEF ReadInit, LineDistinct, Unfinished
<1>3. ReadersTyped /\ ReadersHeld /\ ReadIsTheHeads /\ (pc \in {"stop", "exited"} => stopping_)
  BY DEF ReadInit, ReadersTyped, ReadersHeld, ReadIsTheHeads
<1>4. RestoresOwnPrefix
  BY EmptyIsPrefix DEF ReadInit, RestoresOwnPrefix
<1> QED BY <1>1, <1>2, <1>3, <1>4 DEF ReadInv

(* A step that leaves the line and the reads alone. *)
LEMMA QuietKeeps ==
  ASSUME ReadInv, UNCHANGED <<queue, deferred, live, address, storeVars, readVars, restored>>,
         pc' = pc \/ pc' = "top" \/ (pc' = "stop" /\ stopping_'), stopping_ => stopping_'
  PROVE  ReadInv'
BY DEF ReadInv, ReadTypeOK, LineDistinct, Unfinished, ReadersTyped, ReadersHeld,
       ReadIsTheHeads, RestoresOwnPrefix, storeVars, readVars

(* A new request joins the line at an address nobody has. *)
LEMMA ArriveKeeps ==
  ASSUME ReadInv, NEW r \in Requests, NEW a \in Addresses, Arrive(r, a)
  PROVE  ReadInv'
<1>1. /\ address[r] = Absent /\ address' = [address EXCEPT ![r] = a] /\ a # Absent
      /\ queue' = Append(queue, r) /\ ~ stopping_
      /\ UNCHANGED <<pc, deferred, live, stopping_, storeVars, readVars, restored>>
  BY ReadAssumption DEF Arrive
<1>2. r \notin Unfinished /\ r # Absent
  BY <1>1, ReadAssumption DEF ReadInv, LineDistinct
<1>3. queue' \in Seq(Requests) /\ ToSet(queue') = ToSet(queue) \cup {r} /\ IsInjective(queue')
  BY <1>1, <1>2, AppendNew DEF ReadInv, ReadTypeOK, LineDistinct, Unfinished
<1>4. ReadTypeOK'
  BY <1>1, <1>3 DEF ReadInv, ReadTypeOK, storeVars, readVars
<1>5. LineDistinct'
  BY <1>1, <1>2, <1>3 DEF ReadInv, ReadTypeOK, LineDistinct, Unfinished
<1>6. ReadIsTheHeads'
  <2>1. deferred # Absent => deferred # r
    BY <1>2 DEF Unfinished
  <2> QED BY <1>1, <2>1 DEF ReadInv, ReadTypeOK, ReadIsTheHeads, readVars
<1> QED BY <1>1, <1>4, <1>5, <1>6
        DEF ReadInv, ReadersTyped, ReadersHeld, RestoresOwnPrefix, readVars

LEMMA StoreChangeKeeps == ReadInv /\ StoreChange => ReadInv'
<1> SUFFICES ASSUME ReadInv, StoreChange PROVE ReadInv'
  OBVIOUS
<1>1. ram' \subseteq States /\ disk_keys' \subseteq States
  BY DEF StoreChange, ReadInv, ReadTypeOK
<1>2. UNCHANGED <<pc, lineVars, readVars, restored>>
  BY DEF StoreChange
<1> QED BY <1>1, <1>2 DEF ReadInv, ReadTypeOK, LineDistinct, Unfinished, ReadersTyped, ReadersHeld,
                          ReadIsTheHeads, RestoresOwnPrefix, lineVars, readVars

(* The reader thread ends: its thread is still there to be joined. *)
LEMMA ReaderFinishKeeps ==
  ASSUME ReadInv, NEW i \in DOMAIN readers, reader_finish(i)
  PROVE  ReadInv'
<1>1. PICK snap \in {Empty} \cup ({readers[i].key} \cap disk_keys) :
        readers' = [readers EXCEPT ![i].state = "done", ![i].snap = snap]
  BY DEF reader_finish
<1>2. UNCHANGED <<pc, lineVars, storeVars, read_, finished_reads_, restored>>
  BY DEF reader_finish
<1>3. DOMAIN readers' = DOMAIN readers
  BY <1>1
<1>4. readers[i] \in Reader
  BY DEF ReadInv, ReadersTyped
<1>5. /\ readers'[i] \in Reader /\ readers'[i].key = readers[i].key
      /\ readers'[i].snap \in {Empty, readers[i].key}
  BY <1>1, <1>4 DEF Reader
<1>6. \A j \in DOMAIN readers : j # i => readers'[j] = readers[j]
  BY <1>1
<1>7. ReadersTyped'
  BY <1>3, <1>5, <1>6 DEF ReadInv, ReadersTyped
<1>8. ReadIsTheHeads'
  <2>1. read_ # Absent => read_.reader \in DOMAIN readers
    BY DEF ReadInv, ReadersHeld
  <2>2. \A j \in DOMAIN readers : readers'[j].key = readers[j].key
    BY <1>5, <1>6
  <2> QED BY <1>2, <2>1, <2>2 DEF ReadInv, ReadIsTheHeads, lineVars
<1> QED BY <1>2, <1>3, <1>7, <1>8
        DEF ReadInv, ReadTypeOK, LineDistinct, Unfinished, ReadersHeld, RestoresOwnPrefix,
            lineVars, storeVars

-----------------------------------------------------------------------------
(* The admission of the head of the line.                                  *)

(* Who is taken: it waits, at an address, and the read in flight is its    *)
(* own; the rest of the line stays as it is. *)
LEMMA HeadProps ==
  ASSUME ReadInv, ~ LineEmpty, TakeHead
  PROVE  LET h == HeadOfLine
         IN  /\ h \in Requests /\ h # Absent /\ h \notin live /\ address[h] \in Addresses
             /\ queue' \in Seq(Requests) /\ IsInjective(queue') /\ h \notin ToSet(queue')
             /\ ToSet(queue') \subseteq ToSet(queue)
             /\ deferred \in {Absent, h}
             /\ read_ # Absent => /\ OwnsRead(h)
                                /\ IsStrictPrefix(readers[read_.reader].key, Prompt[h])
<1> DEFINE h == HeadOfLine
<1>1. /\ queue \in Seq(Requests) /\ IsInjective(queue) /\ deferred \in Requests \cup {Absent}
      /\ deferred \notin ToSet(queue) \cup live /\ ToSet(queue) \cap live = {}
      /\ \A r \in Unfinished : address[r] # Absent
  BY DEF ReadInv, ReadTypeOK, LineDistinct
<1>2. read_ # Absent => deferred # Absent
  BY DEF ReadInv, ReadIsTheHeads
<1>3. CASE deferred # Absent
  <2>1. h = deferred /\ queue' = queue /\ h \in Unfinished
    BY <1>3 DEF HeadOfLine, TakeHead, Unfinished
  <2>2. address[h] \in Addresses
    BY <1>1, <1>3, <2>1 DEF ReadInv, ReadTypeOK
  <2> HIDE DEF h
  <2> QED BY <1>1, <1>3, <2>1, <2>2 DEF ReadInv, ReadIsTheHeads, OwnsRead, h
<1>4. CASE deferred = Absent
  <2>1. h = Head(queue) /\ queue' = Tail(queue) /\ queue # <<>>
    BY <1>4 DEF HeadOfLine, TakeHead, LineEmpty
  <2>2. /\ Tail(queue) \in Seq(Requests) /\ Head(queue) \in Requests /\ Head(queue) \in ToSet(queue)
        /\ ToSet(Tail(queue)) = ToSet(queue) \ {Head(queue)} /\ IsInjective(Tail(queue))
    BY <1>1, <2>1, TailRest
  <2>3. address[h] \in Addresses
    BY <1>1, <2>1, <2>2 DEF ReadInv, ReadTypeOK, Unfinished
  <2> HIDE DEF h
  <2> QED BY <1>1, <1>2, <1>4, <2>1, <2>2, <2>3, ReadAssumption DEF h
<1> QED BY <1>3, <1>4

(* It waits on, is served, or is finished. *)
LEMMA HeadMoves ==
  ASSUME ReadInv, ~ LineEmpty, TakeHead,
         \/ deferred' = HeadOfLine /\ UNCHANGED <<live, address>>
         \/ deferred' = Absent /\ live' = live \cup {HeadOfLine} /\ UNCHANGED address
         \/ deferred' = Absent /\ UNCHANGED live /\ Finish(HeadOfLine)
  PROVE  /\ LineDistinct'
         /\ queue' \in Seq(Requests) /\ deferred' \in Requests \cup {Absent}
         /\ live' \subseteq Requests /\ address' \in [Requests -> Addresses \cup {Absent}]
<1> DEFINE h == HeadOfLine
<1>1. /\ h \in Requests /\ h # Absent /\ h \notin live /\ address[h] \in Addresses
      /\ queue' \in Seq(Requests) /\ IsInjective(queue') /\ h \notin ToSet(queue')
      /\ ToSet(queue') \subseteq ToSet(queue) /\ deferred \in {Absent, h}
  BY HeadProps
<1>2. /\ live \subseteq Requests /\ address \in [Requests -> Addresses \cup {Absent}]
      /\ ToSet(queue) \cap live = {} /\ \A r \in ToSet(queue) \cup live : address[r] # Absent
      /\ Absent \notin Requests \cup Addresses
  BY ReadAssumption DEF ReadInv, ReadTypeOK, LineDistinct, Unfinished
<1> HIDE DEF h
<1>3. CASE deferred' = h /\ UNCHANGED <<live, address>>
  BY <1>1, <1>2, <1>3 DEF LineDistinct, Unfinished
<1>4. CASE deferred' = Absent /\ live' = live \cup {h} /\ UNCHANGED address
  <2>1. Absent \notin ToSet(queue') \cup live'
    <3>1. ToSet(queue') \subseteq Requests
      BY <1>1 DEF ToSet
    <3> QED BY <1>1, <1>2, <1>4, <3>1
  <2> QED BY <1>1, <1>2, <1>4, <2>1 DEF LineDistinct, Unfinished
<1>5. CASE deferred' = Absent /\ UNCHANGED live /\ Finish(h)
  <2>1. Absent \notin ToSet(queue') \cup live'
    <3>1. ToSet(queue') \subseteq Requests
      BY <1>1 DEF ToSet
    <3> QED BY <1>1, <1>2, <1>5, <3>1
  <2>2. address' = [address EXCEPT ![h] = Absent]
    BY <1>5 DEF Finish
  <2>3. \A r \in Unfinished' : r # h /\ r \in ToSet(queue) \cup live
    BY <1>1, <1>5 DEF Unfinished
  <2> QED BY <1>1, <1>2, <1>5, <2>1, <2>2, <2>3 DEF LineDistinct
<1> QED BY <1>3, <1>4, <1>5 DEF h

(* A head that left takes its read with it. *)
LEMMA GoneKeeps == ReadInv /\ CandidateGone => ReadInv'
<1> SUFFICES ASSUME ReadInv, CandidateGone PROVE ReadInv'
  OBVIOUS
<1> DEFINE h == HeadOfLine
<1>1. /\ ~ LineEmpty /\ TakeHead /\ deferred' = Absent /\ Finish(h)
      /\ IF OwnsRead(h) THEN drop_read ELSE UNCHANGED <<read_, finished_reads_>>
      /\ UNCHANGED <<pc, live, stopping_, storeVars, readers, restored>>
  BY DEF CandidateGone
<1>2. /\ LineDistinct'
      /\ queue' \in Seq(Requests) /\ deferred' \in Requests \cup {Absent}
      /\ live' \subseteq Requests /\ address' \in [Requests -> Addresses \cup {Absent}]
  BY <1>1, HeadMoves
<1>3. read_ # Absent => OwnsRead(h)
  BY <1>1, HeadProps
<1> HIDE DEF h
<1>4. /\ read_' = Absent
      /\ finished_reads_' = finished_reads_ \cup (IF read_ = Absent THEN {} ELSE {read_.reader})
  BY <1>1, <1>3 DEF drop_read, OwnsRead
<1>5. ReadersHeld'
  BY <1>1, <1>4 DEF ReadInv, ReadersHeld
<1>6. ReadTypeOK'
  BY <1>1, <1>2, <1>4, <1>5 DEF ReadInv, ReadTypeOK, storeVars, ReadersHeld
<1>7. ReadersTyped' /\ ReadIsTheHeads' /\ RestoresOwnPrefix' /\ (pc \in {"stop", "exited"} => stopping_)'
  BY <1>1, <1>4 DEF ReadInv, ReadersTyped, ReadIsTheHeads, RestoresOwnPrefix
<1> QED BY <1>2, <1>5, <1>6, <1>7 DEF ReadInv

(* A read is started for the head, or goes on. *)
LEMMA LoadingKeeps ==
  ASSUME ReadInv, Admitting, ~ LineEmpty, TakeHead, plan_loading(HeadOfLine)
  PROVE  ReadInv'
<1> DEFINE h == HeadOfLine
<1>1. /\ WantsRead(h) /\ deferred' = h /\ pc' = "top"
      /\ UNCHANGED <<live, address, stopping_, storeVars, restored>>
  BY DEF plan_loading
<1>2. /\ LineDistinct'
      /\ queue' \in Seq(Requests) /\ deferred' \in Requests \cup {Absent}
      /\ live' \subseteq Requests /\ address' \in [Requests -> Addresses \cup {Absent}]
  BY <1>1, HeadMoves
<1>3. /\ h \in Requests /\ h # Absent /\ address[h] \in Addresses /\ deferred \in {Absent, h}
      /\ read_ # Absent => OwnsRead(h) /\ IsStrictPrefix(readers[read_.reader].key, Prompt[h])
  BY HeadProps
<1>4. Probe(h) \in States /\ IsStrictPrefix(Probe(h), Prompt[h])
  BY <1>1, <1>3, ProbeProps DEF ReadInv, ReadTypeOK
<1>5. NewReader \in Nat /\ NewReader \notin DOMAIN readers
  BY NewReaderProps DEF ReadInv, ReadTypeOK
<1>6. plan_loading(h)
  OBVIOUS
<1> HIDE DEF h
<1>7. CASE ~ OwnsRead(h)
  <2> DEFINE n == NewReader
             e == [key |-> Probe(h), state |-> "reading", snap |-> Empty]
  <2>1. /\ read_ = Absent /\ finished_reads_' = finished_reads_
        /\ readers' = Started(n, e)
        /\ read_' = [owner |-> address[h], reader |-> n]
    BY <1>3, <1>6, <1>7 DEF plan_loading
  <2>2. e \in Reader /\ e.key = Probe(h) /\ e.snap = Empty
    BY <1>4 DEF Reader
  <2> HIDE DEF n, e
  <2>3. DOMAIN readers' = DOMAIN readers \cup {n} /\ readers'[n] = e
    BY <2>1 DEF Started
  <2>4. \A i \in DOMAIN readers : readers'[i] = readers[i]
    BY <1>5, <2>1 DEF Started, n
  <2>5. IsFiniteSet(DOMAIN readers')
    <3>1. IsFiniteSet(DOMAIN readers)
      BY DEF ReadInv, ReadTypeOK
    <3> QED BY <2>3, <3>1, FS_AddElement
  <2>6. ReadTypeOK'
    BY <1>1, <1>2, <1>3, <1>5, <2>1, <2>3, <2>5 DEF ReadInv, ReadTypeOK, storeVars, n
  <2>7. ReadersTyped'
    BY <2>2, <2>3, <2>4 DEF ReadInv, ReadersTyped
  <2>8. read_' # Absent /\ read_'.reader = n /\ read_'.owner = address[h]
    <3>1. [owner |-> address[h], reader |-> n] \in [owner : Addresses, reader : Nat]
      BY <1>3, <1>5 DEF n
    <3> QED BY <2>1, <3>1, ReadAssumption
  <2>9. ReadersHeld'
    BY <1>1, <1>5, <2>1, <2>3, <2>8 DEF ReadInv, ReadersHeld, n
  <2>10. ReadIsTheHeads'
    BY <1>1, <1>3, <1>4, <2>2, <2>3, <2>8 DEF ReadIsTheHeads
  <2> QED BY <1>1, <1>2, <2>6, <2>7, <2>9, <2>10 DEF ReadInv, RestoresOwnPrefix
<1>8. CASE OwnsRead(h)
  <2>1. UNCHANGED readVars
    BY <1>6, <1>8 DEF plan_loading
  <2> QED BY <1>1, <1>2, <1>3, <2>1
          DEF ReadInv, ReadTypeOK, ReadersTyped, ReadersHeld, ReadIsTheHeads, RestoresOwnPrefix,
              OwnsRead, storeVars, readVars
<1> QED BY <1>7, <1>8

(* What a plan that is ready restores, and what becomes of the reads. *)
LEMMA PlanProps ==
  ASSUME ReadInv, ~ LineEmpty, TakeHead, NEW from, plan_ready(HeadOfLine, from)
  PROVE  /\ from \in Seq(Nat) /\ IsStrictPrefix(from, Prompt[HeadOfLine])
         /\ read_' = Absent
         /\ DOMAIN readers' \subseteq DOMAIN readers /\ DOMAIN readers' = finished_reads_'
         /\ \A i \in DOMAIN readers' : readers'[i] = readers[i]
<1> DEFINE h == HeadOfLine
<1>1. /\ h \in Requests
      /\ read_ # Absent => OwnsRead(h) /\ IsStrictPrefix(readers[read_.reader].key, Prompt[h])
  BY HeadProps
<1>2. RamHit(h) \in Seq(Nat) /\ IsStrictPrefix(RamHit(h), Prompt[h])
  BY <1>1, RamHitProps DEF ReadInv, ReadTypeOK
<1>3. plan_ready(h, from)
  OBVIOUS
<1> HIDE DEF h
<1>4. CASE WantsRead(h)
  <2> DEFINE n == read_.reader
             snap == readers[n].snap
  <2>1. /\ read_ # Absent /\ readers' = Joined({n}) /\ read_' = Absent
        /\ from \in {RamHit(h), snap} /\ (snap = Empty => from = RamHit(h))
        /\ finished_reads_' = finished_reads_
    BY <1>3, <1>4 DEF plan_ready, OwnsRead
  <2>2. n \in DOMAIN readers /\ snap \in {Empty, readers[n].key} /\ readers[n].key \in States
    BY <2>1 DEF ReadInv, ReadersHeld, ReadersTyped, Reader
  <2>3. from \in Seq(Nat) /\ IsStrictPrefix(from, Prompt[h])
    BY <1>1, <1>2, <2>1, <2>2, ReadAssumption
  <2>4. DOMAIN readers' = DOMAIN readers \ {n} /\ \A i \in DOMAIN readers' : readers'[i] = readers[i]
    BY <2>1 DEF Joined, Restrict
  <2>5. DOMAIN readers = finished_reads_ \cup {n} /\ n \notin finished_reads_
    BY <2>1 DEF ReadInv, ReadersHeld
  <2> QED BY <2>1, <2>3, <2>4, <2>5 DEF h
<1>5. CASE ~ WantsRead(h)
  <2>1. from = RamHit(h) /\ drop_read /\ UNCHANGED readers
    BY <1>3, <1>5 DEF plan_ready
  <2> QED BY <1>2, <2>1 DEF drop_read, ReadInv, ReadersHeld, h
<1> QED BY <1>4, <1>5

(* The head is admitted, waits for a slot or is refused, its read joined   *)
(* or dropped. *)
LEMMA AdmitKeeps ==
  ASSUME ReadInv, Admitting, ~ LineEmpty, TakeHead, Admit(HeadOfLine)
  PROVE  ReadInv'
<1> DEFINE h == HeadOfLine
<1>1. PICK from \in {Empty} \cup States :
        /\ plan_ready(h, from)
        /\ \/ /\ live' = live \cup {h} /\ restored' = [restored EXCEPT ![h] = from]
              /\ deferred' = Absent /\ UNCHANGED <<pc, address, over>>
           \/ /\ live # {} /\ deferred' = h /\ pc' = "top"
              /\ UNCHANGED <<live, address, restored, over>>
           \/ /\ deferred' = Absent /\ Finish(h)
              /\ UNCHANGED <<pc, live, restored>>
  BY DEF Admit
<1>2. UNCHANGED <<stopping_, storeVars>>
  BY DEF Admit
<1>3. /\ from \in Seq(Nat) /\ IsStrictPrefix(from, Prompt[h]) /\ read_' = Absent
      /\ DOMAIN readers' \subseteq DOMAIN readers /\ DOMAIN readers' = finished_reads_'
      /\ \A i \in DOMAIN readers' : readers'[i] = readers[i]
  BY <1>1, PlanProps
<1>4. /\ LineDistinct'
      /\ queue' \in Seq(Requests) /\ deferred' \in Requests \cup {Absent}
      /\ live' \subseteq Requests /\ address' \in [Requests -> Addresses \cup {Absent}]
  BY <1>1, HeadMoves
<1>5. h \in Requests
  BY HeadProps
<1>6. pc = "admit"
  BY DEF Admitting
<1> HIDE DEF h
<1>7. restored' \in [Requests -> Seq(Nat)] /\ RestoresOwnPrefix'
  BY <1>1, <1>3, <1>5 DEF ReadInv, ReadTypeOK, RestoresOwnPrefix
<1>8. IsFiniteSet(DOMAIN readers')
  <2>1. IsFiniteSet(DOMAIN readers)
    BY DEF ReadInv, ReadTypeOK
  <2> QED BY <1>3, <2>1, FS_Subset
<1>9. ReadTypeOK'
  BY <1>2, <1>3, <1>4, <1>7, <1>8 DEF ReadInv, ReadTypeOK, storeVars
<1>10. ReadersTyped' /\ ReadIsTheHeads'
  BY <1>3 DEF ReadInv, ReadersTyped, ReadIsTheHeads
<1>11. pc' \notin {"stop", "exited"}
  BY <1>1, <1>6
<1>12. ReadersHeld'
  BY <1>3, <1>11 DEF ReadersHeld
<1> QED BY <1>4, <1>7, <1>9, <1>10, <1>11, <1>12 DEF ReadInv

(* Readers that ended are joined, and only those that were dropped. *)
LEMMA ReapKeeps == ReadInv /\ reap_reads => ReadInv'
<1> SUFFICES ASSUME ReadInv, reap_reads PROVE ReadInv'
  OBVIOUS
<1> DEFINE ended == {i \in finished_reads_ : readers[i].state = "done"}
<1>1. /\ pc = "top" /\ pc' = "admit"
      /\ readers' = Joined(ended) /\ finished_reads_' = finished_reads_ \ ended
      /\ UNCHANGED <<lineVars, storeVars, read_, restored>>
  BY DEF reap_reads
<1>2. ended \subseteq finished_reads_
  OBVIOUS
<1> HIDE DEF ended
<1>3. /\ DOMAIN readers' = DOMAIN readers \ ended
      /\ \A i \in DOMAIN readers' : readers'[i] = readers[i]
  BY <1>1 DEF Joined, Restrict
<1>4. IsFiniteSet(DOMAIN readers')
  <2>1. IsFiniteSet(DOMAIN readers) /\ DOMAIN readers' \in SUBSET (DOMAIN readers)
    BY <1>3 DEF ReadInv, ReadTypeOK
  <2> QED BY <2>1, FS_Subset
<1>5. ReadTypeOK'
  BY <1>1, <1>3, <1>4 DEF ReadInv, ReadTypeOK, lineVars, storeVars
<1>6. ReadersHeld'
  BY <1>1, <1>2, <1>3 DEF ReadInv, ReadersHeld
<1>7. read_ # Absent => read_.reader \in DOMAIN readers'
  BY <1>2, <1>3 DEF ReadInv, ReadersHeld
<1>8. ReadIsTheHeads' /\ ReadersTyped'
  BY <1>1, <1>3, <1>7 DEF ReadInv, ReadIsTheHeads, ReadersTyped, lineVars
<1> QED BY <1>1, <1>5, <1>6, <1>8
        DEF ReadInv, LineDistinct, Unfinished, RestoresOwnPrefix, lineVars

(* A request that ends was not in line. *)
LEMMA RetireKeeps ==
  ASSUME ReadInv, NEW r \in Requests, retire_slot(r)
  PROVE  ReadInv'
<1>1. /\ r \in live /\ live' = live \ {r} /\ address' = [address EXCEPT ![r] = Absent]
      /\ UNCHANGED <<pc, queue, deferred, stopping_, storeVars, readVars, restored>>
  BY DEF retire_slot, Finish
<1>2. r \notin ToSet(queue) /\ deferred # r
  BY <1>1 DEF ReadInv, LineDistinct
<1>3. ReadTypeOK'
  BY <1>1 DEF ReadInv, ReadTypeOK, storeVars, readVars
<1>4. LineDistinct'
  <2>1. Unfinished' \subseteq Unfinished \ {r}
    BY <1>1, <1>2 DEF Unfinished
  <2>2. \A q \in Unfinished' : address'[q] # Absent
    BY <1>1, <2>1 DEF ReadInv, ReadTypeOK, LineDistinct, Unfinished
  <2>3. deferred' \notin ToSet(queue') \cup live' /\ ToSet(queue') \cap live' = {} /\ IsInjective(queue')
    BY <1>1 DEF ReadInv, LineDistinct
  <2> QED BY <2>2, <2>3 DEF LineDistinct
<1>5. ReadIsTheHeads'
  BY <1>1, <1>2 DEF ReadInv, ReadTypeOK, ReadIsTheHeads, readVars
<1> QED BY <1>1, <1>3, <1>4, <1>5 DEF ReadInv, ReadersTyped, ReadersHeld, RestoresOwnPrefix, readVars

(* Every reader is joined before the requests are let go. *)
LEMMA JoinKeeps == ReadInv /\ join_reads => ReadInv'
<1> SUFFICES ASSUME ReadInv, join_reads PROVE ReadInv'
  OBVIOUS
<1> DEFINE all == finished_reads_ \cup (IF read_ = Absent THEN {} ELSE {read_.reader})
<1>1. /\ readers' = Joined(all) /\ read_' = Absent /\ finished_reads_' = {}
      /\ pc' = "exited" /\ queue' = <<>> /\ deferred' = Absent /\ live' = {}
      /\ address' = [r \in Requests |-> Absent]
      /\ UNCHANGED <<stopping_, storeVars, restored>>
  BY DEF join_reads, Teardown
<1>2. all = DOMAIN readers
  BY DEF ReadInv, ReadersHeld
<1> HIDE DEF all
<1>3. DOMAIN readers' = {}
  BY <1>1, <1>2 DEF Joined, Restrict
<1>4. stopping_
  BY DEF ReadInv, join_reads
<1>5. ReadTypeOK'
  <2>1. IsFiniteSet({}) /\ <<>> \in Seq(Requests)
    BY FS_EmptySet
  <2> QED BY <1>1, <1>3, <2>1 DEF ReadInv, ReadTypeOK, storeVars
<1>6. LineDistinct'
  <2>1. ToSet(<<>>) = {} /\ IsInjective(<<>>)
    BY DEF ToSet, IsInjective
  <2> QED BY <1>1, <2>1 DEF LineDistinct, Unfinished
<1> QED BY <1>1, <1>3, <1>4, <1>5, <1>6
        DEF ReadInv, ReadersTyped, ReadersHeld, ReadIsTheHeads, RestoresOwnPrefix

LEMMA ReadNextInv == ReadInv /\ [ReadNext]_diskReadVars => ReadInv'
<1> SUFFICES ASSUME ReadInv, [ReadNext]_diskReadVars PROVE ReadInv'
  OBVIOUS
<1>1. CASE UNCHANGED diskReadVars
  BY <1>1, QuietKeeps DEF diskReadVars, lineVars
<1>2. CASE SchedulerThread
  <2>1. CASE admit_job
    <3>1. Admitting /\ ~ LineEmpty /\ TakeHead
      BY <2>1 DEF admit_job
    <3>2. plan_loading(HeadOfLine) \/ Admit(HeadOfLine)
      BY <2>1 DEF admit_job
    <3> QED BY <3>1, <3>2, LoadingKeeps, AdmitKeeps
  <2>2. CASE no_candidate \/ end_loop
    <3>1. /\ pc' = "top" \/ (pc' = "stop" /\ stopping_')
          /\ UNCHANGED stopping_
          /\ UNCHANGED <<queue, deferred, live, address, storeVars, readVars, restored>>
      BY <2>2 DEF no_candidate, end_loop, lineVars
    <3> QED BY <3>1, QuietKeeps
  <2> QED BY <1>2, <2>1, <2>2, GoneKeeps, ReapKeeps, JoinKeeps, RetireKeeps DEF SchedulerThread
<1>3. CASE \E i \in DOMAIN readers : reader_finish(i)
  BY <1>3, ReaderFinishKeeps
<1>4. CASE \E r \in Requests : \E a \in Addresses : Arrive(r, a)
  BY <1>4, ArriveKeeps
<1>5. CASE Stop \/ Exited \/ \E r \in Requests : Disconnect(r)
  <2>1. /\ UNCHANGED <<queue, deferred, live, address, storeVars, readVars, restored>>
        /\ pc' = pc /\ (stopping_ => stopping_')
    BY <1>5 DEF Stop, Exited, Disconnect, diskReadVars, lineVars
  <2> QED BY <2>1, QuietKeeps
<1>6. CASE StoreChange
  BY <1>6, StoreChangeKeeps
<1> QED BY <1>1, <1>2, <1>3, <1>4, <1>5, <1>6 DEF ReadNext

(* The read in flight is the head's own and every thread is held, through  *)
(* disconnects, reused addresses, evictions, failed loads and shutdown. *)
THEOREM ReadInvariant == ReadSpec => []ReadInv
BY ReadInitInv, ReadNextInv, PTL DEF ReadSpec

(* No request is restored from another's state, although jobs are told     *)
(* apart by addresses that are used again. *)
THEOREM OwnPrefixRestored == ReadSpec => []RestoresOwnPrefix
<1>1. ReadInv => RestoresOwnPrefix
  BY DEF ReadInv
<1> QED BY <1>1, ReadInvariant, PTL

(* No reader thread is abandoned or joined twice, and none outlives the    *)
(* scheduler. *)
THEOREM EveryReaderHeld == ReadSpec => []ReadersHeld
<1>1. ReadInv => ReadersHeld
  BY DEF ReadInv
<1> QED BY <1>1, ReadInvariant, PTL

=============================================================================
