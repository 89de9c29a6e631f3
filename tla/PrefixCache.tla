----------------------------- MODULE PrefixCache -----------------------------
(***************************************************************************)
(* The prefix cache of concurrent serving (server/kv/prefix_cache, the     *)
(* concurrent half of server/kv/kv_cache, server/kv/parallel_prefix_txn):  *)
(* an LRU index of checkpoints, each a prefix of some prompt held in a     *)
(* backend snapshot slot, and the captures that prefilling requests have   *)
(* in flight.  The index (policy) and the engine (payloads) are two owners *)
(* of one slot: a request reserves a slot when it is admitted, the engine  *)
(* writes it many steps later, and everything the other requests do falls  *)
(* in between.                                                             *)
(*                                                                         *)
(* A prompt is the sequence of its messages, cut only at message ends (the *)
(* chat boundaries), so that a checkpoint is a sequence too and its length *)
(* is the position it restores to.  Hashes are taken as injective.  The    *)
(* scheduler runs plan, admission and the capture events on one thread:    *)
(* each is one action.                                                     *)
(***************************************************************************)
EXTENDS Integers, FiniteSets, Sequences, SequencesExt, FiniteSetsExt, FreeList

CONSTANTS
    Requests,           \* the scheduler's slots: requests that can be live at once
    Queries,            \* what a request may ask: prompt, tools, forced cut, ...
    cap,                \* prefix-cache slots
    max_resident_bytes, \* the resident budget; 0 is no limit
    estimate_bytes(_),  \* bytes of a checkpoint of this many messages
    shared_prefix_min,  \* least a queued prefix must add; 0 turns it off
    restore_point_spacing, \* messages between the cuts kept; 0 keeps them all
    Disk,               \* the disk cache takes part (concurrent_disk_)
    Faults              \* the engine may refuse, damage or misreport

ASSUME CapAssumption == cap \in Nat \ {0}
ASSUME BudgetAssumption == max_resident_bytes \in Nat /\ shared_prefix_min \in Nat
ASSUME SpacingAssumption == restore_point_spacing \in Nat
ASSUME QueriesAssumption == \A q \in Queries :
    /\ q.prompt \in Seq(Nat) /\ Len(q.prompt) > 0
    /\ q.forced_cut \in 0 .. Len(q.prompt) /\ q.shared \in 0 .. Len(q.prompt)
    /\ {q.tools, q.deep, q.full} \subseteq BOOLEAN
    /\ \A n \in 1 .. Len(q.prompt) : estimate_bytes(n) \in Nat

VARIABLES
    entries,      \* entries_: the committed checkpoints, least recently used first
    captures,     \* request -> its active reservation and ticket, or NoCapture
    live,         \* request -> the query it was admitted with, or Idle
    next_slot,    \* next_slot_: where the search for a free slot starts
    snapshots,    \* the engine's payloads: slot -> the prefix it holds, or Empty
    displaced,    \* the payload a capture replaced in a slot, until it is claimed
    handed        \* the (key, payload) pairs the last step gave to the disk writer

vars == <<entries, captures, live, next_slot, snapshots, displaced, handed>>

Slots == 0 .. cap - 1
NoCapture == [slot |-> -1]
Idle == [prompt |-> <<>>]
Empty == <<>>

-----------------------------------------------------------------------------
(* The index: entries as a sequence, oldest first.                         *)

BytesOf(es) == MapThenSumSet(LAMBDA i : es[i].bytes, DOMAIN es)

is_ancestor(es, i) == \E j \in DOMAIN es : IsStrictPrefix(es[i].ids, es[j].ids)

has_ancestor(es, i) == \E j \in DOMAIN es : IsStrictPrefix(es[j].ids, es[i].ids)

Least(S) == IF S = {} THEN 0 ELSE Min(S)

find_entry(es, ids) == Least({i \in DOMAIN es : es[i].ids = ids})

find_slot_entry(es, slot) == Least({i \in DOMAIN es : es[i].slot = slot})

erase(es, S) == Without(es, S)

(* A victim among the entries in LRU order; 0 when there is none.          *)
select_inline_evict_victim(es, skip, held) ==
    LET free == {i \in DOMAIN es : i # skip /\ i \notin held}
        bare == {i \in free : ~es[i].protect}
        middle == {i \in bare : is_ancestor(es, i) /\ has_ancestor(es, i)}
        leaves == {i \in free : ~is_ancestor(es, i)}
        above == {i \in bare : is_ancestor(es, i)}
        shallow == {i \in above : \A j \in above : Len(es[i].ids) <= Len(es[j].ids)}
    IN CASE middle # {} -> Min(middle)
         [] middle = {} /\ leaves \cap bare # {} -> Min(leaves \cap bare)
         [] OTHER -> IF skip > 0 /\ shallow # {} THEN Min(shallow) ELSE Least(leaves)

(* The entries a new checkpoint of ids makes superfluous: its ancestors    *)
(* but the shallowest and the pins.                                        *)
superseded_entries(es, ids) ==
    LET above == {i \in DOMAIN es : IsStrictPrefix(es[i].ids, ids)}
        shallowest == {i \in above : \A j \in above : Len(es[i].ids) <= Len(es[j].ids)}
    IN {i \in above : ~es[i].protect} \ shallowest

persist_on_evict(es, i) == es[i].edit_backup /\ ~es[i].protect => ~is_ancestor(es, i)

lookup_candidate(es, prompt) ==
    LET hits == {i \in DOMAIN es : IsPrefix(es[i].ids, prompt)}
    IN IF hits = {} THEN 0
       ELSE CHOOSE i \in hits : \A j \in hits : Len(es[j].ids) <= Len(es[i].ids)

record_inline_hit(es, i) == Append(erase(es, {i}), es[i])

-----------------------------------------------------------------------------
(* Reservations.                                                           *)

Held(cs) == {r \in Requests : cs[r] # NoCapture}

slot_reserved(cs, slot) ==
    \E r \in Held(cs) : cs[r].slot = slot \/ slot \in Range(cs[r].extra_slots)

slot_credited(cs, slot) == \E r \in Held(cs) : slot \in cs[r].credited_slots

(* The last of the spaced points up to a cut: every cut where nothing is   *)
(* spaced, otherwise the first and then each that far from the last kept.  *)
restore_point(cut) ==
    IF restore_point_spacing = 0 \/ cut = 0 THEN cut
    ELSE cut - ((cut - 1) % restore_point_spacing)

(* The cut a request captures (0: none) and whether the capture is a pin.  *)
(* A backend that spaces its restore points gets the point before the cut, *)
(* unless the cut is the prompt's end.                                     *)
target_cut(q, restored, forced_cut) ==
    LET n == Len(q.prompt)
        head == q.tools \/ (n = 2 /\ restored < 1)
        whole_prompt_fits == \/ max_resident_bytes = 0
                             \/ estimate_bytes(n) \in 1 .. max_resident_bytes
        deep_first == /\ q.deep /\ head /\ restored <= 1
                      /\ forced_cut <= restored /\ whole_prompt_fits
        tools == q.tools /\ ~deep_first
        forced == ~(tools /\ restored >= 1) /\ forced_cut > restored
        wanted == CASE forced -> forced_cut
                    [] ~forced /\ head /\ ~deep_first /\ restored < 1 -> 1
                    [] OTHER -> IF n > restored THEN n ELSE 0
        point == IF wanted = n THEN n ELSE restore_point(wanted)
        cut == IF point > restored THEN point ELSE 0
    IN [cut |-> cut, protect |-> tools /\ ((forced /\ cut = wanted) \/ cut = 1)]

(* Mutant: a slot another capture is about to write counts as free.        *)
choose_slot_unreserved(es, cs, nxt, source) ==
    LET free == {s \in Slots : find_slot_entry(es, s) = 0}
    IN IF free = {} THEN [slot |-> -1, victim |-> 0, next |-> nxt]
       ELSE [slot |-> Min(free), victim |-> 0, next |-> nxt]

(* Where a capture of ids goes when every slot counts as taken (over a     *)
(* victim) or not (the next free slot, never the restore source).          *)
choose_slot(es, cs, nxt, source) ==
    LET reserved_free == Cardinality({r \in Held(cs) : cs[r].victim = Empty})
        victim == select_inline_evict_victim(es, find_slot_entry(es, source),
                     {i \in DOMAIN es : slot_reserved(cs, es[i].slot)})
        free == {s \in Slots : /\ s # source \/ cap = 1
                               /\ find_slot_entry(es, s) = 0 /\ ~slot_reserved(cs, s)}
        after == {s \in free : s >= nxt}
    IN IF Len(es) + reserved_free >= cap
       THEN [slot |-> IF victim = 0 THEN -1 ELSE es[victim].slot, victim |-> victim,
             next |-> nxt]
       ELSE IF free = {} THEN [slot |-> -1, victim |-> 0, next |-> nxt]
       ELSE LET s == Min(IF after # {} THEN after ELSE free)
            IN [slot |-> s, victim |-> 0, next |-> IF s + 1 = cap THEN 0 ELSE s + 1]

(* The budget's answer for a capture of ids placed as `at`: nothing to do, *)
(* several extra victims, another slot, or no capture at all.              *)
reclaimable(es, cs, ids) ==
    {i \in superseded_entries(es, ids) : ~slot_reserved(cs, es[i].slot)}

pending_bytes(cs) == MapThenSumSet(LAMBDA r : cs[r].bytes, Held(cs))

(* Whether a capture of est bytes fits once the entries S are gone. *)
room(es, cs, est, S) ==
    /\ est \in 1 .. max_resident_bytes
    /\ est + Max({0, BytesOf(es) + pending_bytes(cs) - MapThenSumSet(LAMBDA i : es[i].bytes, S)})
         <= max_resident_bytes

(* One victim that makes the room: intermediate ones, then leaves; and, if *)
(* several did not, pinned leaves, then anything.                          *)
first_of(passes, single) ==
    LET hit == {k \in DOMAIN passes : passes[k] \cap single # {}}
    IN IF hit = {} THEN 0 ELSE Min(passes[Min(hit)] \cap single)

Leaves(es) == {i \in DOMAIN es : ~is_ancestor(es, i)}
Pins(es) == {i \in DOMAIN es : es[i].protect}
early_victim(es, single) ==
    first_of(<<{i \in DOMAIN es \ Leaves(es) : has_ancestor(es, i)} \ Pins(es),
               Leaves(es) \ Pins(es)>>, single)
late_victim(es, single) == first_of(<<Leaves(es), DOMAIN es \ Pins(es), DOMAIN es>>, single)

(* The victims a plan of several may take, in order: edit backups, leaves. *)
expendable(es, cs, ids, source, taken) ==
    LET open == {i \in DOMAIN es \ (taken \cup Pins(es)) :
                   /\ es[i].slot # source /\ ~IsStrictPrefix(es[i].ids, ids)
                   /\ ~slot_reserved(cs, es[i].slot) /\ ~slot_credited(cs, es[i].slot)}
    IN Ascending({i \in open \ Leaves(es) : es[i].edit_backup})
         \o Ascending(open \cap Leaves(es))

(* As many of them as it takes; none when they are not enough.             *)
several(es, cs, est, taken, order) ==
    LET enough(k) == est > 0 /\ room(es, cs, est, taken \cup Range(SubSeq(order, 1, k)))
    IN SubSeq(order, 1, Least({k \in DOMAIN order : enough(k)}))

make_room(es, at, early, plan, late) ==
    LET over(i) == [at EXCEPT !.slot = es[i].slot, !.victim = i]
    IN IF early > 0 THEN [ok |-> TRUE, at |-> over(early), several |-> <<>>]
       ELSE IF plan # <<>> THEN [ok |-> TRUE, at |-> at, several |-> plan]
       ELSE IF late > 0 THEN [ok |-> TRUE, at |-> over(late), several |-> <<>>]
       ELSE [ok |-> FALSE, at |-> at, several |-> <<>>]

budget(es, cs, ids, at, source) ==
    LET est == estimate_bytes(Len(ids))
        planned == IF at.victim > 0 THEN {at.victim}
                   ELSE {i \in DOMAIN es : es[i].slot = at.slot}
        taken == planned \cup reclaimable(es, cs, ids)
        single == {i \in DOMAIN es :
                     /\ es[i].slot # source /\ ~slot_reserved(cs, es[i].slot)
                     /\ room(es, cs, est, {i} \cup reclaimable(es, cs, ids))}
    IN IF max_resident_bytes = 0 \/ room(es, cs, est, taken)
       THEN [ok |-> TRUE, at |-> at, several |-> <<>>]
       ELSE make_room(es, at, early_victim(es, single),
                      several(es, cs, est, taken, expendable(es, cs, ids, source, taken)),
                      late_victim(es, single))

(* Saved already, or about to be.                                          *)
known(es, cs, ids) ==
    find_entry(es, ids) > 0 \/ \E r \in Held(cs) : cs[r].key = ids

(* One reservation attempt: the capture (NoCapture when refused) and the   *)
(* slot the next search starts from.                                       *)
reservation(es, cs, nxt, t, ids, place, b) ==
    LET extra == [k \in DOMAIN b.several |-> es[b.several[k]].slot]
        victim == IF b.at.victim > 0 THEN es[b.at.victim].ids ELSE Empty
        credited == IF max_resident_bytes = 0 THEN {}
                    ELSE {es[i].slot : i \in reclaimable(es, cs, ids)}
    IN IF t.cut = 0 \/ known(es, cs, ids) THEN [capture |-> NoCapture, next |-> nxt]
       ELSE IF place.slot < 0 \/ ~b.ok THEN [capture |-> NoCapture, next |-> place.next]
       ELSE [next |-> place.next,
             capture |->
               [slot |-> b.at.slot, key |-> ids, protect |-> t.protect, victim |-> victim,
                bytes |-> IF max_resident_bytes = 0 THEN 0 ELSE estimate_bytes(t.cut),
                extra |-> [k \in DOMAIN b.several |-> es[b.several[k]].ids],
                extra_slots |-> extra,
                credited_slots |-> credited \cup Range(extra)
                    \cup (IF victim # Empty THEN {b.at.slot} ELSE {})]]

reserve_inline_snap(q, restored, source, nxt, forced_cut) ==
    LET t == target_cut(q, restored, forced_cut)
        ids == SubSeq(q.prompt, 1, t.cut)
        place == choose_slot(entries, captures, nxt, source)
    IN reservation(entries, captures, nxt, t, ids, place,
                   budget(entries, captures, ids, place, source))

(* The capture of a plan: the request's own cut or, when the queued        *)
(* requests share less of the prompt than that but enough, their prefix.   *)
shared_or_own(q, restored, source, common) ==
    IF /\ common.capture # NoCapture
       /\ Len(common.capture.key) <= q.shared
       /\ Len(common.capture.key) - restored >= shared_prefix_min
    THEN common
    ELSE reserve_inline_snap(q, restored, source, common.next, q.forced_cut)

own_or_shared(q, restored, source, own) ==
    IF /\ own.capture # NoCapture /\ shared_prefix_min > 0
       /\ q.forced_cut <= restored /\ q.shared < Len(own.capture.key)
       /\ q.shared - restored >= shared_prefix_min
    THEN shared_or_own(q, restored, source,
                       reserve_inline_snap(q, restored, source, own.next, q.shared))
    ELSE own

plan_capture(q, restored, source) ==
    own_or_shared(q, restored, source,
                  reserve_inline_snap(q, restored, source, next_slot, q.forced_cut))

-----------------------------------------------------------------------------
(* Admission: KvCache::plan, the engine's admit_with_prefix and            *)
(* KvCache::admitted and restored, on the scheduler's thread.              *)

discard(snaps, slot, tokens) ==
    IF slot \in Slots /\ Len(snaps[slot]) = tokens
    THEN [snaps EXCEPT ![slot] = Empty] ELSE snaps

(* admitted: restored as asked, the capture armed.  unarmed: the engine    *)
(* refused the capture.  busy: nothing happened and the request waits or   *)
(* fails.  stale: the payload did not restore; it and its entry are        *)
(* dropped, the prompt is admitted cold without a capture.  malformed: an  *)
(* answer the plan did not ask for; the request fails.                     *)
Answers == {"admitted", "unarmed", "busy"}
           \cup (IF Faults THEN {"stale", "stale_busy", "malformed"} ELSE {})

admission(r, q, answer, hit, source, restored, planned) ==
    LET usable == hit > 0 /\ Len(snapshots[source]) = restored
        rejects == hit > 0 /\ answer \in {"stale", "stale_busy", "malformed"}
    IN /\ answer \in {"stale", "stale_busy"} => hit > 0
       /\ hit > 0 /\ ~usable => answer \in {"busy", "stale", "stale_busy", "malformed"}
       /\ answer = "admitted" => planned.capture # NoCapture
       /\ next_slot' = planned.next
       /\ live' = IF answer \in {"admitted", "unarmed", "stale"}
                  THEN [live EXCEPT ![r] = q] ELSE live
       /\ captures' = IF answer = "admitted"
                      THEN [captures EXCEPT ![r] = planned.capture] ELSE captures
       /\ entries' = CASE rejects -> erase(entries, {hit})
                       [] ~rejects /\ hit > 0 /\ answer # "busy" ->
                              record_inline_hit(entries, hit)
                       [] OTHER -> entries
       /\ snapshots' = IF rejects THEN discard(snapshots, source, restored) ELSE snapshots
       /\ handed' = {}
       /\ UNCHANGED displaced

admit(r, q) ==
    LET hit == lookup_candidate(entries, q.prompt)
        source == IF hit = 0 THEN -1 ELSE entries[hit].slot
        restored == IF hit = 0 THEN 0 ELSE Len(entries[hit].ids)
    IN /\ live[r] = Idle
       /\ \E planned \in {plan_capture(q, restored, source)}, answer \in Answers :
            admission(r, q, answer, hit, source, restored, planned)

-----------------------------------------------------------------------------
(* The capture event: PrefixCaptureTxn::resolve and KvCache::captured.     *)

(* The entries a commit evicts, in order: the planned extras that are      *)
(* still where they were, then the victim, then whatever is in the slot.   *)
evictions(es, c) ==
    LET kept == {k \in DOMAIN c.extra : \E i \in DOMAIN es :
                    i = find_entry(es, c.extra[k]) /\ es[i].slot = c.extra_slots[k]}
        extras == [m \in 1 .. Cardinality(kept) |-> find_entry(es, c.extra[Ascending(kept)[m]])]
        victim == IF c.victim = Empty THEN {} ELSE {find_entry(es, c.victim)} \ {0}
        there == {i \in DOMAIN es : es[i].slot = c.slot}
    IN extras \o Ascending(victim \ Range(extras))
              \o Ascending(there \ (victim \cup Range(extras)))

(* Mutant: an edit backup is never written.                                *)
worth_writing_newest(es, order, k) ==
    Disk /\ es[order[k]].disk_key /\ ~es[order[k]].edit_backup

(* Whether each of them is worth the disk when its turn comes.             *)
worth_writing(es, order, k) ==
    LET i == order[k]
        gone == {order[m] : m \in 1 .. k - 1}
    IN /\ Disk /\ es[i].disk_key
       /\ es[i].edit_backup /\ ~es[i].protect =>
            ~\E j \in DOMAIN es \ gone : IsStrictPrefix(es[i].ids, es[j].ids)

(* What prune_superseded_ancestors drops once the new entry is in: all it  *)
(* supersedes, but the deepest stays as an edit backup if the budget holds *)
(* it once the others are gone.                                            *)
pruned(es, ids) ==
    LET old == superseded_entries(es, ids)
        previous == {i \in old : \A j \in old : Len(es[j].ids) <= Len(es[i].ids)}
        others == MapThenSumSet(LAMBDA i : es[i].bytes, old \ previous)
    IN IF max_resident_bytes = 0 \/ BytesOf(es) - others <= max_resident_bytes
       THEN [drop |-> old \ previous, keep |-> previous]
       ELSE [drop |-> old, keep |-> {}]

prune_superseded_ancestors(es, ids) ==
    LET p == pruned(es, ids)
        marked == [i \in DOMAIN es |-> IF i \in p.keep THEN [es[i] EXCEPT !.edit_backup = TRUE]
                                       ELSE es[i]]
    IN erase(marked, p.drop)

(* The slots of dropped entries whose payload still has their length.      *)
discarded(es, snaps) == {e.slot : e \in {e \in es : Len(snaps[e.slot]) = Len(e.ids)}}

(* Where the payload of an evicted entry is: aside when the capture took   *)
(* its slot, else still in place.                                          *)
evicted_payload(e, c, snaps, disp) == IF e.slot = c.slot THEN disp[e.slot] ELSE snaps[e.slot]

(* Commit the capture of r: the payload is in its slot, what it replaced   *)
(* is in displaced.  The evicted payloads go to the disk or are freed.     *)
commit(r, snaps, disp) ==
    LET c == captures[r]
        order == evictions(entries, c)
        new == [ids |-> c.key, slot |-> c.slot, protect |-> c.protect,
                bytes |-> estimate_bytes(Len(c.key)), edit_backup |-> FALSE,
                disk_key |-> Disk /\ live[r].full]
        landed == Append(erase(entries, Range(order)), new)
        payload(i) == evicted_payload(entries[i], c, snaps, disp)
        detached == {entries[order[k]].slot :
                       k \in {k \in DOMAIN order : worth_writing(entries, order, k)}}
        gone == {entries[i] : i \in Range(order)}
        behind == {landed[i] : i \in pruned(landed, c.key).drop}
        freed == (detached \cup discarded(gone, snaps) \cup discarded(behind, snaps)) \ {c.slot}
    IN /\ entries' = prune_superseded_ancestors(landed, c.key)
       /\ snapshots' = [s \in Slots |-> IF s \in freed THEN Empty ELSE snaps[s]]
       /\ displaced' = [disp EXCEPT ![c.slot] = Empty]
       /\ handed' = {<<entries[order[k]].ids, payload(order[k])>> :
                       k \in {k \in DOMAIN order : worth_writing(entries, order, k)
                                                   /\ payload(order[k]) # Empty}}

(* replace_paged_target_cache: the new payload in, the old one aside.      *)
written(c) ==
    [snaps |-> [snapshots EXCEPT ![c.slot] = c.key],
     disp |-> IF snapshots[c.slot] = Empty THEN displaced
              ELSE [displaced EXCEPT ![c.slot] = snapshots[c.slot]]]

captured_saved(r) ==
    /\ captures[r] # NoCapture
    /\ LET w == written(captures[r]) IN commit(r, w.snaps, w.disp)
    /\ captures' = [captures EXCEPT ![r] = NoCapture]
    /\ UNCHANGED <<live, next_slot>>

(* A capture the engine could not copy: nothing was touched.               *)
captured_failed(r) ==
    /\ captures[r] # NoCapture
    /\ displaced' = [displaced EXCEPT ![captures[r].slot] = Empty]
    /\ captures' = [captures EXCEPT ![r] = NoCapture]
    /\ handed' = {}
    /\ UNCHANGED <<entries, live, next_slot, snapshots>>

(* Mutant: the entry of the slot is kept.                                  *)
captured_mismatched_kept(r, wrote) ==
    /\ Faults /\ captures[r] # NoCapture
    /\ LET c == captures[r]
           w == written(c)
       IN /\ snapshots' = discard(IF wrote THEN w.snaps ELSE snapshots, c.slot, Len(c.key))
          /\ displaced' = IF wrote THEN w.disp ELSE displaced
    /\ captures' = [captures EXCEPT ![r] = NoCapture]
    /\ handed' = {}
    /\ UNCHANGED <<entries, live, next_slot>>

(* A saved event with another ticket: whether or not the engine wrote this *)
(* capture's slot, the transaction drops its own payload and metadata.     *)
captured_mismatched(r, wrote) ==
    /\ Faults /\ captures[r] # NoCapture
    /\ LET c == captures[r]
           w == written(c)
           snaps == IF wrote THEN w.snaps ELSE snapshots
       IN /\ snapshots' = discard(snaps, c.slot, Len(c.key))
          /\ displaced' = IF wrote THEN w.disp ELSE displaced
          /\ entries' = erase(entries, {i \in DOMAIN entries : entries[i].slot = c.slot})
    /\ captures' = [captures EXCEPT ![r] = NoCapture]
    /\ handed' = {}
    /\ UNCHANGED <<live, next_slot>>

(* The request leaves, in prefill or after: its capture is cancelled.      *)
retire_slot(r) ==
    /\ live[r] # Idle
    /\ live' = [live EXCEPT ![r] = Idle]
    /\ captures' = [captures EXCEPT ![r] = NoCapture]
    /\ handed' = {}
    /\ UNCHANGED <<entries, next_slot, snapshots, displaced>>

(* Graceful shutdown, the loop over and every request retired: the most    *)
(* recently used checkpoints are written, until the time limit after some; *)
(* then the process restarts with an empty cache.                          *)
flush(limit) ==
    /\ Disk /\ entries # <<>> /\ \A r \in Requests : live[r] = Idle
    /\ LET keep == {i \in DOMAIN entries : i > Len(entries) - limit
                                          /\ entries[i].disk_key
                                          /\ persist_on_evict(entries, i)}
       IN handed' = {<<entries[i].ids, snapshots[entries[i].slot]>> :
                       i \in {i \in keep : snapshots[entries[i].slot] # Empty}}
    /\ entries' = <<>> /\ next_slot' = 0
    /\ snapshots' = [s \in Slots |-> Empty] /\ displaced' = [s \in Slots |-> Empty]
    /\ UNCHANGED <<captures, live>>

Init ==
    /\ entries = <<>> /\ next_slot = 0 /\ handed = {}
    /\ captures = [r \in Requests |-> NoCapture] /\ live = [r \in Requests |-> Idle]
    /\ snapshots = [s \in Slots |-> Empty] /\ displaced = [s \in Slots |-> Empty]

Next ==
    \/ \E r \in Requests, q \in Queries : admit(r, q)
    \/ \E r \in Requests : captured_saved(r) \/ captured_failed(r) \/ retire_slot(r)
    \/ \E r \in Requests, wrote \in BOOLEAN : captured_mismatched(r, wrote)
    \/ \E limit \in 0 .. cap : flush(limit)

Spec == Init /\ [][Next]_vars

-----------------------------------------------------------------------------

(* A payload goes by no name but its own.  A checkpoint the index offers   *)
(* holds exactly the prefix it is filed under: the engine compares only    *)
(* lengths when it restores (admit_with_prefix), so a payload replaced     *)
(* behind its entry would be restored into the wrong conversation.  And    *)
(* what the disk writer is handed is what its key names, also when the     *)
(* slot was written again before the eviction was noticed                  *)
(* (take_displaced).                                                       *)
PayloadMatchesKey ==
    /\ \A i \in DOMAIN entries : snapshots[entries[i].slot] = entries[i].ids
    /\ \A h \in handed : h[1] = h[2]

(* Captures in flight keep out of each other's way: no two write one slot  *)
(* or one key, none writes or evicts what another plans to evict, and a    *)
(* slot about to be written holds no committed entry but the victim the    *)
(* capture was promised (reserve_inline_snap, slot_reserved).              *)
CapturesExclusive ==
    \A r \in Held(captures) :
       LET c == captures[r] IN
       /\ \A i \in DOMAIN entries :
             /\ entries[i].slot = c.slot => entries[i].ids = c.victim
             /\ entries[i].ids # c.key
       /\ c.slot \notin Range(c.extra_slots)
       /\ \A o \in Held(captures) \ {r} :
             LET d == captures[o] IN
             /\ c.slot # d.slot /\ c.key # d.key
             /\ ({c.slot} \cup Range(c.extra_slots))
                   \cap ({d.slot} \cup Range(d.extra_slots)) = {}

(* A conversation's checkpoint that a capture evicts is not lost: it goes  *)
(* to the disk, or a deeper checkpoint of the same conversation stays in   *)
(* RAM or goes to the disk in its place.  An edit backup alone may be lost *)
(* behind a deeper checkpoint that is never written, because the request   *)
(* it comes from keeps out of the disk cache (persist_on_evict does not    *)
(* ask).                                                                   *)
EvictedStaysReachable ==
    [][\A i \in DOMAIN entries :
         LET still == {entries'[j].ids : j \in DOMAIN entries'} \cup {h[1] : h \in handed'}
         IN \/ ~entries[i].disk_key
            \/ \E ids \in still : IsPrefix(entries[i].ids, ids)
            \/ /\ entries[i].edit_backup
               /\ \E j \in DOMAIN entries :
                    ~entries[j].disk_key /\ IsStrictPrefix(entries[i].ids, entries[j].ids)
            \/ ~\E r \in Requests : captured_saved(r)]_vars

-----------------------------------------------------------------------------
(* What makes the invariants above inductive.                              *)

(* Without the disk cache no checkpoint has a key for it. *)
Checkpoint == [ids : Seq(Nat), slot : Slots, protect : BOOLEAN, bytes : Nat,
               edit_backup : BOOLEAN, disk_key : {b \in BOOLEAN : b => Disk}]

Capture == [slot : Slots, key : Seq(Nat), protect : BOOLEAN, victim : Seq(Nat), bytes : Nat,
            extra : Seq(Seq(Nat)), extra_slots : Seq(Slots), credited_slots : SUBSET Slots]

(* Every variable has its type; a checkpoint and a capture are of some     *)
(* messages, and of no more bytes than can be counted.                     *)
PrefixTypeOK ==
    /\ entries \in Seq(Checkpoint) /\ next_slot \in Slots
    /\ captures \in [Requests -> Capture \cup {NoCapture}]
    /\ live \in [Requests -> Queries \cup {Idle}]
    /\ snapshots \in [Slots -> Seq(Nat)] /\ displaced \in [Slots -> Seq(Nat)]
    /\ \A i \in DOMAIN entries : entries[i].ids # Empty
    /\ \A r \in Held(captures) :
          captures[r].key # Empty /\ estimate_bytes(Len(captures[r].key)) \in Nat

(* A slot belongs to one checkpoint, and a capture to a live request.      *)
SlotsApart ==
    \A i, j \in DOMAIN entries : entries[i].slot = entries[j].slot => i = j

CapturesLive == \A r \in Held(captures) : live[r] # Idle

PrefixInv ==
    PrefixTypeOK /\ SlotsApart /\ CapturesLive /\ PayloadMatchesKey /\ CapturesExclusive

=============================================================================
