------------------------------- MODULE SlotKv -------------------------------
(***************************************************************************)
(* SlotKv (server/src/common/concurrency/slot_kv.h): what the slot manager *)
(* needs from a KV allocator, in counts.  A sequence owns a number of      *)
(* blocks and sees a number of tokens; which physical blocks those are is  *)
(* the allocator's business.  PagedKvPool is shown to implement this       *)
(* module; SeqSlotManager is written on top of it.                         *)
(*                                                                         *)
(* The allocator's state is one record K, [seqs, free], and a method is an *)
(* operator from K to K, because the manager performs several calls inside *)
(* one of its own operations.  A call that does not succeed changes        *)
(* nothing; whether it succeeds is the operator <method>_ok.               *)
(***************************************************************************)
EXTENDS Integers

CONSTANTS
  NumBlocks,    \* physical_block_count()
  NumSlots,     \* max_sequences()
  BlockSize,    \* block_size()
  MaxU32,       \* largest token count a sequence can hold
  RequestIds

Slots == 0 .. NumSlots - 1
Tokens == 0 .. MaxU32
NoRequest == 0

VARIABLE kv

blocks_for_tokens(n) == IF n = 0 THEN 0 ELSE 1 + (n - 1) \div BlockSize

(* A released sequence; handles name pool slots, and the ones the manager  *)
(* holds are never stale (HandleNamesOwner of PagedKvPool). *)
NoSequence == [request_id |-> NoRequest, kv_seq_len |-> 0, owned |-> 0]

live(K, p) == K.seqs[p].request_id # NoRequest

(* The sequence slot the next acquisition gets: the lowest vacant one. *)
vacant(K, p) == ~ live(K, p) /\ \A r \in 0 .. p - 1 : live(K, r)

owned_block_count(K, p) == K.seqs[p].owned

(* Blocks p lacks to own room for n tokens. *)
shortfall(K, p, n) ==
  IF blocks_for_tokens(n) > owned_block_count(K, p)
  THEN blocks_for_tokens(n) - owned_block_count(K, p) ELSE 0

acquire_reserved_ok(K, id, n) ==
  /\ \A p \in Slots : K.seqs[p].request_id # id
  /\ blocks_for_tokens(n) <= K.free

acquire_reserved(K, p, id, n) ==
  [seqs |-> [K.seqs EXCEPT ![p] = [request_id |-> id, kv_seq_len |-> 0,
                                   owned |-> blocks_for_tokens(n)]],
   free |-> K.free - blocks_for_tokens(n)]

reserve_capacity_ok(K, p, n) == live(K, p) /\ shortfall(K, p, n) <= K.free

reserve_capacity(K, p, n) ==
  [seqs |-> [K.seqs EXCEPT ![p].owned = @ + shortfall(K, p, n)],
   free |-> K.free - shortfall(K, p, n)]

append_ok(K, p, n) ==
  /\ live(K, p)
  /\ K.seqs[p].kv_seq_len + n <= MaxU32
  /\ shortfall(K, p, K.seqs[p].kv_seq_len + n) <= K.free

append(K, p, n) ==
  LET need == shortfall(K, p, K.seqs[p].kv_seq_len + n)
  IN  [seqs |-> [K.seqs EXCEPT ![p].owned = @ + need,
                               ![p].kv_seq_len = @ + n],
       free |-> K.free - need]

rollback_append_ok(K, p, n) == live(K, p) /\ n <= K.seqs[p].kv_seq_len

(* Mutant: one token of the rejected append stays visible. *)
rollback_append_one_short(K, p, n) == [K EXCEPT !.seqs[p].kv_seq_len = @ - n + 1]

rollback_append(K, p, n) == [K EXCEPT !.seqs[p].kv_seq_len = @ - n]

clear(K, p) ==
  [seqs |-> [K.seqs EXCEPT ![p].owned = 0, ![p].kv_seq_len = 0],
   free |-> K.free + K.seqs[p].owned]

release(K, p) ==
  [seqs |-> [K.seqs EXCEPT ![p] = NoSequence],
   free |-> K.free + K.seqs[p].owned]

Fresh == [seqs |-> [p \in Slots |-> NoSequence], free |-> NumBlocks]
-----------------------------------------------------------------------------
(* One caller, any order of calls.  reset() is not on the interface but is *)
(* a method of its only implementation.                                    *)

KvInit == kv = Fresh

KvStep(K, L) ==
  \/ \E p \in Slots :
       \/ /\ vacant(K, p)
          /\ \E id \in RequestIds, n \in Tokens :
               acquire_reserved_ok(K, id, n) /\ L = acquire_reserved(K, p, id, n)
       \/ \E n \in Tokens :
            \/ append_ok(K, p, n) /\ L = append(K, p, n)
            \/ rollback_append_ok(K, p, n) /\ L = rollback_append(K, p, n)
            \/ reserve_capacity_ok(K, p, n) /\ L = reserve_capacity(K, p, n)
       \/ live(K, p) /\ (L = clear(K, p) \/ L = release(K, p))
  \/ L = Fresh

KvNext == \E K \in {kv}, L \in {kv'} : KvStep(K, L)

KvSpec == KvInit /\ [][KvNext]_kv
=============================================================================
