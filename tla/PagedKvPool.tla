----------------------------- MODULE PagedKvPool -----------------------------
(***************************************************************************)
(* PagedKvPool (server/src/common/concurrency/paged_kv_pool.{h,cpp}): the  *)
(* block-table bookkeeping of the paged KV cache.  Sequences grow in       *)
(* blocks of BlockSize tokens drawn from one shared set of physical        *)
(* blocks; the pool stores indices only.                                   *)
(*                                                                         *)
(* Each method of the class is one action here.  The method's effect on    *)
(* one sequence and on the global free list is a separate operator on      *)
(* VALUES (take_reserved_blocks, extend_block_table, ...), because the     *)
(* slot manager performs several pool calls inside one of its own          *)
(* operations.  A call that does not return Ok changes nothing, so it is a *)
(* stuttering step; the status a call returns is an operator as well.      *)
(***************************************************************************)
EXTENDS FreeList

CONSTANTS
  NumBlocks,        \* physical_block_count
  NumSlots,         \* max_sequences
  BlockSize,        \* tokens per physical block
  MaxU32,           \* std::numeric_limits<uint32_t>::max()
  RequestIds,       \* caller-chosen request ids
  GenerationBound   \* model bound: acquires of one slot that are explored

(* The constructor throws std::invalid_argument on any other dimensions. *)
ASSUME PoolDimensions ==
  /\ NumBlocks \in Nat \ {0} /\ NumSlots \in Nat \ {0} /\ BlockSize \in Nat \ {0}
  /\ MaxU32 \in Nat /\ NumBlocks * BlockSize <= MaxU32

(* 0 marks a slot without an owner; the scheduler numbers requests from 1. *)
ASSUME RequestIdsAssumption == RequestIds \subseteq Nat \ {0}

ASSUME GenerationBoundAssumption == GenerationBound \in Nat

Slots == 0 .. NumSlots - 1
Blocks == 0 .. NumBlocks - 1
Tokens == 0 .. MaxU32

NoRequest == 0
NoSlot == -1

VARIABLES
  sequences,            \* [Slots -> SequenceState]
  free_sequence_slots,  \* slots without an owner
  free_blocks,          \* blocks no sequence holds
  request_to_slot,      \* the active slot of a request id, or NoSlot
  issued,               \* history: every handle returned, with its owner
  promised              \* history: tokens a live reservation was granted for

poolVars == <<sequences, free_sequence_slots, free_blocks, request_to_slot,
              issued, promised>>

SequenceState ==
  [request_id      : RequestIds \cup {NoRequest},
   generation      : Nat,
   kv_seq_len      : Tokens,
   active          : BOOLEAN,
   block_table     : Seq(Blocks),
   retry_blocks    : Seq(Blocks),
   reserved_blocks : SUBSET Blocks]

-----------------------------------------------------------------------------
(* Arithmetic and queries.                                                 *)

blocks_for_tokens(n) == IF n = 0 THEN 0 ELSE 1 + (n - 1) \div BlockSize

(* uint32_t addition. *)
AddU32(a, b) == IF a + b <= MaxU32 THEN a + b ELSE a + b - (MaxU32 + 1)

owned_block_count(q) ==
  Len(q.block_table) + Len(q.retry_blocks) + Cardinality(q.reserved_blocks)

(* Mutant: any handle of an active slot is accepted. *)
validate_without_generation(h) == sequences[h.slot].active

validate(h) ==
  sequences[h.slot].active /\ sequences[h.slot].generation = h.generation

(* The blocks a sequence holds, visible in its table or not. *)
Held(q) == Range(q.block_table) \cup Range(q.retry_blocks) \cup q.reserved_blocks

(* Mutant: the block index is not scaled to rows. *)
PhysicalRow_unscaled(q, pos) ==
  q.block_table[(pos \div BlockSize) + 1] + (pos % BlockSize)

(* make_slot: the row of the pooled K/V buffer for a logical position. *)
PhysicalRow(q, pos) ==
  q.block_table[(pos \div BlockSize) + 1] * BlockSize + (pos % BlockSize)
-----------------------------------------------------------------------------
(* Effects of the methods on one sequence q and the global free list.      *)

(* give_back(reserved, take_lowest(free)), n times. *)
take_reserved_blocks(q, free, n) ==
  [seq  |-> [q EXCEPT !.reserved_blocks = @ \cup Lowest(free, n)],
   free |-> free \ Lowest(free, n)]

(* Mutant: the global list is used before the private reservation. *)
GrowthOrder_free_first(q, free) ==
  Reverse(q.retry_blocks) \o (Ascending(free) \o Ascending(q.reserved_blocks))

(* The blocks successive growth of q takes: its rolled-back blocks from the *)
(* top of the stack, then its private reservation, then the global list.   *)
GrowthOrder(q, free) ==
  Reverse(q.retry_blocks) \o (Ascending(q.reserved_blocks) \o Ascending(free))

extend_block_table(q, free, required) ==
  LET additional == required - Len(q.block_table)
      taken == SubSeq(GrowthOrder(q, free), 1, additional)
  IN  IF additional <= 0 THEN [seq |-> q, free |-> free]
      ELSE [seq |-> [q EXCEPT
                       !.block_table = @ \o taken,
                       !.retry_blocks = SubSeq(@, 1, Len(@) - additional),
                       !.reserved_blocks = @ \ Range(taken)],
            free |-> free \ Range(taken)]

reserve_status(q, free, capacity) ==
  IF blocks_for_tokens(capacity) <= owned_block_count(q) + Cardinality(free)
  THEN "Ok" ELSE "BlocksExhausted"

(* Mutant: a partial last block is not counted. *)
reserve_rounded_down(q, free, capacity) ==
  LET owned == owned_block_count(q)
      target == capacity \div BlockSize
  IN  IF target <= owned THEN [seq |-> q, free |-> free]
      ELSE take_reserved_blocks(q, free, target - owned)

reserve(q, free, capacity) ==
  LET owned == owned_block_count(q)
      target == blocks_for_tokens(capacity)
  IN  IF target <= owned THEN [seq |-> q, free |-> free]
      ELSE take_reserved_blocks(q, free, target - owned)

append_status(q, free, n) ==
  IF n = 0 THEN "Ok"
  ELSE IF n > MaxU32 - q.kv_seq_len THEN "InvalidArgument"
  ELSE IF blocks_for_tokens(AddU32(q.kv_seq_len, n))
            > owned_block_count(q) + Cardinality(free)
  THEN "BlocksExhausted" ELSE "Ok"

appended(q, free, n) ==
  LET len == AddU32(q.kv_seq_len, n)
      grown == extend_block_table(q, free, blocks_for_tokens(len))
  IN  [grown EXCEPT !.seq.kv_seq_len = len]

(* Mutant: the cut blocks are pushed in table order. *)
rolled_back_in_table_order(q, n) ==
  LET len == q.kv_seq_len - n
      keep == blocks_for_tokens(len)
  IN  [q EXCEPT !.kv_seq_len = len,
                !.block_table = SubSeq(@, 1, keep),
                !.retry_blocks = @ \o SubSeq(q.block_table, keep + 1, Len(q.block_table))]

(* Blocks leave the table from its end and are pushed one by one. *)
rolled_back(q, n) ==
  LET len == q.kv_seq_len - n
      keep == blocks_for_tokens(len)
      cut == SubSeq(q.block_table, keep + 1, Len(q.block_table))
  IN  [q EXCEPT !.kv_seq_len = len,
                !.block_table = SubSeq(@, 1, keep),
                !.retry_blocks = @ \o Reverse(cut)]

(* Mutant: rolled-back blocks are dropped instead of given back. *)
cleared_without_retry(q, free) ==
  [seq |-> [q EXCEPT !.kv_seq_len = 0, !.block_table = <<>>,
                     !.retry_blocks = <<>>, !.reserved_blocks = {}],
   free |-> free \cup Range(q.block_table) \cup q.reserved_blocks]

cleared(q, free) ==
  [seq |-> [q EXCEPT !.kv_seq_len = 0, !.block_table = <<>>,
                     !.retry_blocks = <<>>, !.reserved_blocks = {}],
   free |-> free \cup Held(q)]

-----------------------------------------------------------------------------
(* The methods.                                                            *)

Init ==
  /\ sequences = [s \in Slots |->
       [request_id |-> NoRequest, generation |-> 0, kv_seq_len |-> 0,
        active |-> FALSE, block_table |-> <<>>, retry_blocks |-> <<>>,
        reserved_blocks |-> {}]]
  /\ free_sequence_slots = refill(NumSlots)
  /\ free_blocks = refill(NumBlocks)
  /\ request_to_slot = [id \in RequestIds |-> NoSlot]
  /\ issued = {}
  /\ promised = [s \in Slots |-> 0]

(* acquire(id) is acquire_reserved(id, 0).  The 64-bit generation counter   *)
(* does not wrap within GenerationBound acquires of one slot.              *)
acquire_reserved(id, capacity) ==
  /\ request_to_slot[id] = NoSlot
  /\ blocks_for_tokens(capacity) <= Cardinality(free_blocks)
  /\ \E s \in Lowest(free_sequence_slots, 1) :
       LET g == sequences[s].generation + 1
           installed == [sequences[s] EXCEPT !.request_id = id,
                                             !.generation = g,
                                             !.active = TRUE]
           got == take_reserved_blocks(installed, free_blocks,
                                       blocks_for_tokens(capacity))
       IN  /\ g <= GenerationBound
           /\ free_sequence_slots' = free_sequence_slots \ {s}
           /\ sequences' = [sequences EXCEPT ![s] = got.seq]
           /\ free_blocks' = got.free
           /\ request_to_slot' = [request_to_slot EXCEPT ![id] = s]
           /\ issued' = issued \cup {[slot |-> s, generation |-> g, owner |-> id]}
           /\ promised' = [promised EXCEPT ![s] = capacity]

reserve_capacity(h, capacity) ==
  LET q == sequences[h.slot]
      got == reserve(q, free_blocks, capacity)
  IN  /\ validate(h)
      /\ reserve_status(q, free_blocks, capacity) = "Ok"
      /\ sequences' = [sequences EXCEPT ![h.slot] = got.seq]
      /\ free_blocks' = got.free
      /\ promised' = [promised EXCEPT
                        ![h.slot] = IF capacity > @ THEN capacity ELSE @]
      /\ UNCHANGED <<free_sequence_slots, request_to_slot, issued>>

append(h, n) ==
  LET q == sequences[h.slot]
      got == appended(q, free_blocks, n)
  IN  /\ validate(h)
      /\ n > 0
      /\ append_status(q, free_blocks, n) = "Ok"
      /\ sequences' = [sequences EXCEPT ![h.slot] = got.seq]
      /\ free_blocks' = got.free
      /\ UNCHANGED <<free_sequence_slots, request_to_slot, issued, promised>>

rollback_append(h, n) ==
  LET q == sequences[h.slot]
  IN  /\ validate(h)
      /\ n <= q.kv_seq_len
      /\ sequences' = [sequences EXCEPT ![h.slot] = rolled_back(q, n)]
      /\ UNCHANGED <<free_sequence_slots, free_blocks, request_to_slot,
                     issued, promised>>

clear(h) ==
  LET got == cleared(sequences[h.slot], free_blocks)
  IN  /\ validate(h)
      /\ sequences' = [sequences EXCEPT ![h.slot] = got.seq]
      /\ free_blocks' = got.free
      /\ promised' = [promised EXCEPT ![h.slot] = 0]
      /\ UNCHANGED <<free_sequence_slots, request_to_slot, issued>>

(* clear, then the identity and the slot go back. *)
release(h) ==
  LET q == sequences[h.slot]
      got == cleared(q, free_blocks)
  IN  /\ validate(h)
      /\ sequences' = [sequences EXCEPT
           ![h.slot] = [got.seq EXCEPT !.request_id = NoRequest, !.active = FALSE]]
      /\ free_blocks' = got.free
      /\ request_to_slot' = [request_to_slot EXCEPT ![q.request_id] = NoSlot]
      /\ free_sequence_slots' = free_sequence_slots \cup {h.slot}
      /\ promised' = [promised EXCEPT ![h.slot] = 0]
      /\ UNCHANGED issued

(* Generations survive, so every outstanding handle becomes stale. *)
reset ==
  /\ sequences' = [s \in Slots |->
       [sequences[s] EXCEPT !.request_id = NoRequest, !.kv_seq_len = 0,
          !.active = FALSE, !.block_table = <<>>, !.retry_blocks = <<>>,
          !.reserved_blocks = {}]]
  /\ free_sequence_slots' = refill(NumSlots)
  /\ free_blocks' = refill(NumBlocks)
  /\ request_to_slot' = [id \in RequestIds |-> NoSlot]
  /\ promised' = [s \in Slots |-> 0]
  /\ UNCHANGED issued

(* A caller may present any handle it was ever given, stale ones included. *)
Next ==
  \/ \E id \in RequestIds, n \in Tokens : acquire_reserved(id, n)
  \/ \E h \in issued, n \in Tokens :
       \/ reserve_capacity(h, n)
       \/ append(h, n)
       \/ rollback_append(h, n)
  \/ \E h \in issued : clear(h) \/ release(h)
  \/ reset

Spec == Init /\ [][Next]_poolVars
-----------------------------------------------------------------------------
(* Properties.                                                             *)

(* Every variable has its type: indices stay inside the pool, lengths      *)
(* inside uint32_t. *)
TypeOK ==
  /\ sequences \in [Slots -> SequenceState]
  /\ free_sequence_slots \subseteq Slots
  /\ free_blocks \subseteq Blocks
  /\ request_to_slot \in [RequestIds -> Slots \cup {NoSlot}]
  /\ issued \subseteq [slot : Slots, generation : Nat, owner : RequestIds]
  /\ promised \in [Slots -> Tokens]

(* One sequence holds each of its blocks once: the table, the rollback     *)
(* stack and the reservation never name the same physical block. *)
HeldOnce(q) ==
  /\ IsInjective(q.block_table)
  /\ IsInjective(q.retry_blocks)
  /\ Range(q.block_table) \cap Range(q.retry_blocks) = {}
  /\ Range(q.block_table) \cap q.reserved_blocks = {}
  /\ Range(q.retry_blocks) \cap q.reserved_blocks = {}

(* Across every order of acquire, reserve, append, rollback, clear, release *)
(* and reset, a physical block is free or held exactly once by exactly one *)
(* sequence, and none is ever lost: a double free or a leak in any of those *)
(* methods breaks it. *)
BlocksPartitioned ==
  /\ \A s \in Slots : HeldOnce(sequences[s])
  /\ \A s \in Slots : Held(sequences[s]) \cap free_blocks = {}
  /\ \A s, t \in Slots : s # t => Held(sequences[s]) \cap Held(sequences[t]) = {}
  /\ Blocks = free_blocks \cup UNION {Held(sequences[s]) : s \in Slots}

(* The table of a sequence has exactly the blocks its length needs. *)
TableFits(q) == Len(q.block_table) = blocks_for_tokens(q.kv_seq_len)

(* The rows append hands out never alias: two live (sequence, position)    *)
(* pairs map to two different rows of the pooled K/V buffer, so no sequence *)
(* can overwrite another's cache, nor its own.  And no block of a table is  *)
(* without a position: a length never falls behind the rows handed out, as *)
(* it would if the uint32_t sum of an append wrapped to a short one. *)
RowsNeverAlias ==
  /\ \A s \in Slots : TableFits(sequences[s])
  /\ \A s, t \in Slots :
       \A i \in 0 .. sequences[s].kv_seq_len - 1,
          j \in 0 .. sequences[t].kv_seq_len - 1 :
         PhysicalRow(sequences[s], i) = PhysicalRow(sequences[t], j)
           => s = t /\ i = j

(* The header's contract of acquire_reserved: "once it succeeds, another   *)
(* sequence cannot strand this prompt halfway through".  Whatever the other *)
(* sequences do, and however often this one appends and rolls back, it owns *)
(* the blocks of every token it was promised. *)
ReservationKept ==
  \A s \in Slots :
    blocks_for_tokens(promised[s]) <= owned_block_count(sequences[s])

(* A handle that still validates names the request it was issued to: one   *)
(* kept past release() or reset() is rejected even after its slot has been *)
(* acquired again. *)
HandleNamesOwner ==
  \A h \in issued : validate(h) => sequences[h.slot].request_id = h.owner

(* The two indexes agree with the sequence states: a request id resolves to *)
(* the one active slot that carries it, and the free slots are the inactive *)
(* ones.  An entry left behind by release() would reject a later request    *)
(* as a duplicate for ever. *)
IndexesAgree ==
  /\ \A id \in RequestIds, s \in Slots :
       request_to_slot[id] = s
         <=> sequences[s].active /\ sequences[s].request_id = id
  /\ free_sequence_slots = {s \in Slots : ~ sequences[s].active}

(* The strengthening that makes the invariants above inductive: no handle   *)
(* is ahead of its slot's generation. *)
IssuedInPast == \A h \in issued : h.generation <= sequences[h.slot].generation

PoolInv ==
  /\ TypeOK
  /\ BlocksPartitioned
  /\ \A s \in Slots : TableFits(sequences[s])
  /\ ReservationKept
  /\ IndexesAgree
  /\ IssuedInPast
  /\ HandleNamesOwner

(* What the refinement below rests on besides PoolInv: a slot is owned      *)
(* exactly while it carries a request, and one without an owner holds       *)
(* nothing a later owner could inherit. *)
VacantSlotsBlank ==
  \A s \in Slots :
    /\ sequences[s].active <=> sequences[s].request_id # NoRequest
    /\ ~ sequences[s].active =>
         Held(sequences[s]) = {} /\ sequences[s].kv_seq_len = 0

(* rollback_append's contract: "the same append receives the same physical *)
(* rows on retry".  The blocks a sequence has ever been given, visible or  *)
(* rolled back, keep their logical order until the sequence gives all of   *)
(* them up. *)
Layout(q) == q.block_table \o Reverse(q.retry_blocks)

RetryReproducesRows ==
  [][\A s \in Slots :
       \/ IsPrefix(Layout(sequences[s]), Layout(sequences'[s]))
       \/ Held(sequences'[s]) = {}]_poolVars

(* The pool implements the allocator interface the slot manager is written *)
(* against: seen as counts of owned and of free blocks, every method does  *)
(* exactly what SlotKv says.  In particular growth takes from the free     *)
(* list only what the sequence does not already own, visible or not, which *)
(* is what every preflight of the manager relies on. *)
CountsView ==
  [seqs |-> [s \in Slots |->
               [request_id |-> sequences[s].request_id,
                kv_seq_len |-> sequences[s].kv_seq_len,
                owned |-> owned_block_count(sequences[s])]],
   free |-> Cardinality(free_blocks)]

SlotKvView == INSTANCE SlotKv WITH kv <- CountsView

ImplementsSlotKv == SlotKvView!KvSpec
=============================================================================
