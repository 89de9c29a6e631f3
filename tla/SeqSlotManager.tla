---------------------------- MODULE SeqSlotManager ----------------------------
(***************************************************************************)
(* SeqSlotManager (server/src/common/concurrency/seq_slot_manager.{h,cpp}) *)
(* with the KV offload built on it (paged_kv_offload.cpp) and the engine   *)
(* calls that combine the two (qwen35_seq_engine.cpp: restore_kv, evict_kv,*)
(* retire).  A slot carries one request from admission to retirement; its  *)
(* paged KV may be rolled back, copied to RAM and restored, or dropped and *)
(* recomputed from the token history on the way.                           *)
(*                                                                         *)
(* All calls come from the one scheduler thread, so a call is one action.  *)
(* A call that fails without an effect is a stuttering step.               *)
(*                                                                         *)
(* A token is named by its position in its request's stream: the prompt is *)
(* 1 .. n and the k-th sampled token is n + k.  The program never looks at *)
(* the value of a token here, so a token that is lost, fed twice or fed    *)
(* out of order shows up as a gap or a repetition.                         *)
(***************************************************************************)
EXTENDS SlotKv, Sequences, FiniteSets, Totals

CONSTANTS
  MaxCtx,          \* max_ctx: logical bound of one sequence
  MaxBurst,        \* tokens one decode step may append (chain width)
  OffloadBudget    \* config.decode_kv_offload_bytes, in blocks

ASSUME ManagerDimensions ==
  /\ NumBlocks \in Nat \ {0} /\ NumSlots \in Nat \ {0} /\ BlockSize \in Nat \ {0}
  /\ MaxCtx \in Nat \ {0} /\ MaxU32 \in Nat
  /\ NumBlocks * BlockSize <= MaxU32 /\ MaxCtx <= MaxU32
  /\ MaxBurst \in Nat \ {0} /\ OffloadBudget \in Nat
  /\ NoRequest \notin RequestIds

VARIABLES
  slots,      \* [Slots -> SeqSlot]
  saved,      \* saved_ of PagedKvOffload: the rows copied to RAM
  rows,       \* history: the token whose K/V each logical position holds
  stream,     \* history: prompt tokens plus tokens sampled for the client
  pending     \* the scheduler's pending_tok, or NoToken

managerVars == <<kv, slots, saved, rows, stream, pending>>

NoToken == 0

FreeSlot ==
  [phase |-> "free", handle |-> 0, original_prompt_len |-> 0, prompt_len |-> 0,
   cur_pos |-> 0, sample_history |-> <<>>, staged_tokens |-> <<>>]

active(s) == slots[s].phase # "free"
prefilling(s) == slots[s].phase = "prefill"
decoding(s) == slots[s].phase = "decode"
suspended(s) == slots[s].phase = "suspended"
recomputing(s) == slots[s].phase = "recompute"
parked(s) == suspended(s) \/ recomputing(s)
resident(s) == prefilling(s) \/ decoding(s)

(* Tokens a .. b of a stream. *)
Span(a, b) == [i \in 1 .. (IF a <= b THEN b - a + 1 ELSE 0) |-> a + i - 1]

Least(a, b) == IF a <= b THEN a ELSE b
Greatest(a, b) == IF a >= b THEN a ELSE b
-----------------------------------------------------------------------------
(* Capacity arithmetic.                                                    *)

decode_headroom_capacity(n) == Least(MaxCtx, n + BlockSize)

capacity_fits_pool(n) == blocks_for_tokens(n) <= NumBlocks

(* The prompt, with its next decode page where the pool can hold it. *)
reservation_capacity(n) ==
  IF capacity_fits_pool(decode_headroom_capacity(n))
  THEN decode_headroom_capacity(n) ELSE n

(* Mutant: a resumed slot reserves its next token only. *)
resume_token_capacity_next_token(s) == Least(MaxCtx, slots[s].cur_pos + 1)

resume_token_capacity(s) ==
  IF recomputing(s) THEN reservation_capacity(slots[s].prompt_len)
  ELSE Greatest(slots[s].prompt_len, Least(MaxCtx, slots[s].cur_pos + 1))

(* Reserve capacity[s] tokens for every slot of S, all or nothing: the     *)
(* code first adds up what the cohort lacks and only then reserves. *)
cohort_shortfall(S, capacity) ==
  Total([s \in Slots |-> shortfall(kv, slots[s].handle, capacity[s])], S)

reserve_cohort(S, capacity) ==
  [seqs |-> [p \in Slots |->
     IF \E s \in S : slots[s].handle = p
     THEN LET s == CHOOSE t \in S : slots[t].handle = p
          IN  [kv.seqs[p] EXCEPT !.owned = @ + shortfall(kv, p, capacity[s])]
     ELSE kv.seqs[p]],
   free |-> kv.free - cohort_shortfall(S, capacity)]

(* protect_decode_headroom: the decoders whose next page the pool can hold. *)
Protected ==
  {s \in Slots : /\ decoding(s)
                 /\ capacity_fits_pool(decode_headroom_capacity(slots[s].cur_pos))}

Headroom == [s \in Slots |-> decode_headroom_capacity(slots[s].cur_pos)]

(* Mutant: no margin for the next token of the residents. *)
kv_restore_feasible_without_margin(s) ==
  parked(s) /\ blocks_for_tokens(resume_token_capacity(s)) <= kv.free

kv_restore_feasible(s) ==
  /\ parked(s)
  /\ blocks_for_tokens(resume_token_capacity(s))
       + 1 + Cardinality({t \in Slots : resident(t)}) <= kv.free

(* engine.step() appends, computes and commits in one call; everything else *)
(* the scheduler asks of the engine happens between two steps.  Only the    *)
(* failure of a step lets a slot be retired in the middle of one. *)
StepBoundary ==
  \A s \in Slots :
    /\ slots[s].staged_tokens = <<>>
    /\ prefilling(s) => slots[s].cur_pos < slots[s].prompt_len
-----------------------------------------------------------------------------
Init ==
  /\ kv = Fresh
  /\ slots = [s \in Slots |-> FreeSlot]
  /\ saved = [s \in Slots |-> <<>>]
  /\ rows = [s \in Slots |-> <<>>]
  /\ stream = [s \in Slots |-> 0]
  /\ pending = [s \in Slots |-> NoToken]

(* admit: claim the first free slot for a prompt of n tokens.  The decoders *)
(* already running are topped up first, and stay topped up when the pool   *)
(* then has no room for the prompt. *)
admit(s, n) ==
  LET K == reserve_cohort(Protected, Headroom)
      capacity == reservation_capacity(n)
  IN  /\ StepBoundary
      /\ \A t \in Slots : ~ parked(t)
      /\ n \in 1 .. MaxCtx /\ n <= NumBlocks * BlockSize
      /\ ~ active(s) /\ \A t \in 0 .. s - 1 : active(t)
      /\ cohort_shortfall(Protected, Headroom) <= kv.free
      /\ \/ /\ blocks_for_tokens(capacity) > K.free
            /\ kv' = K
            /\ UNCHANGED <<slots, saved, rows, stream, pending>>
         \/ \E id \in RequestIds, p \in Slots :
              /\ vacant(K, p) /\ acquire_reserved_ok(K, id, capacity)
              /\ kv' = acquire_reserved(K, p, id, capacity)
              /\ slots' = [slots EXCEPT ![s] =
                   [phase |-> "prefill", handle |-> p,
                    original_prompt_len |-> n, prompt_len |-> n, cur_pos |-> 0,
                    sample_history |-> Span(1, n), staged_tokens |-> <<>>]]
              /\ stream' = [stream EXCEPT ![s] = n]
              /\ pending' = [pending EXCEPT ![s] = NoToken]
              /\ UNCHANGED <<saved, rows>>

(* append_prefill, and the prefill chunk the engine computes into the rows: *)
(* it embeds the history from the slot's position on. *)
append_prefill(s, n) ==
  LET q == slots[s]
  IN  /\ prefilling(s)
      /\ n >= 1 /\ n <= q.prompt_len - q.cur_pos
      /\ append_ok(kv, q.handle, n)
      /\ kv' = append(kv, q.handle, n)
      /\ slots' = [slots EXCEPT ![s].cur_pos = @ + n]
      /\ rows' = [rows EXCEPT ![s] =
           @ \o SubSeq(q.sample_history, q.cur_pos + 1, q.cur_pos + n)]
      /\ UNCHANGED <<saved, stream, pending>>

(* A checkpoint of a strict prefix replaces the first prefill chunk. *)
seed_restored_prefix(s, n) ==
  /\ StepBoundary
  /\ slots[s].cur_pos = 0 /\ n < slots[s].prompt_len
  /\ append_prefill(s, n)

(* commit_prefill; the last chunk's logits give the scheduler a token. *)
commit_prefill(s) ==
  /\ prefilling(s) /\ slots[s].cur_pos = slots[s].prompt_len
  /\ slots' = [slots EXCEPT ![s].phase = "decode"]
  /\ stream' = [stream EXCEPT ![s] = @ + 1]
  /\ pending' = [pending EXCEPT ![s] = stream[s] + 1]
  /\ UNCHANGED <<kv, saved, rows>>

(* The step feeds the pending token and, in a speculative round, the draft *)
(* tokens the verifier accepted after it. *)
append_tokens(s, n) ==
  LET q == slots[s]
      fed == Span(pending[s], pending[s] + n - 1)
  IN  /\ decoding(s)
      /\ n >= 1 /\ q.staged_tokens = <<>> /\ n <= MaxCtx - q.cur_pos
      /\ append_ok(kv, q.handle, n)
      /\ kv' = append(kv, q.handle, n)
      /\ slots' = [slots EXCEPT ![s].staged_tokens = fed]
      /\ rows' = [rows EXCEPT ![s] = @ \o fed]
      /\ UNCHANGED <<saved, stream, pending>>

(* commit_step; the accepted drafts and the next sample reach the client. *)
commit_step(s) ==
  LET n == Len(slots[s].staged_tokens)
  IN  /\ active(s) /\ n > 0
      /\ slots' = [slots EXCEPT ![s] =
           [slots[s] EXCEPT !.sample_history = @ \o slots[s].staged_tokens,
                            !.cur_pos = @ + n, !.staged_tokens = <<>>]]
      /\ stream' = [stream EXCEPT ![s] = @ + n]
      /\ pending' = [pending EXCEPT ![s] = stream[s] + n]
      /\ UNCHANGED <<kv, saved, rows>>

rollback_step(s) ==
  LET q == slots[s]
      n == Len(q.staged_tokens)
  IN  /\ active(s) /\ n > 0
      /\ rollback_append_ok(kv, q.handle, n)
      /\ kv' = rollback_append(kv, q.handle, n)
      /\ slots' = [slots EXCEPT ![s].staged_tokens = <<>>]
      /\ rows' = [rows EXCEPT ![s] = SubSeq(@, 1, Len(@) - n)]
      /\ UNCHANGED <<saved, stream, pending>>

reserve_decode(growth) ==
  LET D == {s \in Slots : decoding(s)}
      extent == [s \in Slots |-> slots[s].cur_pos + growth[s]]
  IN  /\ StepBoundary
      /\ \A s \in Slots \ D : growth[s] = 0
      /\ \A s \in D : /\ growth[s] >= 1
                      /\ slots[s].staged_tokens = <<>>
                      /\ growth[s] <= MaxCtx - slots[s].cur_pos
      /\ cohort_shortfall(D, extent) <= kv.free
      /\ kv' = reserve_cohort(D, extent)
      /\ UNCHANGED <<slots, saved, rows, stream, pending>>

(* RAM in use, in blocks; the scheduler passes the rest of its budget on. *)
SavedBlocks(s) == blocks_for_tokens(Len(saved[s]))
used_blocks == Total([s \in Slots |-> SavedBlocks(s)], Slots)

available == OffloadBudget - Least(OffloadBudget, used_blocks)

detach_kv(s) == clear(kv, slots[s].handle)

(* attach_kv: reserve what the slot needs to go on, then make its committed *)
(* positions visible again, before any row is restored. *)
attach_kv_ok(s) ==
  /\ suspended(s)
  /\ reserve_capacity_ok(kv, slots[s].handle, resume_token_capacity(s))
  /\ append_ok(reserve_capacity(kv, slots[s].handle, resume_token_capacity(s)),
               slots[s].handle, slots[s].cur_pos)

attach_kv(s) ==
  append(reserve_capacity(kv, slots[s].handle, resume_token_capacity(s)),
         slots[s].handle, slots[s].cur_pos)

(* suspend copies the sequence's table of blocks, then detach_kv. *)
suspend(s) ==
  LET q == slots[s]
      p == q.handle
  IN  /\ StepBoundary
      /\ resident(s) /\ q.staged_tokens = <<>>
      /\ kv.seqs[p].kv_seq_len = q.cur_pos
      /\ blocks_for_tokens(kv.seqs[p].kv_seq_len) <= available
      /\ saved' = [saved EXCEPT ![s] = rows[s]]
      /\ kv' = detach_kv(s)
      /\ rows' = [rows EXCEPT ![s] = <<>>]
      /\ slots' = [slots EXCEPT ![s].phase = "suspended"]
      /\ UNCHANGED <<stream, pending>>

(* restore = attach_kv, copy the payload into the new blocks, discard. *)
restore(s) ==
  LET q == slots[s]
  IN  /\ StepBoundary
      /\ SavedBlocks(s) = blocks_for_tokens(q.cur_pos)
      /\ attach_kv_ok(s)
      /\ kv' = attach_kv(s)
      /\ rows' = [rows EXCEPT ![s] = saved[s]]
      /\ saved' = [saved EXCEPT ![s] = <<>>]
      /\ slots' = [slots EXCEPT ![s].phase =
                     IF q.cur_pos < q.prompt_len THEN "prefill" ELSE "decode"]
      /\ UNCHANGED <<stream, pending>>

(* Mutant: the pending token is not part of what is replayed. *)
replayed_history_without_pending(s) == slots[s].sample_history

(* What a recompute replays: the history and the token not yet fed. *)
replayed_history(s) ==
  IF pending[s] # NoToken THEN Append(slots[s].sample_history, pending[s])
  ELSE slots[s].sample_history

(* evict_kv = evict_for_recompute with the scheduler's pending token, then *)
(* discard the checkpoint.  (If pushing the token runs out of memory the    *)
(* scheduler retires the slot in the same pass: that outcome is retire.) *)
evict_kv(s) ==
  LET q == slots[s]
      history == replayed_history(s)
  IN  /\ StepBoundary
      /\ active(s) /\ ~ recomputing(s) /\ q.staged_tokens = <<>>
      /\ Len(history) \in 1 .. MaxCtx /\ capacity_fits_pool(Len(history))
      /\ kv' = IF suspended(s) THEN kv ELSE clear(kv, q.handle)
      /\ slots' = [slots EXCEPT ![s] =
           [q EXCEPT !.sample_history = history, !.prompt_len = Len(history),
                     !.cur_pos = 0, !.phase = "recompute"]]
      /\ rows' = [rows EXCEPT ![s] = <<>>]
      /\ saved' = [saved EXCEPT ![s] = <<>>]
      /\ UNCHANGED <<stream, pending>>

(* resume_recompute; the scheduler then forgets the folded pending token. *)
resume_recompute(s) ==
  LET capacity == resume_token_capacity(s)
  IN  /\ StepBoundary
      /\ recomputing(s)
      /\ reserve_capacity_ok(kv, slots[s].handle, capacity)
      /\ kv' = reserve_capacity(kv, slots[s].handle, capacity)
      /\ slots' = [slots EXCEPT ![s].phase = "prefill"]
      /\ pending' = [pending EXCEPT ![s] = NoToken]
      /\ UNCHANGED <<saved, rows, stream>>

(* Mutant: the sequence is emptied but not released. *)
retire_without_release(s) ==
  /\ active(s)
  /\ saved' = [saved EXCEPT ![s] = <<>>]
  /\ kv' = clear(kv, slots[s].handle)
  /\ slots' = [slots EXCEPT ![s] = FreeSlot]
  /\ rows' = [rows EXCEPT ![s] = <<>>]
  /\ stream' = [stream EXCEPT ![s] = 0]
  /\ pending' = [pending EXCEPT ![s] = NoToken]

(* The engine's retire: discard the checkpoint, release the sequence. *)
retire(s) ==
  /\ active(s)
  /\ saved' = [saved EXCEPT ![s] = <<>>]
  /\ kv' = release(kv, slots[s].handle)
  /\ slots' = [slots EXCEPT ![s] = FreeSlot]
  /\ rows' = [rows EXCEPT ![s] = <<>>]
  /\ stream' = [stream EXCEPT ![s] = 0]
  /\ pending' = [pending EXCEPT ![s] = NoToken]

Next ==
  \/ \E s \in Slots, n \in 1 .. MaxCtx :
       admit(s, n) \/ append_prefill(s, n) \/ seed_restored_prefix(s, n)
  \/ \E s \in Slots, n \in 1 .. MaxBurst : append_tokens(s, n)
  \/ \E s \in Slots :
       \/ commit_prefill(s) \/ commit_step(s) \/ rollback_step(s)
       \/ suspend(s) \/ restore(s) \/ evict_kv(s) \/ resume_recompute(s)
       \/ retire(s)
  \/ \E growth \in [Slots -> 0 .. MaxBurst] : reserve_decode(growth)

Spec == Init /\ [][Next]_managerVars
-----------------------------------------------------------------------------
(* Properties.                                                             *)

(* The blocks that are free and the ones the sequences own are all of them. *)
BlocksAddUp ==
  kv.free + Total([p \in Slots |-> kv.seqs[p].owned], Slots) = NumBlocks

ActiveSlots == {s \in Slots : active(s)}

(* No sequence of the pool outlives its request. *)
SequencesHaveSlots ==
  \A p \in Slots : live(kv, p) => \E s \in ActiveSlots : slots[s].handle = p

(* Every block is free or owned by the sequence of an active slot.  The    *)
(* cohort reservations, which add up what several sequences lack and hand  *)
(* it out in a second loop, take from the free list exactly what they give; *)
(* and a retirement, from whatever phase, gives back the blocks and the    *)
(* sequence, so that neither runs out while the manager has free slots. *)
BlocksConserved == BlocksAddUp /\ SequencesHaveSlots

(* The cache of a resident slot holds, position by position, the tokens of *)
(* its history followed by the staged ones, and the pool agrees with the   *)
(* slot on how many; the RAM copy of a suspended slot holds exactly its    *)
(* committed history.  So an attention row never belongs to another token  *)
(* after any sequence of rollbacks, suspensions, evictions and restores. *)
CacheMatchesHistory ==
  \A s \in Slots :
    LET q == slots[s]
    IN  /\ resident(s) =>
             /\ rows[s] = SubSeq(q.sample_history, 1, q.cur_pos) \o q.staged_tokens
             /\ kv.seqs[q.handle].kv_seq_len = q.cur_pos + Len(q.staged_tokens)
        /\ suspended(s) => saved[s] = SubSeq(q.sample_history, 1, q.cur_pos)

(* "Nothing emitted to the client is dropped": a slot's history is its     *)
(* request's stream, in order and without a repetition, up to the token    *)
(* the scheduler still has to feed.  Folding the pending token twice, or   *)
(* not at all, breaks it some steps later. *)
HistoryIsStream ==
  \A s \in Slots : active(s) =>
    LET fed == IF pending[s] = NoToken \/ recomputing(s)
               THEN stream[s] ELSE stream[s] - 1
    IN  /\ slots[s].sample_history = Span(1, fed)
        /\ decoding(s) => pending[s] = stream[s]

(* A prefilling slot owns the blocks of its whole prompt, whatever the     *)
(* other slots did since, also after a suspension or an eviction in the    *)
(* middle of it: append_prefill treats exhaustion as a broken invariant.   *)
(* A parked slot keeps no block of the pool from the others. *)
PrefillCannotStarve ==
  \A s \in Slots :
    LET owned == owned_block_count(kv, slots[s].handle)
    IN  /\ prefilling(s) => blocks_for_tokens(slots[s].prompt_len) <= owned
        /\ parked(s) => owned = 0

(* scheduler.cpp on kv_restore_feasible: "restoring then cannot re-trigger *)
(* eviction on the next step".  After the restore every resident decoder,  *)
(* the resumed slot included, can be given its next token's block at once. *)
FeasibleRestoreDoesNotThrash ==
  \A s \in Slots : kv_restore_feasible(s) =>
    LET grown == {t \in Slots : decoding(t) /\ slots[t].cur_pos < MaxCtx}
        next == [t \in Slots |-> slots[t].cur_pos + 1]
        needed == blocks_for_tokens(resume_token_capacity(s))
    IN  /\ reserve_capacity_ok(kv, slots[s].handle, resume_token_capacity(s))
        /\ cohort_shortfall(grown, next) + 1 <= kv.free - needed

(* What makes the invariants above inductive.  Everything a slot holds is a *)
(* span of its request's stream, and its phase says which one. *)
SeqSlot ==
  [phase : {"free", "prefill", "decode", "suspended", "recompute"}, handle : Slots,
   original_prompt_len : Nat, prompt_len : 0 .. MaxCtx, cur_pos : 0 .. MaxCtx,
   sample_history : Seq(Nat), staged_tokens : Seq(Nat)]

KvSequence ==
  [request_id : RequestIds \cup {NoRequest}, kv_seq_len : Tokens, owned : Nat]

(* Every variable has its type. *)
ManagerTypeOK ==
  /\ kv \in [seqs : [Slots -> KvSequence], free : Nat]
  /\ slots \in [Slots -> SeqSlot]
  /\ saved \in [Slots -> Seq(Nat)] /\ rows \in [Slots -> Seq(Nat)]
  /\ stream \in [Slots -> Nat] /\ pending \in [Slots -> Nat]

(* The sequence of a slot is live and nobody else's; one without a request *)
(* owns nothing. *)
HandlesExclusive ==
  /\ \A s \in Slots : active(s) =>
       /\ live(kv, slots[s].handle)
       /\ \A t \in Slots : active(t) /\ slots[t].handle = slots[s].handle => t = s
  /\ \A p \in Slots : ~ live(kv, p) => kv.seqs[p].owned = 0

(* A prompt that is being fed, and a request past its prompt. *)
MidPrompt(q, st, pd) ==
  pd = NoToken /\ st = q.prompt_len /\ Len(q.sample_history) = q.prompt_len

Generating(q, st, pd) ==
  /\ pd = st /\ st = q.cur_pos + 1
  /\ Len(q.sample_history) = q.cur_pos /\ q.prompt_len <= q.cur_pos

(* A slot q with the sequence e, the rows r, the checkpoint sv, the stream  *)
(* length st and the pending token pd. *)
SlotInStep(q, e, r, sv, st, pd) ==
  LET k == Len(q.staged_tokens)
  IN  /\ q.sample_history = Span(1, Len(q.sample_history))
      /\ q.staged_tokens = Span(st, st + k - 1)
      /\ q.phase # "decode" => k = 0
      /\ q.phase # "free" => st >= 1
      /\ q.phase \notin {"prefill", "decode"} => r = <<>>
      /\ q.phase \in {"prefill", "decode"} =>
           /\ r = Span(1, q.cur_pos + k)
           /\ e.kv_seq_len = q.cur_pos + k /\ q.cur_pos + k <= MaxCtx
           /\ blocks_for_tokens(e.kv_seq_len) <= e.owned
      /\ q.phase \in {"suspended", "recompute"} => e.kv_seq_len = 0 /\ e.owned = 0
      /\ q.phase = "prefill" =>
           /\ MidPrompt(q, st, pd) /\ q.cur_pos <= q.prompt_len
           /\ blocks_for_tokens(q.prompt_len) <= e.owned
      /\ q.phase = "decode" => Generating(q, st, pd)
      /\ q.phase = "suspended" =>
           /\ sv = Span(1, q.cur_pos)
           /\ (MidPrompt(q, st, pd) /\ q.cur_pos < q.prompt_len) \/ Generating(q, st, pd)
      /\ q.phase = "recompute" =>
           /\ q.cur_pos = 0 /\ q.prompt_len = st /\ Len(q.sample_history) = st
           /\ pd \in {NoToken, st}

SlotsInStep ==
  \A s \in Slots : SlotInStep(slots[s], kv.seqs[slots[s].handle], rows[s], saved[s],
                              stream[s], pending[s])

ManagerInv == ManagerTypeOK /\ HandlesExclusive /\ BlocksAddUp /\ SlotsInStep
=============================================================================
