------------------------------- MODULE StepLoop -------------------------------
(***************************************************************************)
(* One pass of the scheduler over the requests it has admitted             *)
(* (server/src/server/scheduler.cpp): resume the oldest parked request,    *)
(* reserve the next decode step, parking or failing requests until the     *)
(* rest of the cohort fits, step the engine, and retire what is finished.  *)
(* The engine below is SeqSlotManager, unchanged: an action of the loop is *)
(* a call of it plus the scheduler's choice of the slot.                   *)
(*                                                                         *)
(* `admission_order' counts the admitted requests that are older; the code *)
(* takes it from a counter that never goes back.                           *)
(***************************************************************************)
EXTENDS SeqSlotManager

CONSTANTS
  Prompts,         \* prompt lengths of requests
  Caps,            \* n_gen_cap of requests
  Chunk,           \* max_prefill_tokens_per_sequence
  ImagePrompts,    \* prompt lengths that may stand for a prompt with images
  Recovery         \* decode_kv_offload_bytes is not 0: requests may be parked

ASSUME LoopAssumption ==
  /\ Prompts \subseteq Nat \ {0} /\ Caps \subseteq Nat \ {0} /\ Chunk \in Nat \ {0}
  /\ ImagePrompts \subseteq Prompts
  /\ Recovery \in BOOLEAN /\ (OffloadBudget > 0 => Recovery)

VARIABLES
  pc,              \* "admit", "resume", "reserve", "step"
  admission_order, \* [Slots -> how many active slots are older]
  n_gen_cap,       \* [Slots -> tokens the request may generate]
  slot_has_images, \* [Slots -> its rows hold images: tokens do not rebuild them]
  width,           \* tokens per decoder the pass has reserved
  todo             \* slots the step has still to advance

requestVars == <<admission_order, n_gen_cap, slot_has_images>>
loopVars == <<pc, requestVars, width, todo>>
vars == <<managerVars, loopVars>>

LoopInit ==
  /\ Init
  /\ pc = "admit" /\ width = 0 /\ todo = {}
  /\ admission_order = [s \in Slots |-> 0]
  /\ n_gen_cap = [s \in Slots |-> 0]
  /\ slot_has_images = [s \in Slots |-> FALSE]

Generated(s) == stream[s] - slots[s].original_prompt_len
Older(s, t) == admission_order[s] < admission_order[t]
Newest(S) == CHOOSE s \in S : \A t \in S \ {s} : Older(t, s)
Oldest(S) == CHOOSE s \in S : \A t \in S \ {s} : Older(s, t)
Residents == {s \in Slots : resident(s)}
Parked == {s \in Slots : parked(s)}
Decoders == {s \in Slots : decoding(s)}

RetireSlot(s) ==
  /\ retire(s)
  /\ admission_order' = [t \in Slots |-> IF t = s THEN 0
                                        ELSE IF Older(s, t) THEN admission_order[t] - 1
                                        ELSE admission_order[t]]
  /\ slot_has_images' = [slot_has_images EXCEPT ![s] = FALSE]

------------------------------------------------------------------------------
(* Admission; a refused one may have topped the decoders up.  The cap is   *)
(* what the context leaves. *)

AdmitJob(s, n, cap, images) ==
  /\ pc = "admit"
  /\ images => n \in ImagePrompts
  /\ admit(s, n)
  /\ IF slots'[s].phase = "prefill"
     THEN /\ admission_order' =
               [admission_order EXCEPT ![s] = Cardinality({t \in Slots : active(t)})]
          /\ n_gen_cap' = [n_gen_cap EXCEPT ![s] = Least(cap, MaxCtx - n + 1)]
          /\ slot_has_images' = [slot_has_images EXCEPT ![s] = images]
     ELSE UNCHANGED requestVars
  /\ UNCHANGED <<pc, width, todo>>

(* Cancellations are retired before a model step is spent on them. *)
Cancel(s) ==
  /\ pc = "admit" /\ RetireSlot(s)
  /\ UNCHANGED <<pc, n_gen_cap, width, todo>>

BeginPass ==
  /\ pc = "admit" /\ (\E s \in Slots : active(s)) /\ pc' = "resume"
  /\ UNCHANGED <<managerVars, requestVars, width, todo>>

------------------------------------------------------------------------------
(* Resume at most one parked request, the oldest: when no resident is left *)
(* or when the engine reports headroom. *)

MayResume_only_checkpoints ==
  /\ Recovery /\ Parked # {} /\ suspended(Oldest(Parked))
  /\ Residents = {} \/ kv_restore_feasible(Oldest(Parked))

MayResume ==
  /\ Recovery /\ Parked # {}
  /\ (Residents = {} \/ kv_restore_feasible(Oldest(Parked)))

RestoreFits(s) ==
  reserve_capacity_ok(kv, slots[s].handle, resume_token_capacity(s))

NoResume ==
  /\ pc = "resume" /\ ~ MayResume
  /\ pc' = "reserve"
  /\ UNCHANGED <<managerVars, requestVars, width, todo>>

(* Recompute replays token ids; image rows would come back as text. *)
kv_recomputable(s) == ~ slot_has_images[s]

(* evict_for_recompute accepts a history the pool can hold. *)
CanReplay(s) ==
  LET n == Len(replayed_history(s)) IN n \in 1 .. MaxCtx /\ capacity_fits_pool(n)
CanEvict(s) == kv_recomputable(s) /\ CanReplay(s)

EvictElseFail(s, evicted) ==
  IF evicted THEN evict_kv(s) /\ UNCHANGED <<admission_order, slot_has_images>> ELSE RetireSlot(s)

(* A copy that fails drops the payload and parks the request for recompute *)
(* or, when its history cannot rebuild the rows, fails it.  A request that does *)
(* not fit waits, unless nobody is left who could make room. *)
Resume ==
  /\ pc = "resume" /\ MayResume /\ pc' = "reserve"
  /\ LET s == Oldest(Parked)
     IN  IF RestoreFits(s)
         THEN \/ (restore(s) \/ resume_recompute(s)) /\ UNCHANGED <<admission_order, slot_has_images>>
              \/ suspended(s) /\ EvictElseFail(s, CanEvict(s))
         ELSE IF Residents = {} THEN RetireSlot(s)
              ELSE UNCHANGED <<managerVars, admission_order, slot_has_images>>
  /\ UNCHANGED <<n_gen_cap, width, todo>>

------------------------------------------------------------------------------
(* The reserve loop.  First the widest burst, then one token each. *)

Growth(n) == [s \in Slots |-> IF decoding(s) THEN n ELSE 0]
ReserveFits(n) ==
  /\ \A s \in Decoders : n <= MaxCtx - slots[s].cur_pos
  /\ cohort_shortfall(Decoders, [s \in Slots |-> slots[s].cur_pos + n]) <= kv.free

ReserveWidth == IF ReserveFits(MaxBurst) THEN MaxBurst ELSE 1

(* The prompts one step advances: the oldest that prefills. *)
Prefilling == {s \in Slots : prefilling(s)}
Selected == IF Prefilling = {} THEN {} ELSE {Oldest(Prefilling)}

Reserve_one_token ==
  /\ pc = "reserve" /\ ReserveFits(1)
  /\ reserve_decode(Growth(1))
  /\ width' = MaxBurst
  /\ todo' = Decoders \cup Selected
  /\ pc' = "step"
  /\ UNCHANGED requestVars

Reserve ==
  /\ pc = "reserve" /\ ReserveFits(ReserveWidth)
  /\ reserve_decode(Growth(ReserveWidth))
  /\ width' = ReserveWidth
  /\ todo' = Decoders \cup Selected
  /\ pc' = "step"
  /\ UNCHANGED requestVars

CanSuspend(s) ==
  /\ kv.seqs[slots[s].handle].kv_seq_len = slots[s].cur_pos
  /\ blocks_for_tokens(slots[s].cur_pos) <= available

Suspendable ==
  IF Recovery /\ Cardinality(Residents) > 1 THEN {s \in Residents : CanSuspend(s)} ELSE {}

(* Save the newest resident whose checkpoint fits the RAM budget.  The     *)
(* engine refuses one that still stages its prompt outside the pool: it    *)
(* has no rows to save yet.                                                *)
Suspend ==
  /\ pc = "reserve" /\ ~ ReserveFits(ReserveWidth)
  /\ \E staging \in SUBSET Prefilling :
       /\ Suspendable \ staging # {}
       /\ suspend(Newest(Suspendable \ staging))
  /\ UNCHANGED loopVars

(* Else park for recompute the newest decoder whose rows its tokens        *)
(* rebuild, or fail it; if there is none, the newest decoder is failed.    *)
Victim_newest == Newest(Decoders)

Victim ==
  LET candidates == {s \in Decoders : kv_recomputable(s)}
  IN  Newest(IF candidates # {} THEN candidates ELSE Decoders)

EvictOrFail ==
  /\ pc = "reserve" /\ ~ ReserveFits(ReserveWidth)
  /\ Suspendable \subseteq Prefilling
  /\ EvictElseFail(Victim, Recovery /\ CanEvict(Victim))
  /\ UNCHANGED <<pc, n_gen_cap, width, todo>>

------------------------------------------------------------------------------
(* engine.step over the plan.  A decoder appends and commits between one   *)
(* token and the width reserved; a prompt slice is one chunk. *)

StepDecode(s) ==
  /\ pc = "step" /\ s \in todo /\ decoding(s) /\ slots[s].staged_tokens = <<>>
  /\ \E n \in 1 .. width : append_tokens(s, n)
  /\ UNCHANGED loopVars

CommitDecode(s) ==
  /\ pc = "step" /\ s \in todo /\ decoding(s)
  /\ commit_step(s)
  /\ todo' = todo \ {s}
  /\ UNCHANGED <<pc, requestVars, width>>

StepPrefill(s) ==
  /\ pc = "step" /\ s \in todo /\ prefilling(s) /\ slots[s].cur_pos < slots[s].prompt_len
  /\ append_prefill(s, Least(Chunk, slots[s].prompt_len - slots[s].cur_pos))
  /\ todo' = IF slots'[s].cur_pos < slots'[s].prompt_len THEN todo \ {s} ELSE todo
  /\ UNCHANGED <<pc, requestVars, width>>

CompletePrefill(s) ==
  /\ pc = "step" /\ s \in todo
  /\ commit_prefill(s)
  /\ todo' = todo \ {s}
  /\ UNCHANGED <<pc, requestVars, width>>

(* A request that reached its cap, or whose model ended the text, retires. *)
Reap(s) ==
  /\ pc = "step" /\ todo = {}
  /\ decoding(s) /\ RetireSlot(s)
  /\ UNCHANGED <<pc, n_gen_cap, width, todo>>

EndPass ==
  /\ pc = "step" /\ todo = {}
  /\ \A s \in Decoders : Generated(s) < n_gen_cap[s]
  /\ pc' = "admit" /\ width' = 0
  /\ UNCHANGED <<managerVars, requestVars, todo>>

StepAll == \E s \in Slots : StepDecode(s) \/ CommitDecode(s) \/ StepPrefill(s) \/ CompletePrefill(s)

Pass ==
  \/ BeginPass \/ NoResume \/ Resume \/ Reserve \/ Suspend \/ EvictOrFail
  \/ StepAll \/ EndPass \/ \E s \in Slots : Generated(s) >= n_gen_cap[s] /\ Reap(s)

LoopNext ==
  \/ Pass
  \/ \E s \in Slots : Cancel(s) \/ Reap(s)
  \/ \E s \in Slots, n \in Prompts, cap \in Caps, images \in BOOLEAN :
       AdmitJob(s, n, cap, images)

LoopSpec == LoopInit /\ [][LoopNext]_vars

(* The scheduler thread goes on; nobody has to arrive, leave or stop early. *)
LoopFairSpec == LoopSpec /\ WF_vars(Pass)

------------------------------------------------------------------------------

(* Once the reserve loop is through, the step never runs out of blocks:    *)
(* every decoder can append what was reserved for it and every prompt      *)
(* chunk its tokens, whatever was restored, admitted or topped up before. *)
StepHasRoom ==
  pc = "step" =>
    \A s \in todo :
      append_ok(kv, slots[s].handle,
        IF prefilling(s) THEN Least(Chunk, slots[s].prompt_len - slots[s].cur_pos)
        ELSE IF slots[s].staged_tokens = <<>> THEN width ELSE 0)

(* The reserve loop and the resume fail a request only when nothing else   *)
(* is left: it cannot go on in an otherwise empty pool (the comment        *)
(* `cannot fit even alone'), or parking is disabled (`fail only that       *)
(* request'), or its rows hold images, which tokens do not rebuild, and    *)
(* its checkpoint is lost or fits no budget while no other decoder could   *)
(* have been parked instead.  A request of text that fits alone never      *)
(* fails because of the others. *)
CannotFitAlone(s) ==
  \/ blocks_for_tokens(slots[s].cur_pos + 1) > NumBlocks
  \/ blocks_for_tokens(Len(replayed_history(s))) > NumBlocks

OnlyItsCheckpointHeld(s) ==
  /\ slot_has_images[s]
  /\ \/ pc = "resume" /\ suspended(s)
     \/ /\ pc = "reserve"
        /\ \A t \in Decoders : slot_has_images[t] /\ t \notin Suspendable

FailsOnlyAsLastResort ==
  [][\A s \in Slots :
       pc \in {"resume", "reserve"} /\ active(s) /\ ~ active(s)' =>
         \/ CannotFitAlone(s)
         \/ OnlyItsCheckpointHeld(s)
         \/ ~ Recovery /\ pc = "reserve"]_vars

(* The pressure always resolves and every admitted request ends: parking,  *)
(* resuming and recomputing never go round for ever without a request      *)
(* getting on. *)
RequestsEnd == \A s \in Slots : active(s) ~> ~ active(s)
-----------------------------------------------------------------------------
(* What makes the safety properties inductive, besides ManagerInv. *)
(* Every variable of the loop has its type. *)
LoopTypeOK ==
  /\ pc \in {"admit", "resume", "reserve", "step"}
  /\ admission_order \in [Slots -> Nat] /\ n_gen_cap \in [Slots -> Nat]
  /\ slot_has_images \in [Slots -> BOOLEAN]
  /\ width \in 0 .. MaxBurst /\ todo \in SUBSET Slots

(* Two requests are never of the same age. *)
OrderExact ==
  \A s \in ActiveSlots :
    /\ admission_order[s] < Cardinality(ActiveSlots)
    /\ \A t \in ActiveSlots : admission_order[s] = admission_order[t] => s = t

(* Between two steps a request has less than its cap, and so less than the *)
(* context; nothing is staged outside the slot's turn in a step. *)
WithinCaps ==
  \A s \in ActiveSlots :
    /\ n_gen_cap[s] + slots[s].original_prompt_len <= MaxCtx + 1
    /\ pc # "step" \/ ~ decoding(s) => Generated(s) < n_gen_cap[s]
    /\ pc # "step" \/ s \notin todo => slots[s].staged_tokens = <<>>

(* What the step will append is owned already. *)
RoomReserved ==
  pc = "step" =>
    \A s \in todo :
      /\ resident(s)
      /\ decoding(s) /\ slots[s].staged_tokens = <<>> =>
           /\ slots[s].cur_pos + width <= MaxCtx
           /\ blocks_for_tokens(slots[s].cur_pos + width)
                <= owned_block_count(kv, slots[s].handle)

LoopInv ==
  /\ ManagerInv /\ LoopTypeOK /\ OrderExact /\ SequencesHaveSlots
  /\ WithinCaps /\ RoomReserved
=============================================================================
