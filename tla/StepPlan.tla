------------------------------- MODULE StepPlan -------------------------------
(***************************************************************************)
(* What the scheduler puts into a step and what it believes of the answer: *)
(* build_plan and the step around it (server/src/server/scheduler.cpp),    *)
(* plan_prefill_slices and validate_step_result                            *)
(* (server/src/common/concurrency/seq_engine.h).  Short prompts go before  *)
(* long ones, but not for ever; decoding requests get turns without        *)
(* prompts; the step's token budget is dealt out in quanta; an answer that *)
(* does not match the plan ends every live request.                        *)
(*                                                                         *)
(* Token values do not matter here.  `lag' is the scheduler's stream minus *)
(* what the engine has fed: exactly the pending token, at every plan.      *)
(***************************************************************************)
EXTENDS Integers, FiniteSetsExt, SequencesExt, FreeList

CONSTANTS
  NumSlots,
  Limits,          \* [0..NumSlots -> step_plan_limits at that decode width]
  TimeShare,       \* 0 < prefill_time_share < 1
  Lengths,         \* prompt lengths of arriving requests
  Endless,         \* INT_MAX: the prompt_left of a recomputed request
  Faulty           \* the engine may answer what the plan did not ask

Slots == 0..(NumSlots - 1)
kShortFirstSteps == 4

(* The round-robin cursor only matters modulo the number of slices. *)
RoundRobinPeriod == FoldSet(LAMBDA a, b : a * b, 1, 1..NumSlots)

ASSUME PlanAssumption ==
  /\ NumSlots \in Nat \ {0}
  /\ Lengths \subseteq Nat \ {0} /\ \A n \in Lengths : n < Endless
  /\ Limits \in [0..NumSlots -> [sequences : Nat, per_sequence : Nat, total : Nat,
                                 quantum : Nat, long : Nat]]

VARIABLES
  age,             \* slots with a job, by admission_order
  rows,            \* [Slots -> phase, prompt_left, prompt_new, need, lag]
  round_robin,     \* prefill_round_robin_start
  short_first_steps,
  decoders_turn,   \* now < decode_only_until
  skipped          \* prompt steps in a row without the oldest prompt (model only,
                   \* no further than one past kShortFirstSteps)

planVars == <<age, rows, round_robin, short_first_steps, decoders_turn, skipped>>
counters == <<round_robin, short_first_steps, decoders_turn>>

(* `need' is what the engine has still to prefill; prompt_left is what the *)
(* scheduler thinks it has. *)
FreeSlot == [phase |-> "free", prompt_left |-> 0, prompt_new |-> 0, need |-> 0, lag |-> 0]
Prompt(left, n) == [phase |-> "prefill", prompt_left |-> left, prompt_new |-> left,
                    need |-> n, lag |-> 0]

PlanInit ==
  /\ age = <<>>
  /\ rows = [s \in Slots |-> FreeSlot]
  /\ round_robin = 0 /\ short_first_steps = 0 /\ decoders_turn = FALSE /\ skipped = 0

(* The elements of a line that are in S, in its order. *)
Among(line, S) == Without(line, {i \in DOMAIN line : line[i] \notin S})

Decoding == {s \in Slots : rows[s].phase = "decode"}
Prefilling == {s \in Slots : rows[s].phase = "prefill"}
OldestPrompt ==
  {age[i] : i \in {j \in DOMAIN age : /\ age[j] \in Prefilling
                                      /\ \A k \in 1..(j - 1) : age[k] \notin Prefilling}}
KeepSkipped == skipped' = IF OldestPrompt' = OldestPrompt THEN skipped ELSE 0

------------------------------------------------------------------------------
(* Requests come, are parked and resumed for re-prefill, and go. *)

Admit(s, n) ==
  /\ rows[s].phase = "free"
  /\ rows' = [rows EXCEPT ![s] = Prompt(n, n)]
  /\ age' = Append(age, s)
  /\ KeepSkipped /\ UNCHANGED counters

ResumeRecompute(s, n) ==
  /\ rows[s].phase = "decode"
  /\ rows' = [rows EXCEPT ![s] = Prompt(Endless, n)]
  /\ UNCHANGED <<age, counters>> /\ KeepSkipped

RetireSlot(s) ==
  /\ rows[s].phase # "free"
  /\ rows' = [rows EXCEPT ![s] = FreeSlot]
  /\ age' = Among(age, Slots \ {s})
  /\ KeepSkipped /\ UNCHANGED counters

(* The clock reaches decode_only_until. *)
TurnEnds ==
  /\ decoders_turn /\ decoders_turn' = FALSE
  /\ UNCHANGED <<age, rows, round_robin, short_first_steps, skipped>>

------------------------------------------------------------------------------
(* plan_prefill_slices: the oldest candidates, then grants of a quantum in *)
(* rotation until the budget or everyone's room is used up.  `each(r)' is  *)
(* what each member has after r whole rounds; the budget ends in the round *)
(* after the last one it can pay for, where the member `offset' places     *)
(* after the cursor finds the ones before it already served. *)

deal(n, limits, start) ==
  LET budget == Min({limits.total, n * limits.per_sequence})
      each(r) == Min({limits.per_sequence, r * limits.quantum})
      whole == Max({r \in 0..limits.per_sequence : n * each(r) <= budget})
      room == each(whole + 1) - each(whole)
      rest(offset) == budget - n * each(whole) - offset * room
  IN  [i \in 1..n |-> each(whole) + Max({0, Min({room, rest((i - 1 - start) % n)})})]

Deals == [d, n \in 0..NumSlots, start \in 0..(RoundRobinPeriod - 1) |-> deal(n, Limits[d], start)]

plan_prefill_slices(candidates, decoding, start) ==
  LET n == Min({Len(candidates), Limits[decoding].sequences})
      share == Deals[decoding, n, start]
  IN  [s \in {candidates[i] : i \in {j \in 1..n : share[j] > 0}} |->
         share[CHOOSE i \in 1..n : candidates[i] = s]]

(* build_plan and the counters kept beside it. *)
limits_now == Limits[Cardinality(Decoding)]
fits_one_step(s) == rows[s].prompt_left <= limits_now.per_sequence
long_prompt_waiting == \E s \in Prefilling : ~ fits_one_step(s)
TurnOfDecoders == Decoding # {} /\ decoders_turn

held_long_prompts ==
  /\ ~ TurnOfDecoders /\ long_prompt_waiting
  /\ short_first_steps < kShortFirstSteps
  /\ \E s \in Prefilling : fits_one_step(s)

Slices ==
  IF TurnOfDecoders THEN [s \in {} |-> 0]
  ELSE plan_prefill_slices(
         Among(age, IF held_long_prompts THEN {s \in Prefilling : fits_one_step(s)} ELSE Prefilling),
         Cardinality(Decoding), round_robin)

(* Mutant: a turn of the decoders forgets how long the prompts waited. *)
NextShortFirst_reset_by_turn(prefills) ==
  IF held_long_prompts THEN short_first_steps + 1 ELSE 0

NextShortFirst(prefills) ==
  IF held_long_prompts THEN short_first_steps + 1
  ELSE IF (\E s \in DOMAIN prefills : ~ fits_one_step(s)) \/ ~ long_prompt_waiting THEN 0
  ELSE short_first_steps

------------------------------------------------------------------------------
(* validate_step_result.  An answer says how many outputs it has for each  *)
(* slot, how many tokens a decode row committed, and whether some payload  *)
(* is ill-formed in itself. *)

Count(planned) == [s \in Slots |-> IF s \in planned THEN 1 ELSE 0]

validate_allowing_omissions(burst, prefills, a) ==
  /\ ~ a.malformed
  /\ ~ a.error
  /\ \A s \in Slots :
       a.decode[s] <= Count(Decoding)[s] /\ a.prefills[s] <= Count(DOMAIN prefills)[s]
  /\ \A s \in Decoding \ burst : a.tokens[s] = 1

validate_step_result(burst, prefills, a) ==
  /\ ~ a.malformed
  /\ ~ a.error
  /\ a.decode = Count(Decoding) /\ a.prefills = Count(DOMAIN prefills)
  /\ \A s \in Decoding \ burst : a.tokens[s] = 1

(* engine.step feeds every planned row, one token or a burst, and advances *)
(* each slice by up to its tokens (a capture may cut it short); its answer *)
(* says so; a row that fails ends its request (Retire).  A faulty engine's *)
(* answer may miss, repeat or invent outputs, or burst where it must not.  *)
(* Bound of the model: it departs from the truth in one way. *)
Truth(tokens, prefills) ==
  [error |-> FALSE, malformed |-> FALSE, tokens |-> tokens,
   decode |-> Count(Decoding), prefills |-> Count(DOMAIN prefills)]

Answers(burst, tokens, prefills) ==
  LET truth == Truth(tokens, prefills)
  IN  {truth} \cup
      IF burst # {} \/ (\E s \in Decoding : tokens[s] > 1) THEN {}
      ELSE {[truth EXCEPT !.error = TRUE]} \cup
           IF ~ Faulty THEN {}
           ELSE {[truth EXCEPT !.malformed = TRUE]}
                \cup {[truth EXCEPT !.decode[s] = k] : s \in Slots, k \in {0, 2}}
                \cup {[truth EXCEPT !.prefills[s] = k] : s \in Slots, k \in {0, 2}}

(* The scheduler takes every token of an output into its stream; where no  *)
(* burst was allowed its hooks may replace the first and the rest is not   *)
(* what it would have fed. *)
Heard(s, burst, a) == a.decode[s] * (IF s \in burst THEN a.tokens[s] ELSE 1)

(* A completed prompt's first token is pending at once. *)
AfterDecode(s, burst, a) == [rows[s] EXCEPT !.lag = @ + Heard(s, burst, a) - a.tokens[s]]
AfterPrefill(s, granted, advance, a) ==
  LET left == IF rows[s].prompt_left = Endless THEN Endless
              ELSE Max({0, rows[s].prompt_left - granted})
      now == [rows[s] EXCEPT !.prompt_left = left, !.need = @ - advance]
  IN  IF now.need = 0 /\ a.prefills[s] > 0
      THEN [now EXCEPT !.phase = "decode", !.lag = a.prefills[s]] ELSE now

PromptWork == MapThenSumSet(LAMBDA s : rows[s].prompt_new, Prefilling)

(* One pass: plan, step, take the answer or give every request up. *)
TakeAnswer(prefills, burst, advance, a) ==
  LET planned == DOMAIN prefills IN
  IF validate_step_result(burst, prefills, a)
  THEN /\ rows' = [s \in Slots |->
            IF s \in Decoding THEN AfterDecode(s, burst, a)
            ELSE IF s \in planned THEN AfterPrefill(s, prefills[s], advance[s], a)
            ELSE rows[s]]
       /\ skipped' = IF planned = {} THEN skipped
                     ELSE IF OldestPrompt \subseteq planned THEN 0 ELSE Min({skipped, kShortFirstSteps}) + 1
       /\ UNCHANGED age
  ELSE rows' = [s \in Slots |-> FreeSlot] /\ age' = <<>> /\ skipped' = 0

Step ==
  \E prefills \in {Slices} :
    /\ Decoding # {} \/ prefills # <<>>
    /\ round_robin' = IF Prefilling = {} THEN round_robin
                      ELSE (round_robin + 1) % RoundRobinPeriod
    /\ short_first_steps' = NextShortFirst(prefills)
    /\ decoders_turn' = (decoders_turn \/ /\ TimeShare /\ Decoding # {} /\ prefills # <<>>
                                          /\ PromptWork > limits_now.long)
    /\ \E burst \in SUBSET Decoding, tokens \in [Decoding -> 1..2],
         advance \in {f \in [DOMAIN prefills -> 1..Max({1} \cup Range(prefills))] :
                       \A s \in DOMAIN f : f[s] <= prefills[s] /\ f[s] <= rows[s].need} :
       \E a \in Answers(burst, tokens, prefills) :
         /\ Faulty \/ \A s \in Decoding \ burst : tokens[s] = 1
         /\ TakeAnswer(prefills, burst, advance, a)

PlanNext ==
  \/ Step \/ TurnEnds
  \/ \E s \in Slots : RetireSlot(s) \/ \E n \in Lengths : Admit(s, n) \/ ResumeRecompute(s, n)

PlanSpec == PlanInit /\ [][PlanNext]_planVars

------------------------------------------------------------------------------

(* Scheduler and engine agree on every live request, whatever the engine   *)
(* answered: a decoding one has exactly its pending token unfed, so no     *)
(* token is fed twice or lost, and a prompt is over for both at once (the  *)
(* comment on validate_step_result: re-feeding a token would silently      *)
(* corrupt the sequence). *)
InStep ==
  \A s \in Slots :
    /\ rows[s].phase = "decode" => rows[s].lag = 1 /\ rows[s].need = 0
    /\ rows[s].phase = "prefill" => rows[s].need > 0

(* Short prompts that keep coming overtake the oldest prompt for at most   *)
(* kShortFirstSteps prompt steps, also with turns of the decoders between  *)
(* them. *)
OldestPromptWaitsBounded == skipped <= kShortFirstSteps

------------------------------------------------------------------------------
(* What makes InStep inductive. *)

Row(s) == [phase |-> rows[s].phase, prompt_left |-> rows[s].prompt_left,
           prompt_new |-> rows[s].prompt_new, need |-> rows[s].need, lag |-> rows[s].lag]

PlanTypeOK ==
  /\ age \in Seq(Slots)
  /\ rows = [s \in Slots |-> rows[s]]
  /\ \A s \in Slots :
       /\ rows[s] = Row(s)
       /\ rows[s].phase \in {"free", "prefill", "decode"}
       /\ rows[s].need \in Nat /\ rows[s].lag \in Nat

PlanInv == PlanTypeOK /\ InStep
=============================================================================
