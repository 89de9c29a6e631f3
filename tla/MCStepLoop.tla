----------------------------- MODULE MCStepLoop -----------------------------
(* TLC instances of StepLoop: a pool the admitted requests outgrow. *)
EXTENDS StepLoop, TLC

RequestSymmetry == Permutations(RequestIds)
=============================================================================
