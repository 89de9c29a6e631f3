----------------------------- MODULE MCStepPlan -----------------------------
(* TLC instances of StepPlan: prompts of one token beside a longer one,    *)
(* with an envelope that shrinks while requests decode. *)
EXTENDS StepPlan

MCLimits == [d \in 0..NumSlots |->
  IF d = 0 THEN [sequences |-> 2, per_sequence |-> 2, total |-> 2, quantum |-> 1, long |-> 2]
  ELSE [sequences |-> 1, per_sequence |-> 1, total |-> 1, quantum |-> 1, long |-> 1]]

(* The loop of plan_prefill_slices, turn by turn: `deal' is what it ends   *)
(* with.  Checked over every small envelope when a run starts. *)
grant_loop(n, limits, start) ==
  LET turn(d, k) ==
        LET i == 1 + ((start + k - 1) % n)
            grant == Min({limits.quantum, limits.per_sequence - d.share[i], d.budget})
        IN  [share |-> [d.share EXCEPT ![i] = @ + grant], budget |-> d.budget - grant]
  IN  FoldLeft(turn, [share |-> [i \in 1..n |-> 0],
                      budget |-> Min({limits.total, n * limits.per_sequence})],
               [k \in 1..(n * limits.per_sequence) |-> k]).share

ASSUME DealIsTheLoop ==
  \A n \in 0..3, start \in 0..3, q \in 1..3, per \in 1..4, total \in 1..9 :
    LET L == [sequences |-> 3, per_sequence |-> per, total |-> total, quantum |-> q, long |-> 0]
    IN  deal(n, L, start) = grant_loop(n, L, start)
=============================================================================
