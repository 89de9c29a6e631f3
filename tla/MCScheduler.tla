----------------------------- MODULE MCScheduler -----------------------------
(* TLC instances of Scheduler. *)
EXTENDS Scheduler, TLC

CONSTANTS j1, j2, j3, s1, s2

(* j2 can restore what j1 captures. *)
SharesOfJ1 == {<<j2, j1>>}

SlotSymmetry == Permutations(SlotIds)

(* The fields of a finished job are gone with it, and what was answered and *)
(* in which order jobs arrived decides nothing: states that differ only in  *)
(* them have the same future. *)
LiveProjection ==
  <<pc, queue, stage, compressing, prepared \ done, unpreparable \ done,
    deferred, backoff, loaded \ done, waiters, slotVars, stopping, submitted,
    gone \ done, done, next_admission_order>>

(* The safety properties also look at the answers, whether a client that    *)
(* has none was owed one, and the order of those still waiting. *)
Projection ==
  <<LiveProjection, answers, done \cap (gone \cup excused),
    SelectSeq(arrivals, LAMBDA j : j \notin done)>>
=============================================================================
