-------------------------- MODULE MCSeqSlotManager --------------------------
(* TLC instances of SeqSlotManager.  Request ids are compared and never     *)
(* ordered, so they are symmetric. *)
EXTENDS SeqSlotManager, TLC

RequestSymmetry == Permutations(RequestIds)

=============================================================================
