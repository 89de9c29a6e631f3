----------------------------- MODULE MCDiskRead -----------------------------
(* Requests at any free job address: one conversation whose deeper state   *)
(* is on disk, and others that share its first message only or may not     *)
(* read from disk at all; the configuration picks which of them run. *)
EXTENDS DiskRead, TLC

MCPrompt == [r \in {"a", "b", "c"} |->
  CASE r = "a" -> <<1, 2, 3>> [] r = "b" -> <<1, 4, 4>> [] OTHER -> <<1, 2>>]
MCFixed == [r \in {"a", "b", "c"} |-> IF r = "c" THEN {} ELSE 0..3]
MCStates == {<<1>>, <<1, 2>>, <<1, 4>>}

=============================================================================
