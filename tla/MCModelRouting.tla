--------------------------- MODULE MCModelRouting ---------------------------
(* A batched model with two slots before a single-request one, and fewer   *)
(* places to wait than clients that would like one. *)
EXTENDS ModelRouting, TLC

CONSTANTS c1, c2

Slots == <<2, 1>>
Generate(fits) == [kind |-> "generate", fits |-> fits]
Count(model) == [kind |-> "count", model |-> model]

(* One client's request is too large for the second model; the other's is  *)
(* the same, or counts tokens for that model. *)
Mixed == c1 :> {Generate({1})} @@ c2 :> {Generate({1}), Count(2)}
=============================================================================
