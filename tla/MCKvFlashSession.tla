-------------------------- MODULE MCKvFlashSession --------------------------
(***************************************************************************)
(* A pool of three blocks of two tokens: a prompt of at most four tokens   *)
(* prefills densely, a session of more than six has moved chunks.  A turn  *)
(* ends with an assistant header; the long prompt goes on from an answer.  *)
(***************************************************************************)
EXTENDS KvFlashSession

Ask(prompt, snap) == [prompt |-> prompt, img |-> "none", snap |-> snap]
Show(prompt, img) == [prompt |-> prompt, img |-> img, snap |-> 0]

First == <<"a", "a", "h", "b">>
Second == <<"a", "a", "h", "b", "h", "a", "b">>
Other == <<"b", "a", "h", "b">>
Longer == <<"b", "a", "h", "b", "h", "a", "b">>
Picture == <<"i", "a", "h", "b">>

\* A live session over a pool that outgrows its rows, and what a request
\* falls back to.
Live == [session |-> TRUE, consume |-> FALSE, ar_only |-> FALSE, exact |-> FALSE, faults |-> {"fallback"},
         requests |-> {Ask(First, 0), Ask(First, 2), Ask(Second, 4), Ask(Longer, 3), Ask(Other, 0),
                       Show(Picture, "x"), Show(Picture, "y")}]
\* Pooled snapshots, asked for in the prompts that outgrow the pool only.
Pooled == [session |-> TRUE, consume |-> TRUE, ar_only |-> FALSE, exact |-> FALSE, faults |-> {},
           requests |-> {Ask(First, 0), Ask(Second, 5), Ask(Second, 7), Ask(Longer, 3), Ask(Longer, 1)}]
\* Snapshots alone, with failures.
Plain == [session |-> FALSE, consume |-> FALSE, ar_only |-> TRUE, exact |-> TRUE,
          faults |-> {"image", "migrate", "batch"},
          requests |-> {Ask(First, 2), Ask(Second, 4), Ask(Other, 0), Show(Picture, "x")}]
\* A snapshot of the whole prompt offered again; a live session in which a
\* request fails; pooled snapshots cut inside a dense prefill.
WholePromptHits == [Live EXCEPT !.exact = TRUE, !.requests = {Ask(First, 4), Ask(Second, 7), Ask(Other, 2)}]
FailedRequests == [Live EXCEPT !.faults = Plain.faults, !.requests = Plain.requests]
DenseCuts == [Live EXCEPT !.session = FALSE, !.consume = TRUE, !.faults = {}]
Setups == {Live, Pooled, Plain, WholePromptHits, FailedRequests, DenseCuts}
=============================================================================
