--------------------------- MODULE MCPagedKvPool ---------------------------
(* TLC instance of PagedKvPool: two slots sharing three two-token blocks. *)
EXTENDS PagedKvPool

=============================================================================
