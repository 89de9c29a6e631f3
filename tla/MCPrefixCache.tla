---------------------------- MODULE MCPrefixCache ----------------------------
(* Small instances of PrefixCache: conversations of a few messages that    *)
(* start from message 1 or from 8. A checkpoint's bytes are its messages.   *)
EXTENDS PrefixCache, TLC

Bytes(n) == n

Ask(p) == [prompt |-> p, tools |-> FALSE, forced_cut |-> 0, shared |-> 0,
           deep |-> FALSE, full |-> TRUE]

(* Tool requests that pin their head or a forced cut, a long first turn    *)
(* kept out of the disk cache whose queued followers share part of its      *)
(* prompt, and one so long that other checkpoints must make room for it.    *)
Asked == {[Ask(<<1, 2>>) EXCEPT !.tools = TRUE],
          [Ask(<<1, 2, 3>>) EXCEPT !.tools = TRUE, !.deep = TRUE, !.full = FALSE,
                                   !.shared = 2],
          [Ask(<<8, 8>>) EXCEPT !.tools = TRUE, !.forced_cut = 2],
          Ask(<<9, 9, 9, 9, 9>>)}

Symmetric == Permutations(Requests)
==============================================================================
