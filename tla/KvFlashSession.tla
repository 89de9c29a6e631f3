--------------------------- MODULE KvFlashSession ---------------------------
(***************************************************************************)
(* A KVFlash conversation of the Qwen3.5 backend, qwen35/qwen35_backend.cpp *)
(* with qwen35/prefill_helpers.h: a request resumes from the live session  *)
(* (a rung of the DeltaNet state ladder and the rows still in the pool),   *)
(* from a snapshot the server kept, or cold.                               *)
(*                                                                         *)
(* A K/V row, and the recurrent state, is the sequence of tokens it was    *)
(* computed from: it fits a request when that is the request's own prefix. *)
(*                                                                         *)
(* The pager is its number of chunks and whether every chunk sits in its   *)
(* own block: a chunk that moved or was paged out is taken to keep its     *)
(* rows.  A dense prefill or restore places row p at physical row p        *)
(* whatever the pager says: `placed` tells the two apart.                  *)
(***************************************************************************)
EXTENDS Integers, Sequences, FiniteSets, SequencesExt

CONSTANTS
  Options,        \* the ways this server may be set up and used
  Generated,      \* tokens the model may emit
  header,         \* the token that stands for an assistant header
  pad,            \* the token that stands for an image
  chunk_tokens,
  pool_tokens,    \* kvflash_tokens_
  grid,           \* kQwen35PrefillUbatch, and the batch size of a pooled prefill
  stride,         \* tokens between the regular rungs
  MaxRungs,       \* LUCE_KVFLASH_STATE_LADDER_MIB in checkpoints
  MaxRejected,    \* bound: drafted tokens that a verification rejects
  MaxLen,         \* bound: tokens of a session
  MaxTurns        \* bound: requests

Pos == 0..(MaxLen - 1)
Blocks == pool_tokens \div chunk_tokens
Ceil(n) == (n + chunk_tokens - 1) \div chunk_tokens

ASSUME SessionAssumption ==
  /\ chunk_tokens \in Nat \ {0} /\ grid \in Nat \ {0} /\ MaxRungs \in Nat
  /\ stride \in Nat \ {0} /\ stride % grid = 0
  /\ grid % chunk_tokens = 0 /\ pool_tokens % chunk_tokens = 0 /\ Blocks >= 2
  /\ \A o \in Options : \A r \in o.requests : Len(r.prompt) \in 1..MaxLen /\ r.snap \in 0..Len(r.prompt)

VARIABLES
  option,              \* the setting of this process, read once at start
  kvflash_history_,
  cur_pos,             \* cache_.cur_pos
  recurrent,           \* the SSM and convolution state
  row,                 \* [Pos -> tokens the row was computed from]
  placed,              \* where row p is: "pager" (its chunk's block) or "dense" (physical row p)
  pager,               \* [n: chunks, ident: every chunk in its own block]
  state_ladder_,       \* [pos, state] in tick order, oldest first
  state_ladder_head_,
  snapshot,            \* the server's snapshot slot
  run,                 \* the request being served
  turns,
  spoiled              \* history: what a step that breaks its promise has left inexact

vars == <<option, kvflash_history_, cur_pos, recurrent, row, placed, pager, state_ladder_,
          state_ladder_head_, snapshot, run, turns, spoiled>>

session == option.session      \* LUCE_KVFLASH_SESSION
consume == option.consume      \* LUCE_KVFLASH_RESTORE_CONSUME
ar_only == option.ar_only      \* requests decode without the speculative loop
ExactHits == option.exact      \* the server may offer a snapshot of the whole prompt
Faults == option.faults        \* what may fail: "image", "migrate", "fallback", "batch"
Requests == option.requests    \* a prompt, its image (or none), where to snapshot (0: nowhere)

Zero == <<>>
Foreign == <<"foreign">>             \* another chunk's row, or a rejected draft's
NoRows == [p \in Pos |-> Zero]
NoSnapshot == [pos |-> 0, pooled |-> FALSE, key |-> <<>>, row |-> NoRows,
               state |-> <<>>, n |-> 0, ident |-> TRUE]
Idle == [pc |-> "idle", prompt |-> <<>>, img |-> "none", snap |-> 0, kv_offset |-> 0, kv_pos |-> 0,
         paged |-> FALSE, restored |-> FALSE, cancelled |-> FALSE, ladder |-> {}, out |-> <<>>]

Init ==
  /\ option \in Options
  /\ kvflash_history_ = <<>> /\ cur_pos = 0 /\ recurrent = <<>>
  /\ row = NoRows /\ placed = "pager" /\ pager = [n |-> 0, ident |-> TRUE]
  /\ state_ladder_ = <<>> /\ state_ladder_head_ = -1
  /\ snapshot = NoSnapshot /\ run = Idle /\ turns = 0
  /\ spoiled = {}

\* What the model sees of a request: an image's pads stand for its picture.
Seen(prompt, img) == [i \in 1..Len(prompt) |-> IF prompt[i] = pad THEN img ELSE prompt[i]]
Whole(r) == Seen(r.prompt, r.img) \o r.out
Prefix(s, n) == SubSeq(s, 1, n)

---------------------------------------------------------------------------
(* The pager, as the backend uses it *)

Fresh == [n |-> 0, ident |-> TRUE]

\* slot_for over a span that ends below position `upto`, in logical order.
Grown(pg, from, upto) ==
  IF upto <= from \/ Ceil(upto) <= pg.n THEN pg
  ELSE [n |-> Ceil(upto),
        ident |-> pg.ident /\ from \div chunk_tokens <= pg.n /\ Ceil(upto) <= Blocks]

\* The row attention reads for position p through the pager: nothing when its
\* chunk was never mapped, another chunk's when the rows were placed densely
\* under a pager that relocated its chunks.
Mapped(p, rows, at, pg) ==
  IF p \div chunk_tokens >= pg.n THEN Zero
  ELSE IF at = "pager" \/ pg.ident THEN rows[p] ELSE Foreign

\* Chunks with a block, by recency: the sink and the newest ones.
Resident(c) == c < pager.n /\ (c = 0 \/ c > pager.n - Blocks)

\* reset_recurrent_state and the clear before a restore zero the whole cache
\* buffer, the pool's rows included; host copies stay.
Cleared == [p \in Pos |-> IF placed = "dense" \/ Resident(p \div chunk_tokens) THEN Zero ELSE row[p]]

\* What lies at physical row p, which a dense snapshot copies.
Physical(p, pg) == IF placed = "dense" \/ pg.ident THEN row[p] ELSE Foreign

RowsBelow(rows, n) == [p \in Pos |-> IF p < n THEN rows[p] ELSE Zero]

---------------------------------------------------------------------------
(* The state ladder *)

RungAt(pos) == CHOOSE r \in ToSet(state_ladder_) : r.pos = pos

\* kvflash_ladder_evict: oldest first, never the head nor the newest.
RECURSIVE LadderEvict(_, _)
LadderEvict(rungs, head) ==
  LET cand == {i \in 1..(Len(rungs) - 1) : rungs[i].pos # head}
  IN  IF Len(rungs) <= MaxRungs \/ cand = {} THEN rungs
      ELSE LadderEvict(RemoveAt(rungs, CHOOSE i \in cand : \A j \in cand : i <= j), head)

\* state_ladder_capture at pos = cur_pos > 0 with the state st.
Capture(rungs, head, pos, st) ==
  IF pos = 0 THEN rungs
  ELSE LadderEvict(Append(SelectSeq(rungs, LAMBDA r : r.pos # pos), [pos |-> pos, state |-> st]), head)

\* Batch boundaries after an assistant header that does not end the prompt.
TurnCuts(prompt) == {i \in 1..(Len(prompt) - 1) : prompt[i] = header}

\* The cuts do_prefill finds in the tokens it was given, from `off` on.
CutsFrom(prompt, off) ==
  {off + i : i \in TurnCuts(SubSeq(prompt, off + 1, Len(prompt)))}

\* kvflash_state_ladder_positions: the snapshot's grid point, every stride,
\* the last grid point of the prompt and its last turn cut.
LadderPositions(snap, end, cuts) ==
  IF end < grid THEN {}
  ELSE {p \in 1..end : p % stride = 0 \/ p = (end \div grid) * grid
                       \/ (snap >= grid /\ p = (snap \div grid) * grid)
                       \/ (p \in cuts /\ \A q \in cuts : q <= p)}

---------------------------------------------------------------------------
(* Choosing where to resume *)

CommonPrefix(a, b, cap) ==
  CHOOSE l \in 0..cap : Prefix(a, l) = Prefix(b, l) /\ (l < cap => a[l + 1] # b[l + 1])

LeastOf(S) == CHOOSE x \in S : \A y \in S : x <= y
MostOf(S) == CHOOSE x \in S : \A y \in S : x >= y

\* kvflash_live_restore_decide.
LiveL(prompt) == CommonPrefix(prompt, kvflash_history_,
                              LeastOf({Len(prompt), Len(kvflash_history_), cur_pos}))
LiveCut(prompt) ==
  LET ok == {r.pos : r \in {q \in ToSet(state_ladder_) : q.pos <= LiveL(prompt) /\ q.pos < Len(prompt)}}
  IN  IF session /\ ok # {} THEN MostOf(ok) ELSE -1

\* kvflash_restore_plan for the snapshot, and the tokens it would skip.
Plan(prompt) ==
  IF snapshot.pooled
  THEN IF consume /\ snapshot.pos % chunk_tokens = 0 THEN "Consume" ELSE "FullReprefill"
  ELSE IF snapshot.pos > pool_tokens THEN "FullReprefill"
  ELSE IF Len(prompt) > snapshot.pos /\ Len(prompt) > pool_tokens - chunk_tokens
       THEN IF session THEN "AdoptDense" ELSE "FullReprefill"
  ELSE "Dense"
ServerCut(prompt) == IF Plan(prompt) = "FullReprefill" THEN 0 ELSE snapshot.pos

\* The server matches a snapshot by its tokens and drops one longer than the prompt.
Offered(r) ==
  /\ snapshot.pos > 0 /\ r.img = "none" /\ IsPrefix(snapshot.key, r.prompt)
  /\ snapshot.pos <= Len(r.prompt) /\ (ExactHits \/ snapshot.pos < Len(r.prompt))

---------------------------------------------------------------------------
(* A request starts *)

Begin == run.pc = "idle" /\ turns < MaxTurns /\ turns' = turns + 1

Frame(r) == [Idle EXCEPT !.prompt = r.prompt, !.img = r.img, !.snap = r.snap]

\* do_prefill at kv_offset: the rungs it will leave and the head rung it
\* names; `head` is the one it finds, kept by a live restore without a cut of its own.
PrefillFrom(r, off, live, restored, paged, head) ==
  LET ladders == session /\ r.img = "none"
  IN  /\ run' = [Frame(r) EXCEPT !.pc = "prefill", !.kv_offset = off, !.kv_pos = off,
                   !.restored = restored, !.paged = paged,
                   !.snap = IF r.img = "none" THEN r.snap ELSE 0,
                   !.ladder = IF ladders THEN LadderPositions(r.snap, Len(r.prompt), CutsFrom(r.prompt, off))
                              ELSE {}]
      /\ state_ladder_head_' =
           IF ladders /\ (~live \/ r.snap > 0)
           THEN IF r.snap > 0 THEN (r.snap \div grid) * grid ELSE -1
           ELSE head

\* A cold prefill: the cache buffer is cleared, the pager reset, and once the
\* rollback cache has been migrated (or the request refused) the ladder goes
\* too.  The history and cur_pos stay for now.
ColdPrefill(r, ladder) ==
  LET paged == Len(r.prompt) > pool_tokens - chunk_tokens
  IN  /\ pager' = Fresh /\ row' = NoRows /\ recurrent' = <<>>
      /\ placed' = IF paged THEN "pager" ELSE "dense"
      /\ \/ /\ PrefillFrom(r, 0, FALSE, FALSE, paged, IF session THEN -1 ELSE state_ladder_head_)
            /\ state_ladder_' = IF session THEN <<>> ELSE ladder
            /\ spoiled' = spoiled \ {"session"}
         \/ /\ "migrate" \in Faults
            /\ state_ladder_' = ladder /\ UNCHANGED <<run, state_ladder_head_>>
            /\ spoiled' = spoiled \cup {"session"}

\* The rungs kvflash_live_restore leaves, whether or not it finds a cut.
Trimmed(r) ==
  IF session /\ r.img = "none"
  THEN SelectSeq(state_ladder_, LAMBDA q : q.pos <= LiveL(r.prompt)) ELSE state_ladder_

\* generate_impl without a usable rung.
StartCold(r) ==
  /\ Begin /\ ~Offered(r) /\ (LiveCut(r.prompt) = -1 \/ r.img # "none")
  /\ ColdPrefill(r, Trimmed(r))
  /\ UNCHANGED <<kvflash_history_, cur_pos, snapshot>>

\* An image that does not match its binding is refused with the cache buffer
\* cleared and nothing else done.
StartImageRefused(r) ==
  /\ "image" \in Faults /\ Begin /\ r.img # "none"
  /\ recurrent' = <<>> /\ row' = Cleared /\ spoiled' = spoiled \cup {"session"}
  /\ UNCHANGED <<kvflash_history_, cur_pos, placed, pager, state_ladder_, state_ladder_head_,
                 snapshot, run>>

\* Mutant: the chunk the cut falls in is dropped whole.
TruncatedDown(pg, C) ==
  IF C >= pg.n * chunk_tokens THEN pg
  ELSE [n |-> C \div chunk_tokens, ident |-> Ceil(C) <= Blocks \/ pg.ident]

\* KvFlashPager::truncate(C): a prefix that fits the pool goes back to its own blocks.
Truncated(pg, C) ==
  IF C >= pg.n * chunk_tokens THEN pg
  ELSE [n |-> Ceil(C), ident |-> Ceil(C) <= Blocks \/ pg.ident]

LiveWins(r) ==
  /\ Begin /\ r.img = "none" /\ LiveCut(r.prompt) > 0
  /\ Offered(r) => LiveCut(r.prompt) > ServerCut(r.prompt)

\* kvflash_live_restore, then a pooled prefill of the rest of the prompt.
StartLive(r) ==
  LET C == LiveCut(r.prompt)
  IN  /\ LiveWins(r)
      /\ state_ladder_' = Trimmed(r)
      /\ pager' = Truncated(pager, C) /\ row' = RowsBelow(row, C)
      /\ recurrent' = RungAt(C).state
      /\ kvflash_history_' = Prefix(kvflash_history_, C) /\ cur_pos' = C
      /\ PrefillFrom(r, C, TRUE, FALSE, TRUE, state_ladder_head_)
      /\ UNCHANGED <<placed, snapshot, spoiled>>

\* The checkpoint cannot be restored, or (with the history already cut) the
\* drafter's features cannot be synced: the request goes on cold.
StartLiveFallsBack(r) ==
  /\ "fallback" \in Faults /\ LiveWins(r)
  /\ \/ UNCHANGED <<kvflash_history_, cur_pos>>
     \/ /\ kvflash_history_' = Prefix(kvflash_history_, LiveCut(r.prompt))
        /\ cur_pos' = LiveCut(r.prompt)
  /\ ColdPrefill(r, Trimmed(r))
  /\ UNCHANGED snapshot

---------------------------------------------------------------------------
(* restore_and_generate_impl *)

ServerWins(r) == Begin /\ Offered(r) /\ LiveCut(r.prompt) <= ServerCut(r.prompt)

\* After a restore the request prefills what its prompt has beyond the
\* snapshot; an exact hit goes straight to decoding.
ContinueAt(r, live, paged) ==
  LET head == IF session THEN -1 ELSE state_ladder_head_
  IN  IF Len(r.prompt) > snapshot.pos
      THEN PrefillFrom(r, snapshot.pos, live, TRUE, paged, head)
      ELSE /\ run' = [Frame(r) EXCEPT !.pc = "decode", !.kv_offset = snapshot.pos,
                                      !.kv_pos = snapshot.pos, !.restored = TRUE, !.snap = 0]
           /\ state_ladder_head_' = head

DropLadder == state_ladder_' = IF session THEN <<>> ELSE state_ladder_

\* The session is as exact as the snapshot it continues, if its pager maps the rows.
SpoiledBy(unmapped) ==
  spoiled' = (spoiled \ {"session"})
             \cup IF unmapped \/ "snapshot" \in spoiled THEN {"session"} ELSE {}

\* A dense snapshot of a prompt that fits the pool: rows at their physical
\* places, the pager rebuilt when the prefill of the rest ends.
RestoreDense(r) ==
  /\ ServerWins(r) /\ Plan(r.prompt) = "Dense"
  /\ recurrent' = snapshot.state /\ row' = snapshot.row /\ placed' = "dense"
  /\ cur_pos' = snapshot.pos /\ DropLadder
  /\ ContinueAt(r, FALSE, FALSE)
  /\ SpoiledBy(/\ Len(r.prompt) = snapshot.pos
               /\ ~pager.ident \/ (ar_only /\ pager.n < Ceil(snapshot.pos)))
  /\ UNCHANGED <<kvflash_history_, pager, snapshot>>

\* A dense snapshot whose prompt outgrows the pool: the pager adopts the rows.
RestoreAdopt(r) ==
  /\ ServerWins(r) /\ Plan(r.prompt) = "AdoptDense"
  /\ recurrent' = snapshot.state /\ row' = snapshot.row /\ placed' = "pager"
  /\ pager' = [n |-> Ceil(snapshot.pos), ident |-> TRUE]
  /\ kvflash_history_' = Prefix(r.prompt, snapshot.pos)
  /\ cur_pos' = snapshot.pos /\ DropLadder
  /\ ContinueAt(r, TRUE, TRUE) /\ SpoiledBy(FALSE)
  /\ UNCHANGED snapshot

\* A pooled snapshot: the pager is rebuilt from its blob.  A blob with too few
\* chunks for its position is refused and the request fails at position 0.
RestoreConsume(r) ==
  /\ ServerWins(r) /\ Plan(r.prompt) = "Consume"
  /\ recurrent' = snapshot.state /\ row' = snapshot.row /\ placed' = "pager"
  /\ pager' = [n |-> snapshot.n, ident |-> snapshot.ident]
  /\ IF snapshot.n = Ceil(snapshot.pos)
     THEN /\ kvflash_history_' = Prefix(r.prompt, snapshot.pos)
          /\ cur_pos' = snapshot.pos /\ DropLadder
          /\ ContinueAt(r, FALSE, TRUE) /\ SpoiledBy(FALSE)
     ELSE /\ cur_pos' = 0
          /\ UNCHANGED <<kvflash_history_, state_ladder_, state_ladder_head_, run, spoiled>>
  /\ UNCHANGED snapshot

\* A snapshot that cannot be continued: the whole prompt again.
RestoreFull(r) ==
  /\ ServerWins(r) /\ Plan(r.prompt) = "FullReprefill"
  /\ cur_pos' = 0 /\ ColdPrefill(r, state_ladder_)
  /\ UNCHANGED <<kvflash_history_, snapshot>>

---------------------------------------------------------------------------
(* Prefill, batch by batch *)

\* kvflash_prefill_batch_end with max_batch = grid.
BatchEnd(pos, end, cuts) ==
  LET e == LeastOf({end, ((pos + grid) \div grid) * grid})
  IN  LeastOf({e} \cup {c \in cuts : c > pos /\ c < e})

\* The batches of a whole pooled prompt from `start` on, as the set of their starts.
RECURSIVE BatchStarts(_, _, _)
BatchStarts(pos, end, cuts) ==
  IF pos >= end THEN {} ELSE {pos} \cup BatchStarts(BatchEnd(pos, end, cuts), end, cuts)

CutsOf(r) == IF r.img = "none" THEN CutsFrom(r.prompt, r.kv_offset) ELSE {}

\* kvflash_pooled_snapshot_pos: the last chunk-aligned batch start at or below snap.
PooledSnapAt(r) ==
  LET ok == {p \in BatchStarts(r.kv_offset, Len(r.prompt), CutsOf(r)) :
               p > r.kv_offset /\ p <= r.snap /\ p % chunk_tokens = 0}
  IN  IF r.snap <= r.kv_offset \/ r.snap >= Len(r.prompt) \/ ok = {} THEN -1 ELSE MostOf(ok)

\* snapshot_save_pooled_at: the pager's chunks, with the state of the live cache.
SavePooled(pos) ==
  [pos |-> pos, pooled |-> TRUE, key |-> Prefix(run.prompt \o run.out, pos),
   row |-> [p \in Pos |-> IF p < Ceil(pos) * chunk_tokens THEN Mapped(p, row, placed, pager) ELSE Zero],
   state |-> recurrent, n |-> LeastOf({Ceil(pos), pager.n}), ident |-> pager.ident]

SaveDense(pos, pg) ==
  [pos |-> pos, pooled |-> FALSE, key |-> Prefix(run.prompt \o run.out, pos),
   row |-> [p \in Pos |-> IF p < pos THEN Physical(p, pg) ELSE Zero],
   state |-> recurrent, n |-> 0, ident |-> TRUE]

\* snapshot_save at cur_pos = pos > 0: dense rows while the pager says they are in place.
Saved(pos, pg) ==
  IF pos > pool_tokens \/ ~pg.ident
  THEN IF consume THEN SavePooled(pos) ELSE snapshot
  ELSE SaveDense(pos, pg)

\* Mutant: a pooled snapshot is labelled with the cut that was asked for.
BoundarySnapAtCut(e) ==
  IF run.paged /\ consume /\ run.kv_pos <= run.snap /\ run.snap < e /\ run.snap > 0
  THEN SavePooled(run.snap) ELSE snapshot

\* The snapshot a batch takes before it runs, and the request for one it leaves.
BoundarySnap(e) ==
  LET k == run.kv_pos IN
  IF run.snap = 0 THEN snapshot
  ELSE IF run.paged
       THEN IF consume /\ k = PooledSnapAt(run) THEN SavePooled(k) ELSE snapshot
  ELSE IF k <= run.snap /\ run.snap < e /\ k > run.kv_offset THEN Saved(k, pager) ELSE snapshot

\* What is saved is as exact as the session it is saved from, and as the mapping
\* it is read through.
SavedFrom(unmapped) ==
  spoiled' = IF snapshot' = snapshot THEN spoiled
             ELSE (spoiled \ {"snapshot"})
                  \cup IF unmapped \/ "session" \in spoiled THEN {"snapshot"} ELSE {}

SnapLeft(e) ==
  IF run.kv_pos <= run.snap /\ run.snap < e THEN 0
  ELSE IF run.paged /\ consume /\ run.kv_pos = PooledSnapAt(run) THEN 0 ELSE run.snap

Batches ==
  IF run.paged THEN {BatchEnd(run.kv_pos, Len(run.prompt), CutsOf(run))}
  ELSE (run.kv_pos + 1)..LeastOf({run.kv_pos + grid, Len(run.prompt)})

PrefillBatch ==
  /\ run.pc = "prefill" /\ ~run.cancelled /\ run.kv_pos < Len(run.prompt)
  /\ \E e \in Batches :
       LET st == recurrent \o SubSeq(Whole(run), run.kv_pos + 1, e)
           pg == IF run.paged THEN Grown(pager, run.kv_pos, e) ELSE pager
       IN  /\ snapshot' = BoundarySnap(e)
           /\ SavedFrom(run.restored /\ ~run.paged /\ ~pager.ident)
           /\ row' = [p \in Pos |-> IF p \in run.kv_pos..(e - 1) THEN Prefix(st, p + 1 - e + Len(st)) ELSE row[p]]
           /\ recurrent' = st /\ pager' = pg
           /\ cur_pos' = e
           /\ state_ladder_' =
                IF e \in run.ladder THEN Capture(state_ladder_, state_ladder_head_, e, st) ELSE state_ladder_
           /\ run' = [run EXCEPT !.kv_pos = e, !.snap = SnapLeft(e)]
  /\ UNCHANGED <<kvflash_history_, placed, state_ladder_head_, turns>>

\* A batch that fails, with or without its slots allocated: do_prefill returns -1.
PrefillFails ==
  /\ "batch" \in Faults /\ run.pc = "prefill" /\ ~run.cancelled /\ run.kv_pos < Len(run.prompt)
  /\ \E e \in Batches :
       pager' \in {pager, IF run.paged THEN Grown(pager, run.kv_pos, e) ELSE pager}
  /\ run' = Idle /\ spoiled' = spoiled \cup {"session"}
  /\ UNCHANGED <<kvflash_history_, cur_pos, recurrent, row, placed, state_ladder_,
                 state_ladder_head_, snapshot, turns>>

PrefillCancelled ==
  /\ run.pc = "prefill" /\ run.kv_pos < Len(run.prompt) /\ ~run.cancelled
  /\ run' = [run EXCEPT !.cancelled = TRUE]
  /\ UNCHANGED <<kvflash_history_, cur_pos, recurrent, row, placed, pager, state_ladder_,
                 state_ladder_head_, snapshot, turns, spoiled>>

---------------------------------------------------------------------------
(* The prefill ends, the answer *)

\* The history becomes the prompt; a dense prefill also maps its rows
\* (kvflash_sync_prefill).  A snapshot asked for at the end is taken here.
PrefillEnds ==
  LET pg == IF run.paged THEN pager ELSE [n |-> Ceil(run.kv_pos), ident |-> TRUE]
  IN  /\ run.pc = "prefill" /\ (run.cancelled \/ run.kv_pos = Len(run.prompt))
      /\ kvflash_history_' = run.prompt
      /\ pager' = pg /\ placed' = "pager" /\ row' = RowsBelow(row, pg.n * chunk_tokens)
      /\ snapshot' = IF run.snap > 0 /\ run.snap = run.kv_pos /\ run.kv_pos = cur_pos
                     THEN Saved(run.kv_pos, pg) ELSE snapshot
      /\ SavedFrom(FALSE)
      /\ run' = IF run.cancelled THEN Idle ELSE [run EXCEPT !.pc = "decode"]
      /\ UNCHANGED <<cur_pos, recurrent, state_ladder_, state_ladder_head_, turns>>

\* The speculative loop maps an identity prefix before it starts.  Dense rows
\* under a pager that maps them where they are belong to it from here on.
DecodeBegins ==
  /\ run.pc = "decode" /\ run.out = <<>>
  /\ \E t \in Generated :
       /\ run' = [run EXCEPT !.out = <<t>>, !.pc = "answer"]
       /\ kvflash_history_' = Append(kvflash_history_, t)
  /\ pager' = IF ~ar_only /\ pager.ident THEN Grown(pager, 0, cur_pos) ELSE pager
  /\ placed' = IF pager'.ident /\ pager'.n >= Ceil(cur_pos) THEN "pager" ELSE placed
  /\ UNCHANGED <<cur_pos, recurrent, row, state_ladder_, state_ladder_head_, snapshot, turns, spoiled>>

\* Where a forward at cur_pos ends: the speculative loop verifies drafted tokens too.
ForwardEnds ==
  {e \in 1..MaxLen : e > cur_pos /\ e <= cur_pos + 1 + IF ar_only THEN 0 ELSE MaxRejected}

\* The pending token is forwarded at cur_pos and the next one drawn.  A block
\* that accepts several tokens is a step for each; of those it rejects the
\* rows stay in the slots mapped for them, and the state is rolled back.
DecodeStep ==
  /\ run.pc = "answer"
  /\ \E t \in Generated, e \in ForwardEnds :
       LET st == Append(recurrent, run.out[Len(run.out)])
       IN  /\ run' = [run EXCEPT !.out = Append(@, t)]
           /\ kvflash_history_' = Append(kvflash_history_, t)
           /\ row' = [p \in Pos |-> IF p = cur_pos THEN st
                                    ELSE IF p \in (cur_pos + 1)..(e - 1) THEN Foreign ELSE row[p]]
           /\ recurrent' = st
           /\ pager' = Grown(pager, cur_pos, e)
  /\ cur_pos' = cur_pos + 1
  /\ UNCHANGED <<placed, state_ladder_, state_ladder_head_, snapshot, turns, spoiled>>

\* The answer ends; generate_impl, not a restore, leaves a rung at its end,
\* and the server may keep the turn as a snapshot.
AnswerEnds ==
  /\ run.pc = "answer"
  /\ state_ladder_' =
       IF session /\ ~run.restored /\ run.img = "none" /\ Len(kvflash_history_) >= cur_pos
       THEN Capture(state_ladder_, state_ladder_head_, cur_pos, recurrent) ELSE state_ladder_
  /\ snapshot' \in {snapshot} \cup (IF run.img = "none" THEN {Saved(cur_pos, pager)} ELSE {})
  /\ SavedFrom(FALSE)
  /\ run' = Idle
  /\ UNCHANGED <<kvflash_history_, cur_pos, recurrent, row, placed, pager, state_ladder_head_, turns>>

\* Cancelled after the prefill, or a decode step fails, its slot allocated or not.
DecodeStops ==
  /\ run.pc \in {"decode", "answer"}
  /\ pager' \in {pager} \cup (IF run.pc = "answer" THEN {Grown(pager, cur_pos, e) : e \in ForwardEnds}
                                                    ELSE {})
  /\ run' = Idle
  /\ UNCHANGED <<kvflash_history_, cur_pos, recurrent, row, placed, state_ladder_,
                 state_ladder_head_, snapshot, turns, spoiled>>

Next ==
  /\ UNCHANGED option
  /\ \/ \E r \in Requests :
          StartCold(r) \/ StartImageRefused(r) \/ StartLive(r) \/ StartLiveFallsBack(r)
          \/ RestoreDense(r) \/ RestoreAdopt(r) \/ RestoreConsume(r) \/ RestoreFull(r)
     \/ PrefillBatch \/ PrefillFails \/ PrefillCancelled \/ PrefillEnds
     \/ DecodeBegins \/ DecodeStep \/ AnswerEnds \/ DecodeStops

Spec == Init /\ [][Next]_vars

---------------------------------------------------------------------------
(* Properties *)

\* A request that resumes - from a rung and the pool's rows, or from a snapshot
\* read as it is, adopted or consumed - or starts cold has its recurrent state
\* and every row attention reads computed from its own tokens
\* (kvflash_live_restore, restore_and_generate_impl, kvflash_sync_prefill).
\* Excepted is a session that one of these has spoiled, until a cold prefill
\* or a restore replaces it: an image refused, a migration or a batch failed
\* (the pool's rows go, the history that vouches for them stays), and an exact
\* hit on a dense snapshot under a mapping that does not hold its rows.
SessionExact ==
  LET n == IF run.pc = "prefill" THEN run.kv_pos ELSE cur_pos
      Read(p) == IF run.pc = "prefill" /\ ~run.paged THEN row[p] ELSE Mapped(p, row, placed, pager)
  IN  run.pc \in {"prefill", "answer"} /\ "session" \notin spoiled =>
        /\ recurrent = Prefix(Whole(run), n)
        /\ \A p \in 0..(n - 1) : Read(p) = Prefix(Whole(run), p + 1)

\* A snapshot holds the rows and the state of the tokens it is found by, at
\* one position (snapshot_save, snapshot_save_pooled_at).  Excepted is one
\* saved from a spoiled session, or cut inside a dense prefill after a
\* restore, through the relocated mapping of the request before.
SnapshotExact ==
  "snapshot" \notin spoiled =>
    /\ snapshot.state = snapshot.key /\ Len(snapshot.key) = snapshot.pos
    /\ \A p \in 0..(snapshot.pos - 1) : snapshot.row[p] = Prefix(snapshot.key, p + 1)

=============================================================================
