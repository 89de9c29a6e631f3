------------------------------ MODULE DiskStore ------------------------------
(***************************************************************************)
(* The disk tier of the prefix cache (server/src/server/kv/disk_store.cpp, *)
(* disk_prefix_cache.cpp): the files of one directory, their index, the    *)
(* budget and the TTL, the writer thread, and the threads that save, load  *)
(* and drain while it writes.  The process may crash between any two       *)
(* steps.                                                                  *)
(*                                                                         *)
(* `disk' is everything the mutex mu_ guards plus the directory itself, in *)
(* one record D, because one operation removes several entries; a helper   *)
(* is an operator from D to D.  D.files is what the directory shows now,   *)
(* D.stable what each name may hold after a crash: data that was not       *)
(* synced may be lost or torn, a name that was not synced may be missing.  *)
(*                                                                         *)
(* A key stands for a token sequence; its snapshot's content is the key    *)
(* itself.  Hash is hash_prefix within a layout, so it also names the file *)
(* and may collide.  An owner is one model (layout and identity salt).     *)
(***************************************************************************)
EXTENDS Integers, FiniteSetsExt, SequencesExt, FreeList, Totals

CONSTANTS
  Keys,            \* token sequences
  Hash,            \* [Keys -> file names]: hash_prefix
  Owner,           \* [Keys -> Owners]: whose layout directory
  Size,            \* [Keys -> bytes of the file]
  Depth,           \* [Keys -> token_count]
  Ancestors,       \* [Keys -> strict prefixes among Keys]
  BudgetBytes,     \* config.budget_bytes
  MaxPendingBytes, \* config.max_pending_bytes
  Rooms,           \* free space beyond the reserve, as the probe may report it
  TtlSeconds,      \* config.ttl_seconds
  MaxId,           \* bound: no save begins once so many entries were made
  MaxTime,         \* the clock's one later value
  MaxEvents,       \* bound: crashes and corrupted files, or a step of the clock
  None             \* no file, no key

(* What one file may hold: a snapshot of a key, the use in its header, and *)
(* whether its bytes are whole, cut short or damaged. *)
FileRecords == [key : Keys, used : Nat, bytes : {"whole", "short", "damaged"}]

(* None is no key and no file; sizes, budgets and times are counts. *)
ASSUME StoreAssumption ==
  /\ IsFiniteSet(Keys)
  /\ \A k \in Keys : Size[k] \in Nat
  /\ BudgetBytes \in Nat /\ MaxPendingBytes \in Nat /\ MaxTime \in Nat /\ MaxEvents \in Nat
  /\ Rooms \in SUBSET Nat
  /\ None \notin Keys /\ None \notin FileRecords

Owners == {Owner[k] : k \in Keys}
Names == {Hash[k] : k \in Keys}
dir_of(n) == Owner[CHOOSE k \in Keys : Hash[k] = n]

VARIABLES
  disk,            \* entries_, queue_, byte counts, files (see below)
  next_entry_id,
  writer,          \* the writer thread: pc and the job it writes
  abort_write,
  caller,          \* [Owners -> thread that saves and drains]
  loader,          \* [Owners -> thread that loads]
  now,             \* the unix clock
  up,              \* the process runs
  env              \* what happened from outside so far (model only)

vars == <<disk, next_entry_id, writer, abort_write, caller, loader, now, up, env>>

File(k, used, bytes) == [key |-> k, used |-> used, bytes |-> bytes]
Torn(k, used) == {File(k, used, "short"), File(k, used, "damaged")}

NoJob == [id |-> 0, key |-> None, last_used |-> 0]
Idle == [pc |-> "idle", key |-> None, awake |-> FALSE]
NotLoading == [pc |-> "idle", key |-> None, id |-> 0, from_memory |-> FALSE, out |-> None]

(* mu_ is held across the rename and the sync of the directory; every      *)
(* other critical section is one step. *)
mu_free == writer.pc # "renamed"
-----------------------------------------------------------------------------
(* Index maintenance.                                                      *)

Positions(D) == DOMAIN D.entries
find_entry_id(D, id) == {i \in Positions(D) : D.entries[i].id = id}
find_entry(D, h) == {i \in Positions(D) : Hash[D.entries[i].key] = h}

Bytes(D, I) == Total([i \in I |-> Size[D.entries[i].key]], I)

expired(D, i) == TtlSeconds > 0 /\ now - D.entries[i].last_used > TtlSeconds

Less(a, b) == IF a > b THEN a - b ELSE 0

(* done_cv_.notify_all() is D.notified: whoever waits rechecks. *)

(* The names whose file goes when the entries at I leave. *)
unlinked(D, I) == {Hash[D.entries[i].key] : i \in {j \in I : ~ D.entries[j].pending}}

(* Mutant: a removed entry's queued write stays in the queue. *)
remove_entries_keeps_queue(D, I) ==
  [D EXCEPT
    !.entries = Without(@, I),
    !.total_bytes = Less(@, Bytes(D, I)),
    !.pending_bytes = Less(@, Bytes(D, {i \in I : D.entries[i].pending})),
    !.files = [n \in Names |-> IF n \in unlinked(D, I) THEN None ELSE D.files[n]],
    !.stable = [n \in Names |-> D.stable[n] \cup (IF n \in unlinked(D, I) THEN {None} ELSE {})],
    !.notified = TRUE]

(* Where the queue names one of the entries I. *)
queued(D, I) ==
  {q \in DOMAIN D.queue : \E i \in I : D.queue[q] = D.entries[i].id}

(* Mutant: nobody is told that an entry left. *)
remove_entries_silently(D, I) ==
  [remove_entries_keeps_queue(D, I) EXCEPT
     !.queue = Without(@, queued(D, I)), !.notified = D.notified]

(* remove_entry for every position in I: queued entries leave the queue    *)
(* (a write in progress will find its entry gone), the others their file.  *)
(* The unlink is not synced, so the file may be back after a crash. *)
remove_entries(D, I) ==
  [D EXCEPT
    !.entries = Without(@, I),
    !.queue = Without(@, queued(D, I)),
    !.total_bytes = Less(@, Bytes(D, I)),
    !.pending_bytes = Less(@, Bytes(D, {i \in I : D.entries[i].pending})),
    !.files = [n \in Names |-> IF n \in unlinked(D, I) THEN None ELSE D.files[n]],
    !.stable = [n \in Names |-> D.stable[n] \cup (IF n \in unlinked(D, I) THEN {None} ELSE {})],
    !.notified = @ \/ I # {}]

expire_locked(D) == remove_entries(D, {i \in Positions(D) : expired(D, i)})

(* The configured budget, or what the filesystem has when that is less. *)
budget_locked(D, room) ==
  LET limit == Less(D.total_bytes, D.pending_bytes) + room
  IN  IF limit < BudgetBytes THEN limit ELSE BudgetBytes

(* Positions of the k least recently used entries, the first of equals     *)
(* first. *)
LeastUsed(D, k) ==
  {i \in Positions(D) :
     Cardinality({j \in Positions(D) :
        \/ D.entries[j].last_used < D.entries[i].last_used
        \/ D.entries[j].last_used = D.entries[i].last_used /\ j < i}) < k}

make_room_locked(D, incoming, room) ==
  LET fits(k) == k = Len(D.entries)
                 \/ Less(D.total_bytes, Bytes(D, LeastUsed(D, k))) + incoming
                      <= budget_locked(D, room)
  IN  remove_entries(D, LeastUsed(D, Min({k \in 0 .. Len(D.entries) : fits(k)})))

(* Rewrites last_used in a file; not synced. *)
stamp(D, n, used) ==
  IF D.files[n] = None THEN D
  ELSE LET f == [D.files[n] EXCEPT !.used = used]
       IN  [D EXCEPT !.files[n] = f, !.stable[n] = @ \cup {f}]

touch_locked(D, i) ==
  LET E == [D EXCEPT !.entries[i].last_used = now]
  IN  IF D.entries[i].pending THEN E ELSE stamp(E, Hash[D.entries[i].key], now)
-----------------------------------------------------------------------------
(* Saving.                                                                 *)

backpressure(D, k) ==
  D.pending_bytes > 0 /\ D.pending_bytes + Size[k] > MaxPendingBytes

indexed(D, k) ==
  [D EXCEPT
    !.entries = Append(@, [id |-> next_entry_id, key |-> k,
                           last_used |-> now, pending |-> TRUE]),
    !.queue = Append(@, next_entry_id),
    !.total_bytes = @ + Size[k],
    !.pending_bytes = @ + Size[k]]

(* A notification wakes every thread asleep on done_cv_. *)
settle(D) == [D EXCEPT !.notified = FALSE]
woken(D) ==
  [o \in Owners |-> IF D.notified THEN [caller[o] EXCEPT !.awake = caller[o].pc # "idle"]
                    ELSE caller[o]]

(* save_async after the backpressure wait: expire, reuse an entry of the   *)
(* same hash, refuse what can never fit, make room, index and queue. *)
save_queue(o, k) ==
  LET D == expire_locked(disk)
      returns(E) == /\ disk' = settle(E)
                    /\ caller' = [woken(E) EXCEPT ![o] = Idle]
  IN  \/ /\ find_entry(D, Hash[k]) # {}
         /\ returns(touch_locked(D, Min(find_entry(D, Hash[k]))))
         /\ UNCHANGED next_entry_id
      \/ \E room \in Rooms :
           /\ find_entry(D, Hash[k]) = {}
           /\ Size[k] > budget_locked(D, room)
           /\ returns(D)
           /\ UNCHANGED next_entry_id
      \/ \E room, left \in Rooms :
           /\ find_entry(D, Hash[k]) = {}
           /\ Size[k] <= budget_locked(D, room)
           /\ returns(indexed(make_room_locked(D, Size[k], left), k))
           /\ next_entry_id' = next_entry_id + 1

save_async(o, k) ==
  /\ up /\ mu_free /\ caller[o].pc = "idle" /\ Owner[k] = o
  /\ next_entry_id <= MaxId
  /\ \/ /\ ~ backpressure(disk, k)
        /\ save_queue(o, k)
     \/ /\ backpressure(disk, k)
        /\ caller' = [caller EXCEPT ![o] = [pc |-> "saving", key |-> k, awake |-> FALSE]]
        /\ UNCHANGED <<disk, next_entry_id>>
  /\ UNCHANGED <<writer, abort_write, loader, now, up, env>>

save_async_wakes(o) ==
  /\ up /\ mu_free /\ caller[o].pc = "saving" /\ caller[o].awake
  /\ \/ /\ ~ backpressure(disk, caller[o].key)
        /\ save_queue(o, caller[o].key)
     \/ /\ backpressure(disk, caller[o].key)
        /\ caller' = [caller EXCEPT ![o].awake = FALSE]
        /\ UNCHANGED <<disk, next_entry_id>>
  /\ UNCHANGED <<writer, abort_write, loader, now, up, env>>

(* save(checkpoint): what is already indexed is only touched; otherwise a  *)
(* copy goes through save_async. *)
save(o, k) ==
  /\ up /\ mu_free /\ caller[o].pc = "idle" /\ Owner[k] = o
  /\ find_entry(disk, Hash[k]) # {}
  /\ disk' = touch_locked(disk, Min(find_entry(disk, Hash[k])))
  /\ UNCHANGED <<next_entry_id, writer, abort_write, caller, loader, now, up, env>>

(* prune_ancestors(tokens = k, keep_max): a deeper state supersedes the    *)
(* older ones; the shared head, or failing that the shallowest, stays. *)

superseded(D, k, keep_max) ==
  LET older == {i \in Positions(D) :
                  \E a \in Ancestors[k] : /\ Hash[a] = Hash[D.entries[i].key]
                                          /\ Depth[a] = Depth[D.entries[i].key]}
      depth(i) == Depth[D.entries[i].key]
      shallowest == {i \in older : /\ depth(i) > keep_max
                                   /\ \A j \in older : depth(j) > keep_max =>
                                        depth(i) < depth(j) \/ (depth(i) = depth(j) /\ i <= j)}
  IN  {i \in older : depth(i) > keep_max}
        \ (IF \E i \in older : depth(i) <= keep_max THEN {} ELSE shallowest)

prune_ancestors(o, k, keep_max) ==
  /\ up /\ mu_free /\ caller[o].pc = "idle" /\ Owner[k] = o
  /\ LET D == remove_entries(disk, superseded(disk, k, keep_max))
     IN  /\ superseded(disk, k, keep_max) # {}
         /\ disk' = settle(D)
         /\ caller' = woken(D)
  /\ UNCHANGED <<next_entry_id, writer, abort_write, loader, now, up, env>>
-----------------------------------------------------------------------------
(* Draining: wait for one owner's queued writes, with or without a limit.  *)

mine(D, o, id) == \E i \in find_entry_id(D, id) : Owner[D.entries[i].key] = o

idle(D, o) ==
  /\ \A i \in DOMAIN D.queue : ~ mine(D, o, D.queue[i])
  /\ writer.job.id = 0 \/ ~ mine(D, o, writer.job.id)

drain(o) ==
  /\ up /\ mu_free /\ caller[o].pc = "idle" /\ ~ idle(disk, o)
  /\ caller' = [caller EXCEPT ![o] = [pc |-> "draining", key |-> None, awake |-> FALSE]]
  /\ UNCHANGED <<disk, next_entry_id, writer, abort_write, loader, now, up, env>>

drain_wakes(o) ==
  /\ up /\ mu_free /\ caller[o].pc \in {"draining", "cancelled"} /\ caller[o].awake
  /\ caller' = [caller EXCEPT ![o] = IF idle(disk, o) THEN Idle ELSE [@ EXCEPT !.awake = FALSE]]
  /\ UNCHANGED <<disk, next_entry_id, writer, abort_write, loader, now, up, env>>

(* The time limit: queued writes are dropped, the one in progress is told  *)
(* to stop, and the wait goes on until the writer has noticed.             *)
drain_limit(o) ==
  /\ up /\ mu_free /\ caller[o].pc = "draining"
  /\ LET waiting == {i \in Positions(disk) : /\ Owner[disk.entries[i].key] = o
                                             /\ Contains(disk.queue, disk.entries[i].id)}
         D == remove_entries(disk, waiting)
         mid == writer.job.id # 0 /\ mine(disk, o, writer.job.id)
     IN  /\ disk' = settle(D)
         /\ abort_write' = (abort_write \/ mid)
         /\ caller' = [woken(D) EXCEPT ![o] =
                         IF idle(D, o) THEN Idle
                         ELSE [pc |-> "cancelled", key |-> None, awake |-> FALSE]]
  /\ UNCHANGED <<next_entry_id, writer, loader, now, up, env>>
-----------------------------------------------------------------------------
(* Loading: the entry is looked up under the lock, the snapshot copied or  *)
(* the file read without it, and the entry touched or removed under it.    *)

load(o, k) ==
  /\ up /\ mu_free /\ loader[o].pc = "idle" /\ Owner[k] = o
  /\ find_entry(disk, Hash[k]) # {}
  /\ LET i == Min(find_entry(disk, Hash[k]))
         D == remove_entries(disk, {i})
     IN  IF expired(disk, i)
         THEN /\ disk' = settle(D)
              /\ caller' = woken(D)
              /\ UNCHANGED loader
         ELSE /\ loader' = [loader EXCEPT ![o] =
                   [pc |-> "reading", key |-> k, id |-> disk.entries[i].id,
                    from_memory |-> disk.entries[i].pending,
                    out |-> IF disk.entries[i].pending THEN disk.entries[i].key ELSE None]]
              /\ UNCHANGED <<disk, caller>>
  /\ UNCHANGED <<next_entry_id, writer, abort_write, now, up, env>>

(* Mutant: the checksum is not verified. *)
read_file_unverified(f, k) ==
  IF f = None THEN None ELSE IF f.key # k \/ f.bytes = "short" THEN None
  ELSE IF f.bytes = "whole" THEN k ELSE "damage"

(* The snapshot in a file, or nothing: whole (checksum), and of exactly    *)
(* this key. *)
read_file(f, k) == IF f # None /\ f.key = k /\ f.bytes = "whole" THEN k ELSE None

load_reads(o) ==
  LET l == loader[o]
  IN  /\ up /\ l.pc = "reading"
      /\ loader' = [loader EXCEPT ![o] =
                      IF l.from_memory
                      THEN IF l.out = l.key THEN [l EXCEPT !.pc = "read"] ELSE NotLoading
                      ELSE [l EXCEPT !.pc = "read",
                              !.out = read_file(disk.files[Hash[l.key]], l.key)]]
      /\ UNCHANGED <<disk, next_entry_id, writer, abort_write, caller, now, up, env>>

load_returns(o) ==
  LET l == loader[o]
      found == find_entry_id(disk, l.id)
      bad == {i \in found : l.out = None /\ ~ disk.entries[i].pending}
      D == IF l.out # None /\ found # {} THEN touch_locked(disk, Min(found))
           ELSE remove_entries(disk, bad)
  IN  /\ up /\ mu_free /\ l.pc = "read"
      /\ disk' = settle(D)
      /\ caller' = woken(D)
      /\ loader' = [loader EXCEPT ![o] = IF l.out = None THEN NotLoading
                                         ELSE [l EXCEPT !.pc = "loaded"]]
      /\ UNCHANGED <<next_entry_id, writer, abort_write, now, up, env>>

(* The caller takes the snapshot. *)
adopt(o) ==
  /\ up /\ loader[o].pc = "loaded"
  /\ loader' = [loader EXCEPT ![o] = NotLoading]
  /\ UNCHANGED <<disk, next_entry_id, writer, abort_write, caller, now, up, env>>
-----------------------------------------------------------------------------
(* The writer thread.                                                      *)

writer_takes ==
  /\ up /\ writer.pc = "idle" /\ disk.queue # <<>>
  /\ LET id == Head(disk.queue)
         at == {i \in find_entry_id(disk, id) : disk.entries[i].pending}
     IN  /\ disk' = [disk EXCEPT !.queue = Tail(@)]
         /\ IF at = {} THEN UNCHANGED <<writer, abort_write>>
            ELSE /\ writer' = [pc |-> "opening",
                               job |-> [id |-> id, key |-> disk.entries[Min(at)].key,
                                        last_used |-> disk.entries[Min(at)].last_used]]
                 /\ abort_write' = FALSE
  /\ UNCHANGED <<next_entry_id, caller, loader, now, up, env>>

job_name == Hash[writer.job.key]

write_file_begins ==
  /\ up /\ writer.pc = "opening"
  /\ writer' = [writer EXCEPT !.pc = "writing"]
  /\ disk' = [disk EXCEPT
                !.tmp[job_name] = File(writer.job.key, writer.job.last_used, "short"),
                !.tmp_stable[job_name] = @ \cup Torn(writer.job.key, writer.job.last_used)]
  /\ UNCHANGED <<next_entry_id, abort_write, caller, loader, now, up, env>>

(* Mutant: the data is not synced before the file is named. *)
write_file_ends_unsynced ==
  /\ up /\ writer.pc = "writing"
  /\ writer' = [writer EXCEPT !.pc = "written"]
  /\ LET f == File(writer.job.key, writer.job.last_used, "whole")
     IN  disk' = [disk EXCEPT !.tmp[job_name] = f, !.tmp_stable[job_name] = @ \cup {f}]
  /\ UNCHANGED <<next_entry_id, abort_write, caller, loader, now, up, env>>

(* All chunks written, flushed and synced (the name is not). *)
write_file_ends ==
  /\ up /\ writer.pc = "writing"
  /\ writer' = [writer EXCEPT !.pc = "written"]
  /\ LET f == File(writer.job.key, writer.job.last_used, "whole")
     IN  disk' = [disk EXCEPT !.tmp[job_name] = f, !.tmp_stable[job_name] = {None, f}]
  /\ UNCHANGED <<next_entry_id, abort_write, caller, loader, now, up, env>>

(* The disk is full, a call fails, or the drain's limit is seen. *)
write_file_fails ==
  /\ up /\ writer.pc \in {"opening", "writing"}
  /\ writer' = [writer EXCEPT !.pc = "failed"]
  /\ UNCHANGED <<disk, next_entry_id, abort_write, caller, loader, now, up, env>>

(* Mutant: the entry may have left the index meanwhile. *)
writer_renames_blindly ==
  /\ up /\ writer.pc = "written" /\ ~ abort_write
  /\ writer' = [writer EXCEPT !.pc = "renamed"]
  /\ disk' = [disk EXCEPT
                !.files[job_name] = disk.tmp[job_name],
                !.stable[job_name] = @ \cup (disk.tmp_stable[job_name] \ {None}),
                !.tmp[job_name] = None]
  /\ UNCHANGED <<next_entry_id, abort_write, caller, loader, now, up, env>>

writer_renames ==
  /\ up /\ writer.pc = "written" /\ ~ abort_write
  /\ find_entry_id(disk, writer.job.id) # {}
  /\ writer' = [writer EXCEPT !.pc = "renamed"]
  /\ disk' = [disk EXCEPT
                !.files[job_name] = disk.tmp[job_name],
                !.stable[job_name] = @ \cup (disk.tmp_stable[job_name] \ {None}),
                !.tmp[job_name] = None]
  /\ UNCHANGED <<next_entry_id, abort_write, caller, loader, now, up, env>>

(* fsync of the directory makes its names durable: the removals, and the   *)
(* rename with whatever of the data had been synced. *)
sync_directory(D, n) ==
  LET synced == {m \in Names : dir_of(m) = dir_of(n)}
  IN  [D EXCEPT
        !.stable = [m \in Names |-> IF m = n THEN D.tmp_stable[n] \ {None}
                                    ELSE IF m \in synced /\ D.files[m] = None THEN {None}
                                    ELSE D.stable[m]],
        !.tmp_stable = [m \in Names |-> IF m \in synced THEN {None} ELSE D.tmp_stable[m]]]

(* Durable: record a use that came meanwhile, the entry is on disk now. *)
writer_publishes ==
  /\ up /\ writer.pc = "renamed"
  /\ LET at == find_entry_id(disk, writer.job.id)
         used == {disk.entries[i].last_used : i \in at} \ {writer.job.last_used}
         D == sync_directory(disk, job_name)
         E == [(IF used # {} THEN stamp(D, job_name, Max(used)) ELSE D) EXCEPT
                 !.pending_bytes = Less(@, Bytes(disk, at)),
                 !.entries = [i \in Positions(D) |->
                                [D.entries[i] EXCEPT !.pending = @ /\ i \notin at]],
                 !.notified = TRUE]
     IN  disk' = settle(E) /\ caller' = woken(E)
  /\ writer' = [pc |-> "idle", job |-> NoJob]
  /\ UNCHANGED <<next_entry_id, abort_write, loader, now, up, env>>

(* The write failed, was told to stop, its entry left, or the rename       *)
(* fails: the temporary file goes, and the entry if it is still there. *)
writer_discards ==
  /\ up /\ writer.pc \in {"written", "failed"}
  /\ LET D == [remove_entries(disk, find_entry_id(disk, writer.job.id)) EXCEPT
                 !.tmp[job_name] = None,
                 !.tmp_stable[job_name] = @ \cup {None},
                 !.notified = TRUE]
     IN  disk' = settle(D) /\ caller' = woken(D)
  /\ writer' = [pc |-> "idle", job |-> NoJob]
  /\ UNCHANGED <<next_entry_id, abort_write, loader, now, up, env>>
-----------------------------------------------------------------------------
(* The process: start, stop, crash.                                        *)

Closed(D) == [D EXCEPT !.entries = <<>>, !.queue = <<>>, !.total_bytes = 0,
                       !.pending_bytes = 0, !.notified = FALSE]

Down ==
  /\ up' = FALSE
  /\ next_entry_id' = 1
  /\ writer' = [pc |-> "idle", job |-> NoJob]
  /\ abort_write' = FALSE
  /\ caller' = [o \in Owners |-> Idle]
  /\ loader' = [o \in Owners |-> NotLoading]

(* ~DiskStore: every queued write is finished first. *)
close ==
  /\ up /\ writer.pc = "idle" /\ disk.queue = <<>>
  /\ \A o \in Owners : caller[o].pc = "idle" /\ loader[o].pc = "idle"
  /\ disk' = Closed(disk)
  /\ Down
  /\ UNCHANGED <<now, env>>

Happens(rotten) ==
  /\ env.events < MaxEvents
  /\ env' = [events |-> env.events + 1, rotted |-> env.rotted \/ rotten]

(* External: the machine stops; each name keeps one of the contents it may *)
(* have on the medium. *)
crash ==
  /\ up /\ Happens(FALSE)
  /\ \E f \in [Names -> UNION {disk.stable[n] : n \in Names}],
        t \in [Names -> UNION {disk.tmp_stable[n] : n \in Names}] :
       /\ \A n \in Names : f[n] \in disk.stable[n] /\ t[n] \in disk.tmp_stable[n]
       /\ disk' = [Closed(disk) EXCEPT
                     !.files = f, !.stable = [n \in Names |-> {f[n]}],
                     !.tmp = t, !.tmp_stable = [n \in Names |-> {t[n]}]]
  /\ Down
  /\ UNCHANGED now

(* scan_all: temporaries and files that do not validate are removed; what  *)
(* is left is indexed in the order the directory lists it. *)
validate_snapshot_file(f) == f # None /\ f.bytes # "short"

valid(D) == {n \in Names : validate_snapshot_file(D.files[n])}

scan_all(D, listed) ==
  [D EXCEPT
    !.entries = [i \in DOMAIN listed |->
                   [id |-> i, key |-> D.files[listed[i]].key,
                    last_used |-> D.files[listed[i]].used, pending |-> FALSE]],
    !.total_bytes = Total([n \in valid(D) |-> Size[D.files[n].key]], valid(D)),
    !.files = [n \in Names |-> IF n \in valid(D) THEN D.files[n] ELSE None],
    !.stable = [n \in Names |-> D.stable[n] \cup (IF n \in valid(D) THEN {} ELSE {None})],
    !.tmp = [n \in Names |-> None],
    !.tmp_stable = [n \in Names |-> D.tmp_stable[n] \cup {None}]]

open ==
  /\ ~ up
  /\ up' = TRUE
  /\ \E listed \in SetToSeqs(valid(disk)), room \in Rooms :
       LET D == scan_all(disk, listed)
       IN  /\ disk' = settle(make_room_locked(expire_locked(D), 0, room))
           /\ next_entry_id' = 1 + Len(D.entries)
  /\ UNCHANGED <<writer, abort_write, caller, loader, now, env>>

(* External: the medium damages a file that was written whole. *)
rots(n) ==
  /\ Happens(TRUE)
  /\ mu_free
  /\ disk.files[n] # None /\ disk.files[n].bytes = "whole"
  /\ disk' = [disk EXCEPT !.files[n].bytes = "damaged",
                          !.stable[n] = {IF f = None THEN None ELSE [f EXCEPT !.bytes = "damaged"] :
                                           f \in @}]
  /\ UNCHANGED <<next_entry_id, writer, abort_write, caller, loader, now, up>>

(* The clock, in behaviours without a crash or damage: that is the bound. *)
tick ==
  /\ env.events = 0 /\ env' = [env EXCEPT !.events = MaxEvents]
  /\ now < MaxTime /\ now' = MaxTime
  /\ UNCHANGED <<disk, next_entry_id, writer, abort_write, caller, loader, up>>

Init ==
  /\ disk = [entries |-> <<>>, queue |-> <<>>, total_bytes |-> 0, pending_bytes |-> 0,
             files |-> [n \in Names |-> None], stable |-> [n \in Names |-> {None}],
             tmp |-> [n \in Names |-> None], tmp_stable |-> [n \in Names |-> {None}],
             notified |-> FALSE]
  /\ next_entry_id = 1
  /\ writer = [pc |-> "idle", job |-> NoJob]
  /\ abort_write = FALSE
  /\ caller = [o \in Owners |-> Idle]
  /\ loader = [o \in Owners |-> NotLoading]
  /\ now = 0
  /\ up = FALSE
  /\ env = [events |-> 0, rotted |-> FALSE]

WriterNext ==
  \/ writer_takes \/ write_file_begins \/ write_file_ends \/ write_file_fails
  \/ writer_renames \/ writer_publishes \/ writer_discards

CallerNext(o) ==
  \/ \E k \in Keys : save_async(o, k) \/ save(o, k) \/ load(o, k)
  \/ \E k \in Keys, keep_max \in {0, 1} : prune_ancestors(o, k, keep_max)
  \/ drain(o) \/ drain_limit(o)
  \/ save_async_wakes(o) \/ drain_wakes(o)
  \/ load_reads(o) \/ load_returns(o) \/ adopt(o)

Next ==
  \/ WriterNext
  \/ \E o \in Owners : CallerNext(o)
  \/ open \/ close \/ crash \/ tick
  \/ \E n \in Names : rots(n)

Spec == Init /\ [][Next]_vars
-----------------------------------------------------------------------------
(* What load() hands out is the snapshot of exactly the prompt asked for,  *)
(* whatever was evicted, rewritten, corrupted, torn by a crash or hashed   *)
(* to the same name between its lookup and its read. *)
RestoreIsExact ==
  \A o \in Owners : /\ loader[o].pc = "loaded" => loader[o].out = loader[o].key
                    /\ loader[o].pc = "read" => loader[o].out \in {loader[o].key, None}

(* The index and the directory agree: a file is there exactly when an      *)
(* entry says it is on disk, so no file escapes the budget and no hit      *)
(* names a missing file, although the writer works without the lock. *)
IndexMatchesFiles ==
  up /\ mu_free =>
    {n \in Names : disk.files[n] # None}
      = {Hash[disk.entries[i].key] : i \in {j \in Positions(disk) : ~ disk.entries[j].pending}}

(* A write the writer has reported done survives a crash: no outcome of a  *)
(* crash loses, tears or replaces it (unless the medium damaged it). *)
PublishedSurvives ==
  up /\ ~ env.rotted =>
    \A i \in Positions(disk) :
      LET e == disk.entries[i]
      IN  ~ e.pending => \A f \in disk.stable[Hash[e.key]] :
            f # None /\ f.key = e.key /\ f.bytes = "whole"

(* Every snapshot that waits for the writer will meet it: it is queued     *)
(* once, or is the one being written, and nothing else is queued. *)
PendingIsQueued ==
  LET waiting == {disk.entries[i].id : i \in {j \in Positions(disk) : disk.entries[j].pending}}
  IN  /\ IsInjective(disk.queue)
      /\ ToSet(disk.queue) = waiting \ {writer.job.id}

(* The byte counts are what the index holds, through every eviction,       *)
(* cancellation and failed write, and never exceed the configured budget. *)
BudgetHeld ==
  /\ disk.total_bytes = Bytes(disk, Positions(disk))
  /\ disk.pending_bytes = Bytes(disk, {i \in Positions(disk) : disk.entries[i].pending})
  /\ disk.total_bytes <= BudgetBytes

(* What the process believes of its directory is exact, in all four ways. *)
IndexExact ==
  /\ IndexMatchesFiles /\ PendingIsQueued /\ BudgetHeld
  /\ up /\ writer.pc = "idle" => \A n \in Names : disk.tmp[n] = None

(* No wake-up is lost: a thread asleep on done_cv_ still has something to  *)
(* wait for, so that a save held back by the writer and a drain both end   *)
(* with the last write they wait for, whoever removed or finished it. *)
NoWakeupLost ==
  \A o \in Owners : up /\ mu_free /\ caller[o].pc # "idle" /\ ~ caller[o].awake =>
    IF caller[o].pc = "saving" THEN backpressure(disk, caller[o].key) ELSE ~ idle(disk, o)
-----------------------------------------------------------------------------
(* The inductive invariant, of a store D whose writer is w, with n the id  *)
(* the next entry gets.                                                    *)

Entry == [id : Nat \ {0}, key : Keys, last_used : Nat, pending : BOOLEAN]
Contents == FileRecords \cup {None}
Store ==
  [entries : Seq(Entry), queue : Seq(Nat), total_bytes : Nat, pending_bytes : Nat,
   files : [Names -> Contents], stable : [Names -> SUBSET Contents],
   tmp : [Names -> Contents], tmp_stable : [Names -> SUBSET Contents], notified : BOOLEAN]

Held(D) == {D.entries[i] : i \in Positions(D)}
Unwritten(D) == {e \in Held(D) : e.pending}

(* No two entries share an id or a file. *)
Distinct(D) ==
  \A i, j \in Positions(D) :
    D.entries[i].id = D.entries[j].id \/ Hash[D.entries[i].key] = Hash[D.entries[j].key] => i = j

Queued(D, w) ==
  /\ IsInjective(D.queue)
  /\ ToSet(D.queue) = {e.id : e \in Unwritten(D)} \ {w.job.id}

Counted(D) ==
  /\ D.total_bytes = Bytes(D, Positions(D))
  /\ D.pending_bytes = Bytes(D, {i \in Positions(D) : D.entries[i].pending})

(* The entry of the write in progress, while the index still has it, waits *)
(* for it; between the rename and the publication the index has it. *)
Written(D, w) ==
  /\ \A e \in Held(D) : e.id = w.job.id => e.pending /\ e.key = w.job.key
  /\ w.pc = "renamed" => \E e \in Held(D) : e.id = w.job.id

Indexed(D, w, n) ==
  /\ D \in Store /\ Distinct(D)
  /\ \A e \in Held(D) : e.id < n
  /\ Queued(D, w) /\ Counted(D) /\ Written(D, w)

(* Files lie under the hash of their key.  What the directory shows, save  *)
(* a rename not yet synced, every crash outcome shows too. *)
Stored(D, w) ==
  \A m \in Names :
    /\ \A f \in D.stable[m] \cup {D.files[m]} : f # None => Hash[f.key] = m
    /\ D.files[m] # None /\ ~ (w.pc = "renamed" /\ m = Hash[w.job.key]) =>
         \A g \in D.stable[m] : g # None /\ g.key = D.files[m].key

Whole(D) ==
  \A m \in Names : \A f \in D.stable[m] \cup {D.files[m]} : f # None => f.bytes = "whole"

(* While the process runs: the directory holds the files of the entries on *)
(* disk and the writer's, and only the writer has a temporary file. *)
Shown(D, w) ==
  \A m \in Names :
    D.files[m] # None <=> \/ \E e \in Held(D) : ~ e.pending /\ Hash[e.key] = m
                          \/ w.pc = "renamed" /\ m = Hash[w.job.key]

Tracked(D, w) ==
  /\ Shown(D, w)
  /\ \A e \in Held(D) : ~ e.pending => D.files[Hash[e.key]].key = e.key
  /\ w.pc = "renamed" => D.files[Hash[w.job.key]].key = w.job.key
  /\ \A m \in Names : D.tmp[m] # None =>
       m = Hash[w.job.key] /\ w.pc \in {"writing", "written", "failed"}
  /\ w.pc = "written" => D.tmp[Hash[w.job.key]] = File(w.job.key, w.job.last_used, "whole")
  /\ w.pc \in {"written", "renamed"} =>
       \A g \in D.tmp_stable[Hash[w.job.key]] :
         g # None => g.key = w.job.key /\ g.bytes = "whole"

Consistent(D, w, n) ==
  /\ Indexed(D, w, n) /\ Stored(D, w)
  /\ ~ env.rotted => Whole(D)
  /\ up => Tracked(D, w)

Writers(n) ==
  {[pc |-> "idle", job |-> NoJob]}
    \cup [pc : {"opening", "writing", "written", "failed", "renamed"},
          job : [id : 1 .. n - 1, key : Keys, last_used : Nat]]

Callers ==
  [pc : {"idle", "draining", "cancelled"}, key : {None}, awake : BOOLEAN]
    \cup [pc : {"saving"}, key : Keys, awake : BOOLEAN]

Loaders ==
  {NotLoading}
    \cup [pc : {"reading", "read", "loaded"}, key : Keys, id : Nat, from_memory : BOOLEAN,
          out : Keys \cup {None}]

ThreadsOK ==
  /\ next_entry_id \in Nat \ {0} /\ now \in Nat /\ up \in BOOLEAN
  /\ env \in [events : Nat, rotted : BOOLEAN]
  /\ writer \in Writers(next_entry_id)
  /\ caller \in [Owners -> Callers] /\ loader \in [Owners -> Loaders]
  /\ ~ up => /\ writer.pc = "idle" /\ disk.entries = <<>>
             /\ \A o \in Owners : caller[o] = Idle /\ loader[o] = NotLoading

StoreInv ==
  /\ ThreadsOK
  /\ Consistent(disk, writer, next_entry_id)
  /\ ~ disk.notified /\ disk.total_bytes <= BudgetBytes
  /\ RestoreIsExact /\ NoWakeupLost
=============================================================================
