------------------------------- MODULE DiskRead -------------------------------
(***************************************************************************)
(* The disk read that concurrent admission waits for: KvCache::plan and    *)
(* its drop_read, reap_reads and join_reads                                *)
(* (server/src/server/kv/kv_cache.cpp), inside the scheduler's admission   *)
(* loop (server/src/server/scheduler.cpp).  The request at the head of the *)
(* line whose prompt has a deeper state on disk than in RAM starts a       *)
(* reader thread and is deferred until the thread is done; meanwhile       *)
(* clients leave, live requests capture and evict, and the disk tier drops *)
(* entries.                                                                *)
(*                                                                         *)
(* A read belongs to a job by the job's ADDRESS.  Jobs live on the stacks  *)
(* of client threads, so a later request may have the address of one that  *)
(* left.  RAM and disk entries are named by their token sequence, which is *)
(* also what a snapshot holds.                                             *)
(***************************************************************************)
EXTENDS Integers, FiniteSetsExt, SequencesExt, Functions

CONSTANTS
  Requests,        \* requests
  Prompt,          \* [Requests -> token sequence]; an empty one is refused
  Fixed,           \* [Requests -> the lengths their disk policy allows]
  Addresses,       \* where a ServerJob may live
  Slots,           \* n_slots
  States,          \* token sequences that may be in RAM or on disk
  MaxChanges,      \* bound: captures, evictions and dropped disk entries
  Absent

ASSUME ReadAssumption ==
  /\ Slots \in Nat \ {0} /\ MaxChanges \in Nat
  /\ Absent \notin Requests \cup Addresses \cup [owner : Addresses, reader : Nat]
  /\ \A r \in Requests : Prompt[r] \in Seq(Nat) /\ Prompt[r] # <<>>
  /\ States \subseteq Seq(Nat)

VARIABLES
  pc,              \* the scheduler: "top", "admit", "stop", "exited"
  queue,           \* waiting requests
  deferred,        \* the head of the line that must be retried
  live,            \* requests in a slot
  address,         \* [Requests -> where its job lives now]
  gone,            \* clients that disconnected
  over,            \* requests that were finished
  stopping_,
  ram,             \* RAM checkpoints (the prefix index)
  disk_keys,       \* what the disk index lists
  read_,           \* the read in flight: owner address and reader, or Absent
  finished_reads_, \* readers of dropped reads, to be joined
  readers,         \* [threads not joined -> key, state and result]
  restored,        \* [Requests -> what its sequence was restored from]
  changes          \* (model only)

lineVars == <<queue, deferred, live, address, gone, over, stopping_>>
storeVars == <<ram, disk_keys, changes>>
readVars == <<read_, finished_reads_, readers>>
diskReadVars == <<pc, lineVars, storeVars, readVars, restored>>

Empty == <<>>
ReadInit ==
  /\ pc = "top"
  /\ queue = <<>> /\ deferred = Absent /\ live = {} /\ gone = {} /\ over = {} /\ stopping_ = FALSE
  /\ address = [r \in Requests |-> Absent]
  /\ ram = {} /\ disk_keys \in SUBSET States /\ changes = 0
  /\ read_ = Absent /\ finished_reads_ = {} /\ readers = <<>>
  /\ restored = [r \in Requests |-> Empty]

------------------------------------------------------------------------------
(* Clients, and the stores beneath the cache. *)

FreeAddress(a) == \A r \in Requests : address[r] # a

(* A client thread parses a request into a job on its stack.  Each request *)
(* comes once. *)
Arrive(r, a) ==
  /\ ~stopping_ /\ address[r] = Absent /\ r \notin over /\ FreeAddress(a)
  /\ address' = [address EXCEPT ![r] = a]
  /\ queue' = Append(queue, r)
  /\ UNCHANGED <<pc, deferred, live, gone, over, stopping_, storeVars, readVars, restored>>

Disconnect(r) ==
  /\ address[r] # Absent /\ r \notin gone
  /\ gone' = gone \cup {r}
  /\ UNCHANGED <<pc, queue, deferred, live, address, over, stopping_, storeVars, readVars, restored>>

Stop ==
  /\ ~stopping_ /\ stopping_' = TRUE
  /\ UNCHANGED <<pc, queue, deferred, live, address, gone, over, storeVars, readVars, restored>>

(* A live request captures a checkpoint, one is evicted to disk, the disk  *)
(* tier gives an entry up. *)
StoreChange ==
  /\ changes < MaxChanges /\ changes' = changes + 1
  /\ \/ \E k \in States : live # {} /\ ram' = ram \cup {k} /\ UNCHANGED disk_keys
     \/ \E k \in ram : ram' = ram \ {k} /\ disk_keys' = disk_keys \cup {k}
     \/ \E k \in disk_keys : disk_keys' = disk_keys \ {k} /\ UNCHANGED ram
  /\ UNCHANGED <<pc, lineVars, readVars, restored>>

------------------------------------------------------------------------------
(* The reader thread: load, then publish that it is done. *)

reader_finish(i) ==
  /\ readers[i].state = "reading"
  /\ \E snap \in {Empty} \cup ({readers[i].key} \cap disk_keys) :
       readers' = [readers EXCEPT ![i].state = "done", ![i].snap = snap]
  /\ UNCHANGED <<pc, lineVars, storeVars, read_, finished_reads_, restored>>

Started(i, reader) ==
  [j \in DOMAIN readers \cup {i} |-> IF j = i THEN reader ELSE readers[j]]
Joined(S) == Restrict(readers, DOMAIN readers \ S)
NewReader == Min(1..(Cardinality(DOMAIN readers) + 1) \ DOMAIN readers)

------------------------------------------------------------------------------
(* KvCache::plan.  The RAM lookup and the disk probe find the longest      *)
(* prefix; only one that leaves a token to prefill can be restored.        *)

Longest(S) == IF S = {} THEN Empty ELSE CHOOSE k \in S : \A o \in S : Len(o) <= Len(k)
RamHit(r) == Longest({k \in ram : IsStrictPrefix(k, Prompt[r])})
Probe(r) == Longest({k \in disk_keys : IsPrefix(k, Prompt[r]) /\ Len(k) \in Fixed[r]})
WantsRead(r) == Len(Probe(r)) > Len(RamHit(r)) /\ Len(Probe(r)) < Len(Prompt[r])

OwnsRead(r) == read_ # Absent /\ read_.owner = address[r]

(* drop_read: the reader is kept until it can be joined. *)
drop_read_losing_thread == read_' = Absent /\ UNCHANGED finished_reads_

drop_read ==
  /\ finished_reads_' = finished_reads_ \cup (IF read_ = Absent THEN {} ELSE {read_.reader})
  /\ read_' = Absent

(* A read is started, or still runs: the request is retried first. *)
plan_loading(r) ==
  /\ WantsRead(r)
  /\ \/ /\ ~OwnsRead(r)
        /\ finished_reads_' = finished_reads_ \cup (IF read_ = Absent THEN {} ELSE {read_.reader})
        /\ readers' = Started(NewReader, [key |-> Probe(r), state |-> "reading", snap |-> Empty])
        /\ read_' = [owner |-> address[r], reader |-> NewReader]
     \/ /\ OwnsRead(r) /\ readers[read_.reader].state = "reading"
        /\ UNCHANGED readVars
  /\ deferred' = r /\ pc' = "top"
  /\ UNCHANGED <<live, address, gone, over, stopping_, storeVars, restored>>

(* The plan is ready: from a read that is done (join it and adopt its      *)
(* snapshot, unless the load or the adoption failed), else from RAM; a     *)
(* read nobody wants any more is dropped. `from' is what will be restored. *)
plan_ready(r, from) ==
  \/ /\ WantsRead(r) /\ OwnsRead(r) /\ readers[read_.reader].state = "done"
     /\ readers' = Joined({read_.reader}) /\ read_' = Absent
     /\ LET snap == readers[read_.reader].snap
        IN  from \in {RamHit(r), snap} /\ (snap = Empty => from = RamHit(r))
     /\ UNCHANGED finished_reads_
  \/ /\ ~WantsRead(r)
     /\ from = RamHit(r)
     /\ drop_read /\ UNCHANGED readers

(* engine.admit_with_prefix after the plan: restores into a slot and frees *)
(* the staging checkpoint; or is busy, which only live requests can make   *)
(* it; or refuses. *)
Finish(r) == address' = [address EXCEPT ![r] = Absent] /\ over' = over \cup {r}

Admit_retrying_unusable(r) ==
  /\ \E from \in {Empty} \cup States :
       /\ plan_ready(r, from)
       /\ IF WantsRead(r) /\ from = RamHit(r)
          THEN deferred' = r /\ pc' = "top" /\ UNCHANGED <<live, address, restored, over>>
          ELSE /\ live' = live \cup {r} /\ restored' = [restored EXCEPT ![r] = from]
               /\ deferred' = Absent /\ UNCHANGED <<pc, address, over>>
  /\ UNCHANGED <<gone, stopping_, storeVars>>

Admit(r) ==
  /\ \E from \in {Empty} \cup States :
       /\ plan_ready(r, from)
       /\ \/ /\ live' = live \cup {r} /\ restored' = [restored EXCEPT ![r] = from]
             /\ deferred' = Absent /\ UNCHANGED <<pc, address, over>>
          \/ /\ live # {} /\ deferred' = r /\ pc' = "top"
             /\ UNCHANGED <<live, address, restored, over>>
          \/ /\ deferred' = Absent /\ Finish(r)
             /\ UNCHANGED <<pc, live, restored>>
  /\ UNCHANGED <<gone, stopping_, storeVars>>

------------------------------------------------------------------------------
(* The scheduler thread. *)

reap_reads ==
  /\ pc = "top" /\ pc' = "admit"
  /\ LET ended == {i \in finished_reads_ : readers[i].state = "done"}
     IN  readers' = Joined(ended) /\ finished_reads_' = finished_reads_ \ ended
  /\ UNCHANGED <<lineVars, storeVars, read_, restored>>

HeadOfLine == IF deferred # Absent THEN deferred ELSE Head(queue)
LineEmpty == deferred = Absent /\ queue = <<>>
Admitting == pc = "admit" /\ ~stopping_ /\ Cardinality(live) < Slots

TakeHead == queue' = IF deferred # Absent THEN queue ELSE Tail(queue)

(* A head whose client left takes its read with it. *)
CandidateGone_keeping_read ==
  /\ Admitting /\ ~LineEmpty /\ HeadOfLine \in gone
  /\ TakeHead /\ deferred' = Absent
  /\ Finish(HeadOfLine)
  /\ UNCHANGED <<pc, live, gone, stopping_, storeVars, readVars, restored>>

CandidateGone ==
  /\ Admitting /\ ~LineEmpty /\ HeadOfLine \in gone
  /\ TakeHead /\ deferred' = Absent
  /\ IF OwnsRead(HeadOfLine) THEN drop_read ELSE UNCHANGED <<read_, finished_reads_>>
  /\ Finish(HeadOfLine)
  /\ UNCHANGED <<pc, live, gone, stopping_, storeVars, readers, restored>>

admit_job ==
  /\ Admitting /\ ~LineEmpty /\ HeadOfLine \notin gone
  /\ TakeHead
  /\ plan_loading(HeadOfLine) \/ Admit(HeadOfLine)

(* Nobody to admit: poll while slots are live or dropped reads must be     *)
(* reaped, else block in dequeue(). *)
no_candidate ==
  /\ pc = "admit" /\ ~stopping_
  /\ Cardinality(live) < Slots => LineEmpty
  /\ live # {} \/ finished_reads_ # {}
  /\ pc' = "top"
  /\ UNCHANGED <<lineVars, storeVars, readVars, restored>>

retire_slot(r) ==
  /\ pc = "top" /\ r \in live
  /\ live' = live \ {r} /\ Finish(r)
  /\ UNCHANGED <<pc, queue, deferred, gone, stopping_, storeVars, readVars, restored>>

(* Shutdown: every reader is joined before a request is answered. *)
end_loop ==
  /\ pc = "admit" /\ stopping_ /\ pc' = "stop"
  /\ UNCHANGED <<lineVars, storeVars, readVars, restored>>

Teardown ==
  /\ pc' = "exited" /\ queue' = <<>> /\ deferred' = Absent /\ live' = {}
  /\ over' = over \cup {r \in Requests : address[r] # Absent}
  /\ address' = [r \in Requests |-> Absent]
  /\ UNCHANGED <<gone, stopping_, storeVars, restored>>

join_reads ==
  /\ pc = "stop"
  /\ LET all == finished_reads_ \cup (IF read_ = Absent THEN {} ELSE {read_.reader})
     IN  (\A i \in all : readers[i].state = "done") /\ readers' = Joined(all)
  /\ read_' = Absent /\ finished_reads_' = {}
  /\ Teardown

Exited == pc = "exited" /\ UNCHANGED diskReadVars

SchedulerThread ==
  \/ reap_reads \/ CandidateGone \/ admit_job \/ no_candidate \/ end_loop \/ join_reads
  \/ \E r \in Requests : retire_slot(r)

ReadNext ==
  \/ SchedulerThread
  \/ \E i \in DOMAIN readers : reader_finish(i)
  \/ \E r \in Requests : Disconnect(r) \/ \E a \in Addresses : Arrive(r, a)
  \/ Stop \/ StoreChange \/ Exited

ReadSpec == ReadInit /\ [][ReadNext]_diskReadVars

(* The scheduler thread runs, every load returns and every admitted        *)
(* request ends; nobody has to connect, leave or stop the server. *)
FairSpec ==
  /\ ReadSpec
  /\ WF_diskReadVars(SchedulerThread)
  /\ \A r \in Requests : SF_diskReadVars(retire_slot(r))
  /\ \A i \in 1..(Cardinality(Requests) + MaxChanges + 1) :
       WF_diskReadVars(i \in DOMAIN readers /\ reader_finish(i))

------------------------------------------------------------------------------

(* What a request's sequence is restored from is a state of its own        *)
(* prompt, whatever read was in flight for a request that had its address  *)
(* before it (plan's owner test and the drop when a head leaves). *)
RestoresOwnPrefix ==
  \A r \in Requests : IsStrictPrefix(restored[r], Prompt[r])

(* No reader thread is abandoned: each thread that was not joined is held  *)
(* by read_ or by finished_reads_, by one of them, until the scheduler     *)
(* exits; then none is left.  Destroying a joinable std::thread ends the   *)
(* process, and one left running would use the disk tier after it. *)
ReadersHeld ==
  /\ DOMAIN readers = finished_reads_ \cup (IF read_ = Absent THEN {} ELSE {read_.reader})
  /\ read_ # Absent => read_.reader \notin finished_reads_
  /\ pc = "exited" => DOMAIN readers = {}

(* The request at the head of the line is admitted or finished in the end: *)
(* it is never retried forever on a read that does not come back, that     *)
(* failed, or that was started again and again. *)
HeadGetsOn == \A r \in Requests : deferred = r ~> r \in live \cup over

------------------------------------------------------------------------------
(* What makes the invariants above inductive.                               *)

Reader == [key : States, state : {"reading", "done"}, snap : States \cup {Empty}]

(* Every variable has its type. *)
ReadTypeOK ==
  /\ queue \in Seq(Requests) /\ deferred \in Requests \cup {Absent}
  /\ live \subseteq Requests /\ address \in [Requests -> Addresses \cup {Absent}]
  /\ ram \subseteq States /\ disk_keys \subseteq States
  /\ read_ \in [owner : Addresses, reader : Nat] \cup {Absent}
  /\ finished_reads_ \subseteq Nat /\ DOMAIN readers \subseteq Nat
  /\ IsFiniteSet(DOMAIN readers) /\ restored \in [Requests -> Seq(Nat)]

(* Whoever waits or is served has one place, and a job at an address. *)
Unfinished == ToSet(queue) \cup live \cup ({deferred} \ {Absent})

LineDistinct ==
  /\ IsInjective(queue)
  /\ deferred \notin ToSet(queue) \cup live /\ ToSet(queue) \cap live = {}
  /\ \A r \in Unfinished : address[r] # Absent

(* A reader loads what it was started for, or nothing. *)
ReadersTyped ==
  \A i \in DOMAIN readers :
    /\ readers[i] \in Reader
    /\ readers[i].snap \in {Empty, readers[i].key}

(* The read in flight is the head's: the address it was started for still  *)
(* is that of the request it was started for, which waits. *)
ReadIsTheHeads ==
  read_ # Absent =>
    /\ deferred # Absent /\ read_.owner = address[deferred]
    /\ IsStrictPrefix(readers[read_.reader].key, Prompt[deferred])

ReadInv ==
  /\ ReadTypeOK /\ LineDistinct /\ ReadersTyped /\ ReadersHeld /\ ReadIsTheHeads
  /\ pc \in {"stop", "exited"} => stopping_
  /\ RestoresOwnPrefix
=============================================================================
