------------------------------ MODULE Scheduler ------------------------------
(***************************************************************************)
(* The concurrent scheduler (server/src/server/scheduler.cpp) and the job  *)
(* queue it serves (http_server.cpp): the way of a request from its client *)
(* thread through the queue, the PFlash compression thread, the deferral,  *)
(* the line of prefix waiters, an engine slot and the drain list to its    *)
(* answer.                                                                 *)
(*                                                                         *)
(* Four kinds of threads run: client threads enqueue a job, watch their    *)
(* peer and wait for done; the scheduler thread runs the loop below; the   *)
(* compression thread prepares long prompts; somebody may ask for a stop.  *)
(* A job lives on its client thread's stack and is gone once it is done.   *)
(*                                                                         *)
(* The engine is an abstraction: whether it admits, is busy or refuses,    *)
(* and what a step does to a slot, are its choice.  Timers (the retry of a *)
(* deferred job, a stalled leader, a stalled reader) may fire at any time. *)
(***************************************************************************)
EXTENDS Integers, Sequences, FiniteSets, SequencesExt, FreeList

CONSTANTS
  Jobs,          \* requests, each submitted at most once
  SlotIds,       \* decode slots of the engine
  PflashJobs,    \* prompts over the compression threshold
  RoutedJobs,    \* report_admission: the router wants busy back
  Shares,        \* <<j, l>>: the prefix l captures is one j can restore
  StagedJobs,    \* prompts that the engine prefills beside the paged slots
  EarlierPass,   \* slots that a pass of requests served before may still hold
  None

ASSUME SchedulerConstants ==
  /\ None \notin Jobs /\ IsFiniteSet(Jobs) /\ IsFiniteSet(SlotIds)
  /\ PflashJobs \subseteq Jobs /\ RoutedJobs \subseteq Jobs
  /\ Shares \subseteq Jobs \X Jobs
  /\ StagedJobs \subseteq Jobs /\ EarlierPass \subseteq SlotIds

VARIABLES
  pc,           \* where the scheduler thread is in its loop
  queue,        \* queue_head_ .. queue_tail_
  stage,        \* pflash_stage.jobs
  compressing,  \* the job the compression thread holds
  prepared,     \* jobs with pflash_prepared
  unpreparable, \* jobs with pflash_error_status
  deferred,     \* the job at the head of the line, or None
  backoff,      \* now < deferred_retry_at
  loaded,       \* jobs whose disk snapshot has been asked for
  waiters,      \* prefix_waiters, oldest first
  slots,        \* SchedSlot per engine slot
  live_slots,   \* the cached count of slots that have a job
  engine_slots, \* slots the engine considers taken
  staging,      \* slots whose staging cache a shared pass in flight holds
  drains,       \* retired jobs whose last bytes are still buffered
  stopping,     \* stopping_
  submitted,    \* jobs whose client thread called enqueue
  gone,         \* client_disconnected of each job
  done,         \* job->done
  arrivals,     \* history: jobs in the order they were queued
  next_admission_order,
  answers,      \* history: final answers produced for a job
  excused       \* history: jobs ended without one (reader dropped, handed back)

lineVars == <<queue, stage, compressing, prepared, unpreparable, deferred,
              backoff, loaded, waiters>>
slotVars == <<slots, live_slots, engine_slots, staging, drains>>
clientVars == <<stopping, submitted, gone, arrivals>>
answerVars == <<done, answers, excused>>
vars == <<pc, lineVars, slotVars, clientVars, answerVars, next_admission_order>>

NoJob == [job |-> None, order |-> 0, prefilling |-> FALSE, capture |-> FALSE]

Live == {i \in SlotIds : slots[i].job # None}

Init ==
  /\ pc = "top"
  /\ queue = <<>> /\ stage = <<>> /\ compressing = None
  /\ prepared = {} /\ unpreparable = {}
  /\ deferred = None /\ backoff = FALSE /\ loaded = {} /\ waiters = <<>>
  /\ slots = [i \in SlotIds |-> NoJob] /\ live_slots = 0
  /\ engine_slots = {} /\ staging \in SUBSET EarlierPass /\ drains = {}
  /\ stopping = FALSE /\ submitted = {} /\ gone = {} /\ arrivals = <<>>
  /\ done = {} /\ answers = [j \in Jobs |-> 0] /\ excused = {}
  /\ next_admission_order = 0
-----------------------------------------------------------------------------
(* Client threads, the compression thread and the stop request.            *)

enqueue(j) ==
  /\ j \notin submitted
  /\ submitted' = submitted \cup {j}
  /\ \/ /\ stopping
        /\ done' = done \cup {j} /\ excused' = excused \cup {j}
        /\ UNCHANGED <<queue, arrivals>>
     \/ /\ ~ stopping
        /\ queue' = Append(queue, j)
        /\ arrivals' = Append(arrivals, j)
        /\ UNCHANGED <<done, excused>>
  /\ UNCHANGED <<pc, stage, compressing, prepared, unpreparable, deferred,
                 backoff, loaded, waiters, slotVars, stopping, gone, answers,
                 next_admission_order>>

(* The monitor in enqueue_request_and_wait sees its peer close. *)
disconnect(j) ==
  /\ j \in submitted \ (done \cup gone)
  /\ gone' = gone \cup {j}
  /\ UNCHANGED <<pc, lineVars, slotVars, stopping, submitted, arrivals,
                 answerVars, next_admission_order>>

request_stop ==
  /\ ~ stopping /\ stopping' = TRUE
  /\ UNCHANGED <<pc, lineVars, slotVars, submitted, gone, arrivals,
                 answerVars, next_admission_order>>

(* The compression thread takes the oldest prompt unless it was told to    *)
(* stop, which the teardown does before it joins the thread. *)
pflash_take ==
  /\ compressing = None /\ stage # <<>> /\ pc # "join"
  /\ compressing' = Head(stage) /\ stage' = Tail(stage)
  /\ UNCHANGED <<pc, queue, prepared, unpreparable, deferred, backoff, loaded,
                 waiters, slotVars, clientVars, answerVars, next_admission_order>>

(* Mutant: prepared jobs are pushed in front of one another. *)
PreparedPrefix_head(q) == 0

(* requeue_prepared: to the head of the queue, behind the prepared jobs    *)
(* already there. *)
PreparedPrefix(q) ==
  IF \E i \in DOMAIN q : q[i] \notin prepared
  THEN (CHOOSE i \in DOMAIN q : /\ q[i] \notin prepared
                                /\ \A k \in 1 .. i - 1 : q[k] \in prepared) - 1
  ELSE Len(q)

pflash_return(fails) ==
  /\ compressing # None
  /\ prepared' = prepared \cup {compressing}
  /\ unpreparable' = IF fails THEN unpreparable \cup {compressing} ELSE unpreparable
  /\ queue' = InsertAt(queue, PreparedPrefix(queue) + 1, compressing)
  /\ compressing' = None
  /\ UNCHANGED <<pc, stage, deferred, backoff, loaded, waiters, slotVars,
                 clientVars, answerVars, next_admission_order>>

(* Mutant: only while something is live is the deferral looked at again. *)
retry_due_while_live ==
  /\ backoff /\ live_slots > 0 /\ backoff' = FALSE
  /\ UNCHANGED <<pc, queue, stage, compressing, prepared, unpreparable,
                 deferred, loaded, waiters, slotVars, clientVars, answerVars,
                 next_admission_order>>

(* The clock reaches deferred_retry_at. *)
retry_due ==
  /\ backoff /\ backoff' = FALSE
  /\ UNCHANGED <<pc, queue, stage, compressing, prepared, unpreparable,
                 deferred, loaded, waiters, slotVars, clientVars, answerVars,
                 next_admission_order>>
-----------------------------------------------------------------------------
(* Phase 1: admission.                                                     *)

WaitingJobs == {w.job : w \in ToSet(waiters)}

(* The top of the loop: waiters whose clients left are finished. *)
sweep_waiters ==
  LET staying == {k \in DOMAIN waiters : waiters[k].job \notin gone}
  IN  /\ pc = "top" /\ pc' = "admit"
      /\ waiters' = [i \in 1 .. Cardinality(staying) |-> waiters[Ascending(staying)[i]]]
      /\ done' = done \cup (WaitingJobs \cap gone)
      /\ UNCHANGED <<queue, stage, compressing, prepared, unpreparable, deferred,
                     backoff, loaded, slotVars, clientVars, answers, excused,
                     next_admission_order>>

(* take_ready_waiter: the capture resolved one way or another. *)
CaptureResolved(w) ==
  LET leader == slots[w.leader]
  IN  \/ leader.job = None \/ leader.order # w.order
      \/ ~ leader.prefilling \/ ~ leader.capture

WaitIsOver(w) == w.job \in gone \/ CaptureResolved(w)

(* Any waiter may in addition have seen its leader stall. *)
ReadyWaiters ==
  {k \in DOMAIN waiters : \A i \in 1 .. k - 1 : ~ WaitIsOver(waiters[i])}

Admitting == pc = "admit" /\ live_slots < Cardinality(SlotIds) /\ ~ stopping
             /\ ~ (deferred # None /\ backoff)

(* The job the next admission attempt is about, with the line it leaves:    *)
(* the deferred job, else a waiter whose wait is over, else the queue. *)
Candidates ==
  LET From(j, fresh, q, w) == [job |-> j, fresh |-> fresh, queue |-> q, waiters |-> w]
  IN  IF deferred # None THEN {From(deferred, FALSE, queue, waiters)}
      ELSE {From(waiters[k].job, FALSE, queue, RemoveAt(waiters, k)) : k \in ReadyWaiters}
           \cup {From(Head(q), TRUE, Tail(q), waiters) : q \in
                   IF \E k \in DOMAIN waiters : WaitIsOver(waiters[k])
                   THEN {} ELSE {queue} \ {<<>>}}

Leaders(j) ==
  {i \in Live : /\ slots[i].prefilling /\ slots[i].capture
                /\ <<j, slots[i].job>> \in Shares}

(* The job leaves the line for good: its client left, its preparation      *)
(* failed, it asks for no token, or the engine refuses it.  `answer` says  *)
(* whether a response was written. *)
drop_job(j, answer, excuse) ==
  /\ done' = done \cup {j}
  /\ answers' = IF answer THEN [answers EXCEPT ![j] = @ + 1] ELSE answers
  /\ excused' = IF excuse THEN excused \cup {j} ELSE excused
  /\ deferred' = None
  /\ UNCHANGED <<pc, stage, compressing, prepared, unpreparable, backoff,
                 loaded, slotVars, clientVars, next_admission_order>>

CandidateGone(j) == j \in gone /\ drop_job(j, FALSE, FALSE)

(* Mutant: the failed preparation is not answered. *)
CandidateUnpreparable_silent(j) ==
  j \in unpreparable \ gone /\ drop_job(j, FALSE, FALSE)

CandidateUnpreparable(j) ==
  j \in unpreparable \ gone /\ drop_job(j, TRUE, FALSE)

pflash_wants(j) == j \in PflashJobs \ prepared

StageCandidate(j) ==
  /\ j \notin gone /\ pflash_wants(j)
  /\ stage' = Append(stage, j) /\ deferred' = None
  /\ UNCHANGED <<pc, compressing, prepared, unpreparable, backoff, loaded,
                 slotVars, clientVars, answerVars, next_admission_order>>

Admissible(j) == j \notin gone \cup unpreparable /\ ~ pflash_wants(j)

(* admit_job ends the job at once: an empty completion, a prompt that can   *)
(* never fit (a router is told so instead), or a failed admission. *)
RefuseCandidate(j) ==
  /\ Admissible(j)
  /\ drop_job(j, TRUE, FALSE) \/ (j \in RoutedJobs /\ drop_job(j, FALSE, TRUE))

(* The engine is busy: live sequences hold the slots or the blocks, parked  *)
(* ones go first, or the free slot it would take is still staged for. *)
Busy == Live # {} \/ staging \ engine_slots # {}

ReturnBusy(j) ==
  /\ Admissible(j) /\ Busy /\ j \in RoutedJobs \ prepared
  /\ drop_job(j, FALSE, TRUE)

DeferCandidate(j, loading) ==
  /\ Admissible(j)
  /\ \/ loading /\ j \notin loaded /\ loaded' = loaded \cup {j}
     \/ ~ loading /\ Busy /\ j \notin RoutedJobs \ prepared /\ UNCHANGED loaded
  /\ deferred' = j /\ backoff' = TRUE /\ pc' = "work"
  /\ UNCHANGED <<stage, compressing, prepared, unpreparable, slotVars,
                 clientVars, answerVars, next_admission_order>>

(* The engine admits, but the SSE headers cannot be sent: the engine slot  *)
(* is given back and the job is finished without ever being live. *)
AdmitThenLoseClient(j) ==
  /\ Admissible(j) /\ engine_slots # SlotIds
  /\ gone' = gone \cup {j} /\ done' = done \cup {j} /\ deferred' = None
  /\ UNCHANGED <<pc, stage, compressing, prepared, unpreparable, backoff,
                 loaded, slotVars, stopping, submitted, arrivals, answers,
                 excused, next_admission_order>>

AdmitCandidate(j, capture) ==
  /\ Admissible(j)
  /\ \E i \in SlotIds \ engine_slots :
       /\ slots' = [slots EXCEPT ![i] =
            [job |-> j, order |-> next_admission_order, prefilling |-> TRUE,
             capture |-> capture]]
       /\ engine_slots' = engine_slots \cup {i}
  /\ live_slots' = live_slots + 1
  /\ next_admission_order' = next_admission_order + 1
  /\ deferred' = None
  /\ UNCHANGED <<pc, stage, compressing, prepared, unpreparable, backoff,
                 loaded, staging, drains, clientVars, answerVars>>

(* A fresh job waits for the prefix a live slot is about to save. *)
WaitForLeader(c) ==
  /\ c.fresh /\ Admissible(c.job)
  /\ \E i \in Leaders(c.job) :
       waiters' = Append(c.waiters,
                         [job |-> c.job, leader |-> i, order |-> slots[i].order])
  /\ UNCHANGED <<pc, stage, compressing, prepared, unpreparable, deferred,
                 backoff, loaded, slotVars, clientVars, answerVars, next_admission_order>>

admit_next ==
  /\ Admitting
  /\ \E c \in Candidates :
       /\ queue' = c.queue
       /\ \/ WaitForLeader(c)
          \/ /\ waiters' = c.waiters
             /\ \/ CandidateGone(c.job) \/ CandidateUnpreparable(c.job)
                \/ StageCandidate(c.job) \/ RefuseCandidate(c.job)
                \/ ReturnBusy(c.job) \/ AdmitThenLoseClient(c.job)
                \/ \E b \in BOOLEAN :
                     DeferCandidate(c.job, b) \/ AdmitCandidate(c.job, b)

(* Nothing more to admit now.  With nothing live and nothing to drain the  *)
(* thread blocks in dequeue() until a job or the stop arrives. *)
NothingToAdmit ==
  /\ deferred = None /\ queue = <<>>
  /\ \A k \in DOMAIN waiters : ~ WaitIsOver(waiters[k])

end_admission ==
  /\ pc = "admit"
  /\ \/ stopping
     \/ live_slots >= Cardinality(SlotIds)
     \/ deferred # None /\ backoff
     \/ NothingToAdmit /\ (live_slots > 0 \/ drains # {})
  /\ pc' = IF stopping THEN "join" ELSE "work"
  /\ UNCHANGED <<lineVars, slotVars, clientVars, answerVars, next_admission_order>>
-----------------------------------------------------------------------------
(* Phases 2 to 5: cancel, step, flush, reap.                               *)

(* retire_slot for every slot of R: engine.retire, an answer unless the    *)
(* reader is already lost, then done or, while bytes remain, the drain     *)
(* list.  The other slots become after[i].  A retirement, and a prefill    *)
(* that completes, let the deferred job retry at once. *)
Retire(R, lost, after, drained) ==
  LET ended == {slots[i].job : i \in R}
      kept == {slots[i].job : i \in R \ lost}
  IN  /\ slots' = [i \in SlotIds |-> IF i \in R THEN NoJob ELSE after[i]]
      /\ engine_slots' = engine_slots \ R
      /\ live_slots' = live_slots - Cardinality(R)
      /\ answers' = [j \in Jobs |-> answers[j] + IF j \in kept THEN 1 ELSE 0]
      /\ backoff' = (/\ backoff /\ R = {}
                     /\ \A i \in Live : slots[i].prefilling => after[i].prefilling)
      /\ \E buffered \in SUBSET kept :
           /\ drains' = (drains \ drained) \cup buffered
           /\ done' = done \cup drained \cup (ended \ buffered)

(* Nothing live: only the drains are serviced.  A drain ends when its last  *)
(* byte is out, its socket fails or its deadline passes (`drained`). *)
idle_drains(drained) ==
  /\ pc = "work" /\ live_slots = 0 /\ pc' = "top"
  /\ drains' = drains \ drained /\ done' = done \cup drained
  /\ UNCHANGED <<lineVars, slots, live_slots, engine_slots, staging, clientVars,
                 answers, excused, next_admission_order>>

(* Cancellations are retired before another step is spent on them. *)
cancel ==
  LET R == {i \in Live : slots[i].job \in gone}
  IN  /\ pc = "work" /\ live_slots > 0
      /\ pc' = IF live_slots = Cardinality(R) THEN "top" ELSE "step"
      /\ Retire(R, R, slots, {})
      /\ UNCHANGED <<staging, queue, stage, compressing, prepared, unpreparable,
                     deferred, loaded, waiters, clientVars, excused, next_admission_order>>

(* What an iteration does to a slot that stays live: nothing visible, its   *)
(* capture resolves, its prefill completes, or, parked for recompute, it   *)
(* is resumed and prefills again. *)
Outcomes ==
  {{}, {"captured"}, {"completed"}, {"captured", "completed"}, {"resumed"}}

Possible(s) ==
  {IF s.prefilling THEN "completed" ELSE "resumed"}
  \cup IF s.capture THEN {"captured"} ELSE {}

Advanced(s, outcome) ==
  [s EXCEPT !.capture = @ /\ "captured" \notin outcome,
            !.prefilling = (@ /\ "completed" \notin outcome) \/ "resumed" \in outcome]

(* The shared pass of the engine step: one starts for prompts that prefill, *)
(* and is still in flight after the step if others decode.  It goes on only *)
(* while some prompt is staged, whether or not its own are still live. *)
AdvanceStaging ==
  \/ staging' \in {staging, {}}
  \/ /\ staging = {} /\ \E i \in Live : ~ slots[i].prefilling
     /\ staging' \in SUBSET {i \in Live : slots[i].prefilling /\ slots[i].job \in StagedJobs}

(* engine.step, the flush of every slot (a reader may be dropped: `lost`), *)
(* service_drains, and the retirement of the slots that ended (R). *)
step(R, drained) ==
  /\ pc = "step" /\ pc' = "top"
  /\ AdvanceStaging
  /\ \E lost \in SUBSET R, outcome \in [Live \ R -> Outcomes] :
       /\ \A i \in Live \ R : outcome[i] \subseteq Possible(slots[i])
       /\ Retire(R, lost,
                 [i \in SlotIds |-> IF i \in Live \ R THEN Advanced(slots[i], outcome[i])
                                   ELSE slots[i]], drained)
       /\ excused' = excused \cup {slots[i].job : i \in lost}
  /\ UNCHANGED <<queue, stage, compressing, prepared, unpreparable, deferred,
                 loaded, waiters, clientVars, next_admission_order>>

(* A failed or malformed step fails every live request. *)
step_fails ==
  /\ pc = "step" /\ pc' = "top"
  /\ AdvanceStaging
  /\ Retire(Live, {}, slots, {})
  /\ UNCHANGED <<queue, stage, compressing, prepared, unpreparable, deferred,
                 loaded, waiters, clientVars, excused, next_admission_order>>
-----------------------------------------------------------------------------
(* Teardown.                                                               *)

(* Mutant: the waiters are forgotten. *)
LeftInLine_without_waiters == ToSet(stage) \cup ({deferred} \ {None})

(* Jobs outside the queue for which no response has been committed. *)
LeftInLine ==
  ToSet(stage) \cup WaitingJobs \cup ({deferred} \ {None})

(* After the compression thread has been joined: answer what it never      *)
(* started, every slot, every drain, every waiter and the deferred job. *)
teardown ==
  LET inSlots == {slots[i].job : i \in Live}
      inLine == LeftInLine
  IN  /\ pc = "join" /\ compressing = None /\ pc' = "flush_queue"
      /\ answers' = [j \in Jobs |->
                       answers[j] + IF j \in inSlots \cup inLine THEN 1 ELSE 0]
      /\ done' = done \cup inSlots \cup inLine \cup drains
      /\ stage' = <<>> /\ waiters' = <<>> /\ deferred' = None /\ drains' = {}
      /\ slots' = [i \in SlotIds |-> NoJob] /\ live_slots' = 0 /\ engine_slots' = {}
      /\ backoff' = FALSE
      /\ UNCHANGED <<staging, queue, compressing, prepared, unpreparable, loaded,
                     clientVars, excused, next_admission_order>>

(* try_dequeue until the queue is empty. *)
flush_queue ==
  /\ pc = "flush_queue"
  /\ \/ /\ queue # <<>>
        /\ queue' = Tail(queue)
        /\ answers' = [answers EXCEPT ![Head(queue)] = @ + 1]
        /\ done' = done \cup {Head(queue)}
        /\ UNCHANGED pc
     \/ /\ queue = <<>> /\ pc' = "exited"
        /\ UNCHANGED <<queue, answers, done>>
  /\ UNCHANGED <<stage, compressing, prepared, unpreparable, deferred, backoff,
                 loaded, waiters, slotVars, clientVars, excused, next_admission_order>>
-----------------------------------------------------------------------------
SchedulerThread ==
  \/ sweep_waiters \/ admit_next \/ end_admission \/ cancel \/ step_fails
  \/ \E drained \in SUBSET drains :
       idle_drains(drained) \/ \E R \in SUBSET Live : step(R, drained)
  \/ teardown \/ flush_queue

CompressionThread == pflash_take \/ \E fails \in BOOLEAN : pflash_return(fails)

Environment == (\E j \in Jobs : enqueue(j) \/ disconnect(j)) \/ request_stop

(* The scheduler thread has returned; late clients are turned away. *)
terminated == pc = "exited" /\ UNCHANGED vars

Next == SchedulerThread \/ CompressionThread \/ Environment \/ retry_due \/ terminated

Spec == Init /\ [][Next]_vars

(* A slot that is stepped again and again ends: generation is capped by     *)
(* n_gen_cap, and parked slots come back (SeqSlotManager).  A drain that is *)
(* serviced again and again ends: its deadline is fixed unless bytes move. *)
SlotEnds(i) == \E R \in SUBSET Live, drained \in SUBSET drains :
                 i \in R /\ step(R, drained)

DrainEnds(j) == \E drained \in SUBSET drains :
  /\ j \in drained
  /\ idle_drains(drained) \/ \E R \in SUBSET Live : step(R, drained)

(* The threads run and the clock advances.  Nothing is assumed of clients. *)
Fairness ==
  /\ WF_vars(SchedulerThread) /\ WF_vars(CompressionThread) /\ WF_vars(retry_due)
  /\ \A i \in SlotIds : SF_vars(SlotEnds(i))
  /\ \A j \in Jobs : SF_vars(DrainEnds(j))

FairSpec == Spec /\ Fairness
-----------------------------------------------------------------------------
(* Properties.                                                             *)

(* How many of the scheduler's structures hold a pointer to job j. *)
Holders(j) ==
  Cardinality({i \in DOMAIN queue : queue[i] = j})
  + Cardinality({i \in DOMAIN stage : stage[i] = j})
  + Cardinality({k \in DOMAIN waiters : waiters[k].job = j})
  + Cardinality({i \in SlotIds : slots[i].job = j})
  + Cardinality({h \in {"compressing", "deferred", "drains"} :
       \/ h = "compressing" /\ compressing = j
       \/ h = "deferred" /\ deferred = j
       \/ h = "drains" /\ j \in drains})

(* A job that is not done is held in exactly one place, so it is neither   *)
(* lost nor served twice; a job that is done, and with it the stack frame  *)
(* it lives in, is held nowhere.  This must survive every interleaving of  *)
(* deferral, compression, waiting, disconnects and teardown. *)
HeldExactlyOnce ==
  \A j \in submitted : Holders(j) = IF j \in done THEN 0 ELSE 1

(* No client is answered twice, and none is left without an answer unless  *)
(* it left, stopped reading, or its job went back to the router. *)
AnsweredOnce ==
  \A j \in Jobs :
    /\ answers[j] <= 1
    /\ j \in done => answers[j] = 1 \/ j \in gone \cup excused

(* Jobs whose turn is still to come. *)
InLine == ToSet(queue) \cup ToSet(stage) \cup {compressing, deferred}

(* "FIFO order survives the deferral": of two jobs of the same kind, both  *)
(* compressed or neither, that wait for no shared prefix, the later one is *)
(* given no slot while the earlier is still in line. *)
NoOvertaking ==
  [][\A i \in SlotIds : slots[i].job = None /\ slots'[i].job # None =>
       LET l == slots'[i].job
           b == CHOOSE b \in DOMAIN arrivals : arrivals[b] = l
       IN  \A a \in 1 .. b - 1 :
             /\ (arrivals[a] \in PflashJobs) = (l \in PflashJobs)
             /\ \A m \in Jobs : {<<arrivals[a], m>>, <<l, m>>} \cap Shares = {}
             => arrivals[a] \notin InLine]_vars

(* Every submitted request ends: answered, dropped or handed back; also one *)
(* that was deferred when nothing is live any more, and those behind it.    *)
(* One exception: nothing is live, the pass of requests that left still     *)
(* holds a staging cache, and the deferred request cannot do without it.    *)
PassLeftBehind ==
  Live = {} /\ deferred # None /\ deferred \notin gone /\ staging # {}

EveryJobEnds ==
  (<>[] PassLeftBehind) \/ \A j \in Jobs : j \in submitted ~> j \in done

(* A stop ends the scheduler thread, with every client thread released. *)
StopEnds == stopping ~> (pc = "exited" /\ submitted \subseteq done)
-----------------------------------------------------------------------------
(* The inductive invariant behind them.                                    *)

Waiting == [job : Jobs, leader : SlotIds, order : Nat]

SchedSlots ==
  [job : Jobs \cup {None}, order : Nat, prefilling : BOOLEAN, capture : BOOLEAN]

SchedulerTypeOK ==
  /\ pc \in {"top", "admit", "work", "step", "join", "flush_queue", "exited"}
  /\ queue \in Seq(Jobs) /\ stage \in Seq(Jobs) /\ arrivals \in Seq(Jobs)
  /\ compressing \in Jobs \cup {None} /\ deferred \in Jobs \cup {None}
  /\ waiters \in Seq(Waiting) /\ slots \in [SlotIds -> SchedSlots]
  /\ staging \subseteq SlotIds /\ drains \subseteq Jobs
  /\ prepared \subseteq Jobs /\ unpreparable \subseteq Jobs
  /\ loaded \subseteq Jobs /\ submitted \subseteq Jobs /\ gone \subseteq Jobs
  /\ done \subseteq submitted /\ excused \subseteq Jobs
  /\ backoff \in BOOLEAN /\ stopping \in BOOLEAN
  /\ answers \in [Jobs -> Nat] /\ next_admission_order \in Nat

(* The cached count and the engine agree with the slots. *)
SlotsCounted == engine_slots = Live /\ live_slots = Cardinality(Live)

(* No structure holds a job twice. *)
NoDuplicates ==
  /\ IsInjective(queue) /\ IsInjective(stage) /\ IsInjective(arrivals)
  /\ \A k, m \in DOMAIN waiters : waiters[k].job = waiters[m].job => k = m
  /\ \A i, k \in Live : slots[i].job = slots[k].job => i = k

Held(b) == IF b THEN 1 ELSE 0

LiveJobs == {slots[i].job : i \in Live}

(* The structures that hold j, counted. *)
Places(j) ==
  Held(j \in ToSet(queue)) + Held(j \in ToSet(stage)) + Held(j \in WaitingJobs)
  + Held(j \in LiveJobs) + Held(compressing = j) + Held(deferred = j) + Held(j \in drains)

PlacedOnce == \A j \in Jobs : Places(j) = Held(j \in submitted \ done)

(* A job is answered when it leaves its slot or the line, and only a drain  *)
(* keeps it after its answer. *)
AnswersCounted ==
  \A j \in Jobs :
    /\ answers[j] <= 1
    /\ answers[j] = 1 => j \in done \cup drains
    /\ j \in drains => answers[j] = 1
    /\ j \in done => answers[j] = 1 \/ j \in gone \cup excused

(* Who may stand where: the compression stage holds unprepared prompts and  *)
(* nothing else asks for compression again, prepared jobs are in front of   *)
(* the queue, a waiter waits for a prefix, and whoever is in line arrived. *)
LineShape ==
  /\ prepared \subseteq PflashJobs \cap submitted
  /\ \A j \in ToSet(stage) \cup ({compressing} \ {None}) : pflash_wants(j)
  /\ ~ pflash_wants(deferred) /\ \A j \in WaitingJobs : ~ pflash_wants(j)
  /\ \A i, k \in DOMAIN queue : i < k /\ queue[k] \in prepared => queue[i] \in prepared
  /\ \A j \in WaitingJobs : j \in ToSet(arrivals) /\ \E m \in Jobs : <<j, m>> \in Shares
  /\ ToSet(arrivals) \subseteq submitted /\ InLine \ {None} \subseteq ToSet(arrivals)

(* a arrived before b, and nothing but the line decides who is first. *)
ArrivedFirst(a, b) ==
  /\ \E i, k \in DOMAIN arrivals : i < k /\ arrivals[i] = a /\ arrivals[k] = b
  /\ (a \in PflashJobs) = (b \in PflashJobs)
  /\ \A m \in Jobs : {<<a, m>>, <<b, m>>} \cap Shares = {}

Unprepared == ToSet(queue) \ prepared

(* The line: the deferred job, the prepared head of the queue, the prompt   *)
(* being compressed, those staged for it, the rest of the queue. *)
InOrder(a, b) ==
  /\ b = deferred => a \notin InLine
  /\ b \in ToSet(queue) \cap prepared => a \notin ToSet(stage) \cup {compressing}
  /\ b = compressing => a \notin ToSet(stage) \cup Unprepared
  /\ b \in ToSet(stage) => a \notin Unprepared
  /\ \A i, k \in DOMAIN queue : queue[i] = a /\ queue[k] = b => i < k
  /\ \A i, k \in DOMAIN stage : stage[i] = a /\ stage[k] = b => i < k

LineInOrder == \A a, b \in Jobs : ArrivedFirst(a, b) => InOrder(a, b)

SchedulerInv ==
  /\ SchedulerTypeOK /\ SlotsCounted /\ NoDuplicates /\ PlacedOnce
  /\ AnswersCounted /\ LineShape /\ LineInOrder
=============================================================================
