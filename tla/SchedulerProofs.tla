--------------------------- MODULE SchedulerProofs ---------------------------
(***************************************************************************)
(* The scheduler for any number of jobs and slots: a job is held in exactly *)
(* one place until it is done, it is answered once, and the line of jobs of *)
(* one kind keeps its order of arrival through the compression thread, the  *)
(* deferral and the requeue.  All three rest on SchedulerInv.  Then its     *)
(* steps, for any envelope and whatever the engine answers: scheduler and   *)
(* engine keep in step (StepPlan), which rests on PlanInv.                  *)
(***************************************************************************)
EXTENDS Scheduler, StepPlan, ListProofs

-----------------------------------------------------------------------------
(* What the invariant says of one job.                                     *)

(* A place excludes the others, and a job without a place is done or was    *)
(* never submitted. *)
LEMMA PlacesExclude ==
  ASSUME PlacedOnce, NEW j \in Jobs
  PROVE  /\ j \in ToSet(queue) =>
              /\ j \notin ToSet(stage) \cup WaitingJobs \cup LiveJobs \cup drains
              /\ j # compressing /\ j # deferred /\ j \in submitted \ done
         /\ j \in ToSet(stage) =>
              /\ j \notin ToSet(queue) \cup WaitingJobs \cup LiveJobs \cup drains
              /\ j # compressing /\ j # deferred /\ j \in submitted \ done
         /\ j \in WaitingJobs =>
              /\ j \notin ToSet(queue) \cup ToSet(stage) \cup LiveJobs \cup drains
              /\ j # compressing /\ j # deferred /\ j \in submitted \ done
         /\ j \in LiveJobs =>
              /\ j \notin ToSet(queue) \cup ToSet(stage) \cup WaitingJobs \cup drains
              /\ j # compressing /\ j # deferred /\ j \in submitted \ done
         /\ j = compressing =>
              /\ j \notin ToSet(queue) \cup ToSet(stage) \cup WaitingJobs \cup LiveJobs \cup drains
              /\ j # deferred /\ j \in submitted \ done
         /\ j = deferred =>
              /\ j \notin ToSet(queue) \cup ToSet(stage) \cup WaitingJobs \cup LiveJobs \cup drains
              /\ j # compressing /\ j \in submitted \ done
         /\ j \in drains =>
              /\ j \notin ToSet(queue) \cup ToSet(stage) \cup WaitingJobs \cup LiveJobs
              /\ j # compressing /\ j # deferred /\ j \in submitted \ done
         /\ j \in submitted \ done =>
              \/ j \in ToSet(queue) \cup ToSet(stage) \cup WaitingJobs \cup LiveJobs \cup drains
              \/ j = compressing \/ j = deferred
<1> DEFINE a == Held(j \in ToSet(queue))
           b == Held(j \in ToSet(stage))
           c == Held(j \in WaitingJobs)
           d == Held(j \in LiveJobs)
           e == Held(compressing = j)
           f == Held(deferred = j)
           g == Held(j \in drains)
           h == Held(j \in submitted \ done)
<1>1. a + b + c + d + e + f + g = h
  BY DEF PlacedOnce, Places
<1>2. /\ a = IF j \in ToSet(queue) THEN 1 ELSE 0
      /\ b = IF j \in ToSet(stage) THEN 1 ELSE 0
      /\ c = IF j \in WaitingJobs THEN 1 ELSE 0
      /\ d = IF j \in LiveJobs THEN 1 ELSE 0
      /\ e = IF compressing = j THEN 1 ELSE 0
      /\ f = IF deferred = j THEN 1 ELSE 0
      /\ g = IF j \in drains THEN 1 ELSE 0
      /\ h = IF j \in submitted \ done THEN 1 ELSE 0
  BY DEF Held
<1> HIDE DEF a, b, c, d, e, f, g, h
<1> QED BY <1>1, <1>2

(* A job that is held somewhere has not been answered unless it drains. *)
LEMMA HeldUnanswered ==
  ASSUME PlacedOnce, AnswersCounted, SchedulerTypeOK,
         NEW j \in Jobs, j \in submitted \ (done \cup drains)
  PROVE  answers[j] = 0
BY DEF AnswersCounted, SchedulerTypeOK

(* Whom the structures hold. *)
LEMMA HeldAreJobs ==
  ASSUME SchedulerTypeOK
  PROVE  /\ ToSet(queue) \subseteq Jobs /\ ToSet(stage) \subseteq Jobs
         /\ ToSet(arrivals) \subseteq Jobs
         /\ WaitingJobs \subseteq Jobs /\ LiveJobs \subseteq Jobs /\ drains \subseteq Jobs
         /\ None \notin Jobs
<1>1. None \notin Jobs
  BY SchedulerConstants
<1>2. ASSUME NEW q \in Seq(Jobs) PROVE ToSet(q) \subseteq Jobs
  BY DEF ToSet
<1>3. WaitingJobs \subseteq Jobs
  <2> SUFFICES ASSUME NEW k \in DOMAIN waiters PROVE waiters[k].job \in Jobs
    BY DEF WaitingJobs, ToSet
  <2>1. waiters[k] \in Waiting
    BY DEF SchedulerTypeOK
  <2> QED BY <2>1 DEF Waiting
<1>4. LiveJobs \subseteq Jobs
  <2> SUFFICES ASSUME NEW i \in Live PROVE slots[i].job \in Jobs
    BY DEF LiveJobs
  <2>1. i \in SlotIds /\ slots[i].job # None /\ slots[i] \in SchedSlots
    BY DEF Live, SchedulerTypeOK
  <2> QED BY <2>1 DEF SchedSlots
<1> QED BY <1>1, <1>2, <1>3, <1>4 DEF SchedulerTypeOK

(* The property counts what the invariant adds up. *)
LEMMA HoldersArePlaces ==
  ASSUME SchedulerTypeOK, NoDuplicates, NEW j \in Jobs
  PROVE  Holders(j) = Places(j)
<1>1. ASSUME NEW q \in Seq(Jobs), IsInjective(q)
      PROVE  Cardinality({i \in DOMAIN q : q[i] = j}) = Held(j \in ToSet(q))
  <2>1. CASE j \in ToSet(q)
    <3>1. PICK i \in DOMAIN q : q[i] = j
      BY <2>1 DEF ToSet
    <3>2. {k \in DOMAIN q : q[k] = j} = {i}
      BY <1>1, <3>1 DEF IsInjective
    <3> QED BY <2>1, <3>2, FS_Singleton DEF Held
  <2>2. CASE j \notin ToSet(q)
    <3>1. {k \in DOMAIN q : q[k] = j} = {}
      BY <2>2 DEF ToSet
    <3> QED BY <2>2, <3>1, FS_EmptySet DEF Held
  <2> QED BY <2>1, <2>2
<1>2. Cardinality({k \in DOMAIN waiters : waiters[k].job = j}) = Held(j \in WaitingJobs)
  <2>1. CASE j \in WaitingJobs
    <3>1. PICK i \in DOMAIN waiters : waiters[i].job = j
      BY <2>1 DEF WaitingJobs, ToSet
    <3>2. {k \in DOMAIN waiters : waiters[k].job = j} = {i}
      BY <3>1 DEF NoDuplicates
    <3> QED BY <2>1, <3>2, FS_Singleton DEF Held
  <2>2. CASE j \notin WaitingJobs
    <3>1. {k \in DOMAIN waiters : waiters[k].job = j} = {}
      BY <2>2 DEF WaitingJobs, ToSet
    <3> QED BY <2>2, <3>1, FS_EmptySet DEF Held
  <2> QED BY <2>1, <2>2
<1>3. Cardinality({i \in SlotIds : slots[i].job = j}) = Held(j \in LiveJobs)
  <2>1. j # None
    BY HeldAreJobs
  <2>2. {k \in SlotIds : slots[k].job = j} = {k \in Live : slots[k].job = j}
    BY <2>1 DEF Live
  <2>3. CASE j \in LiveJobs
    <3>1. PICK i \in Live : slots[i].job = j
      BY <2>3 DEF LiveJobs
    <3>2. {k \in Live : slots[k].job = j} = {i}
      BY <3>1 DEF NoDuplicates
    <3> QED BY <2>2, <2>3, <3>2, FS_Singleton DEF Held
  <2>4. CASE j \notin LiveJobs
    <3>1. {k \in Live : slots[k].job = j} = {}
      BY <2>4 DEF LiveJobs
    <3> QED BY <2>2, <2>4, <3>1, FS_EmptySet DEF Held
  <2> QED BY <2>3, <2>4
<1>4. Cardinality({h \in {"compressing", "deferred", "drains"} :
                     \/ h = "compressing" /\ compressing = j
                     \/ h = "deferred" /\ deferred = j
                     \/ h = "drains" /\ j \in drains})
      = Held(compressing = j) + Held(deferred = j) + Held(j \in drains)
  <2> DEFINE A == IF compressing = j THEN {"compressing"} ELSE {}
             B == IF deferred = j THEN A \cup {"deferred"} ELSE A
             C == IF j \in drains THEN B \cup {"drains"} ELSE B
  <2>1. IsFiniteSet(A) /\ Cardinality(A) = Held(compressing = j)
    BY FS_EmptySet, FS_Singleton DEF Held
  <2>2. Cardinality(A) \in Nat /\ "deferred" \notin A
    BY <2>1 DEF Held
  <2>3. IsFiniteSet(B) /\ Cardinality(B) = Cardinality(A) + Held(deferred = j)
    <3> HIDE DEF A
    <3> QED BY <2>1, <2>2, FS_AddElement DEF Held
  <2>4. Cardinality(B) \in Nat /\ "drains" \notin B
    BY <2>2, <2>3 DEF Held
  <2>5. IsFiniteSet(C) /\ Cardinality(C) = Cardinality(B) + Held(j \in drains)
    <3> HIDE DEF B
    <3> QED BY <2>3, <2>4, FS_AddElement DEF Held
  <2>6. {h \in {"compressing", "deferred", "drains"} :
           \/ h = "compressing" /\ compressing = j
           \/ h = "deferred" /\ deferred = j
           \/ h = "drains" /\ j \in drains} = C
    OBVIOUS
  <2> QED BY <2>1, <2>3, <2>5, <2>6
<1>5. queue \in Seq(Jobs) /\ stage \in Seq(Jobs) /\ IsInjective(queue) /\ IsInjective(stage)
  BY DEF SchedulerTypeOK, NoDuplicates
<1>6. /\ Cardinality({i \in DOMAIN queue : queue[i] = j}) = Held(j \in ToSet(queue))
      /\ Cardinality({i \in DOMAIN stage : stage[i] = j}) = Held(j \in ToSet(stage))
  BY <1>1, <1>5
<1>7. /\ Held(j \in ToSet(queue)) \in Int /\ Held(j \in ToSet(stage)) \in Int
      /\ Held(j \in WaitingJobs) \in Int /\ Held(j \in LiveJobs) \in Int
      /\ Held(compressing = j) \in Int /\ Held(deferred = j) \in Int /\ Held(j \in drains) \in Int
  BY DEF Held
<1> QED BY <1>2, <1>3, <1>4, <1>6, <1>7 DEF Holders, Places

-----------------------------------------------------------------------------
(* Steps that leave the line alone.                                        *)

LEMMA LineKept ==
  ASSUME LineShape, LineInOrder, submitted \subseteq submitted',
         UNCHANGED <<queue, stage, compressing, prepared, deferred, waiters, arrivals>>
  PROVE  LineShape' /\ LineInOrder'
<1>1. LineShape'
  BY DEF LineShape, InLine, WaitingJobs, pflash_wants
<1>2. LineInOrder'
  BY DEF LineInOrder, InOrder, InLine, ArrivedFirst, Unprepared
<1> QED BY <1>1, <1>2

LEMMA SlotsKept ==
  ASSUME SlotsCounted, UNCHANGED <<slots, live_slots, engine_slots>>
  PROVE  SlotsCounted' /\ Live' = Live /\ LiveJobs' = LiveJobs
BY DEF SlotsCounted, Live, LiveJobs

LEMMA DistinctKept ==
  ASSUME NoDuplicates, UNCHANGED <<queue, stage, arrivals, waiters, slots>>
  PROVE  NoDuplicates'
BY DEF NoDuplicates, Live

(* The peer closes, a stop is asked for, the clock advances, the admission  *)
(* phase ends. *)
LEMMA QuietStep ==
  ASSUME SchedulerInv,
         \/ \E j \in Jobs : disconnect(j)
         \/ request_stop \/ retry_due \/ end_admission
  PROVE  SchedulerInv'
<1> USE DEF SchedulerInv
<1>1. /\ UNCHANGED <<queue, stage, compressing, prepared, unpreparable, deferred, loaded,
                     waiters, slots, live_slots, engine_slots, staging, drains, submitted, arrivals,
                     done, answers, excused, next_admission_order>>
      /\ gone \subseteq gone' /\ gone' \subseteq Jobs
      /\ backoff' \in BOOLEAN /\ stopping' \in BOOLEAN
      /\ pc' \in {"top", "admit", "work", "step", "join", "flush_queue", "exited"}
  <2>1. CASE \E j \in Jobs : disconnect(j)
    BY <2>1 DEF disconnect, lineVars, slotVars, answerVars, SchedulerTypeOK
  <2>2. CASE request_stop
    BY <2>2 DEF request_stop, lineVars, slotVars, answerVars, SchedulerTypeOK
  <2>3. CASE retry_due
    BY <2>3 DEF retry_due, clientVars, slotVars, answerVars, SchedulerTypeOK
  <2>4. CASE end_admission
    BY <2>4 DEF end_admission, lineVars, slotVars, clientVars, answerVars, SchedulerTypeOK
  <2> QED BY <2>1, <2>2, <2>3, <2>4
<1>2. SchedulerTypeOK'
  BY <1>1 DEF SchedulerTypeOK
<1>3. SlotsCounted' /\ NoDuplicates' /\ LineShape' /\ LineInOrder'
  BY <1>1, LineKept, SlotsKept, DistinctKept
<1>4. PlacedOnce'
  BY <1>1 DEF PlacedOnce, Places, Live, LiveJobs, WaitingJobs
<1>5. AnswersCounted'
  BY <1>1 DEF AnswersCounted
<1> QED BY <1>2, <1>3, <1>4, <1>5

(* Nothing live: the drains that end are done. *)
LEMMA IdleDrainsStep ==
  ASSUME SchedulerInv, NEW drained \in SUBSET drains, idle_drains(drained)
  PROVE  SchedulerInv'
<1> USE DEF SchedulerInv
<1>1. /\ UNCHANGED <<queue, stage, compressing, prepared, unpreparable, deferred, backoff,
                     loaded, waiters, slots, live_slots, engine_slots, staging, stopping, submitted,
                     gone, arrivals, answers, excused, next_admission_order>>
      /\ drains' = drains \ drained /\ done' = done \cup drained /\ pc' = "top"
  BY DEF idle_drains, lineVars, clientVars
<1>2. \A j \in drained : j \in Jobs /\ j \in submitted \ done
  BY PlacesExclude, HeldAreJobs
<1>3. SchedulerTypeOK'
  BY <1>1, <1>2 DEF SchedulerTypeOK
<1>4. SlotsCounted' /\ NoDuplicates' /\ LineShape' /\ LineInOrder'
  BY <1>1, LineKept, SlotsKept, DistinctKept
<1>5. PlacedOnce'
  <2> SUFFICES ASSUME NEW j \in Jobs PROVE (Places(j) = Held(j \in submitted \ done))'
    BY DEF PlacedOnce
  <2>1. CASE j \in drained
    BY <1>1, <2>1, PlacesExclude DEF Places, Held, Live, LiveJobs, WaitingJobs
  <2>2. CASE j \notin drained
    BY <1>1, <2>2 DEF PlacedOnce, Places, Held, Live, LiveJobs, WaitingJobs
  <2> QED BY <2>1, <2>2
<1>6. AnswersCounted'
  BY <1>1 DEF AnswersCounted
<1> QED BY <1>3, <1>4, <1>5, <1>6

-----------------------------------------------------------------------------
(* Steps that add to the line.                                             *)

(* Nobody arrived before himself. *)
LEMMA ArrivalsDiffer ==
  ASSUME SchedulerTypeOK, NoDuplicates, NEW a, NEW b, ArrivedFirst(a, b)
  PROVE  a # b
<1>1. PICK i \in DOMAIN arrivals, k \in DOMAIN arrivals :
        i < k /\ arrivals[i] = a /\ arrivals[k] = b
  BY DEF ArrivedFirst
<1>2. i \in Int /\ i # k
  BY <1>1 DEF SchedulerTypeOK
<1> QED BY <1>1, <1>2 DEF NoDuplicates, IsInjective

LEMMA EnqueueStep ==
  ASSUME SchedulerInv, NEW j \in Jobs, enqueue(j)
  PROVE  SchedulerInv'
<1> USE DEF SchedulerInv
<1>1. /\ j \notin submitted /\ submitted' = submitted \cup {j}
      /\ UNCHANGED <<pc, stage, compressing, prepared, unpreparable, deferred, backoff,
                     loaded, waiters, slots, live_slots, engine_slots, staging, drains, stopping,
                     gone, answers, next_admission_order>>
  BY DEF enqueue, slotVars
<1>2. CASE stopping
  <2>1. /\ done' = done \cup {j} /\ excused' = excused \cup {j}
        /\ UNCHANGED <<queue, arrivals>>
    BY <1>2 DEF enqueue
  <2>2. SchedulerTypeOK'
    BY <1>1, <2>1 DEF SchedulerTypeOK
  <2>3. SlotsCounted' /\ NoDuplicates' /\ LineShape' /\ LineInOrder'
    BY <1>1, <2>1, LineKept, SlotsKept, DistinctKept
  <2>4. PlacedOnce'
    BY <1>1, <2>1 DEF PlacedOnce, Places, Held, Live, LiveJobs, WaitingJobs
  <2>5. AnswersCounted'
    BY <1>1, <2>1 DEF AnswersCounted
  <2> QED BY <2>2, <2>3, <2>4, <2>5
<1>3. CASE ~ stopping
  <2>1. /\ queue' = Append(queue, j) /\ arrivals' = Append(arrivals, j)
        /\ UNCHANGED <<done, excused>>
    BY <1>3 DEF enqueue
  <2>2. /\ queue \in Seq(Jobs) /\ arrivals \in Seq(Jobs)
        /\ IsInjective(queue) /\ IsInjective(arrivals)
    BY DEF SchedulerTypeOK, NoDuplicates
  <2>3. /\ j \notin ToSet(arrivals)
        /\ j \notin ToSet(queue) \cup ToSet(stage) \cup WaitingJobs \cup LiveJobs \cup drains
        /\ j # compressing /\ j # deferred /\ j # None
    BY <1>1, PlacesExclude, HeldAreJobs DEF LineShape
  <2>4. /\ queue' \in Seq(Jobs) /\ ToSet(queue') = ToSet(queue) \cup {j} /\ IsInjective(queue')
        /\ arrivals' \in Seq(Jobs) /\ ToSet(arrivals') = ToSet(arrivals) \cup {j}
        /\ IsInjective(arrivals')
    BY <2>1, <2>2, <2>3, AppendNew
  <2>5. SchedulerTypeOK'
    BY <1>1, <2>1, <2>4 DEF SchedulerTypeOK
  <2>6. SlotsCounted' /\ Live' = Live /\ LiveJobs' = LiveJobs
    BY <1>1, SlotsKept
  <2>7. NoDuplicates'
    BY <1>1, <2>4, <2>6 DEF NoDuplicates
  <2>8. PlacedOnce'
    <3> SUFFICES ASSUME NEW k \in Jobs PROVE (Places(k) = Held(k \in submitted \ done))'
      BY DEF PlacedOnce
    <3>1. WaitingJobs' = WaitingJobs
      BY <1>1 DEF WaitingJobs
    <3>2. k = j => k \notin done
      BY <1>1 DEF SchedulerTypeOK
    <3>3. Places(k) = Held(k \in submitted \ done)
      BY DEF PlacedOnce
    <3> QED BY <1>1, <2>1, <2>3, <2>4, <2>6, <3>1, <3>2, <3>3 DEF Places, Held
  <2>9. AnswersCounted'
    BY <1>1, <2>1 DEF AnswersCounted
  <2> DEFINE n == Len(queue)
             m == Len(arrivals)
  <2>10. /\ n \in Nat /\ DOMAIN queue = 1 .. n /\ DOMAIN queue' = 1 .. n + 1
         /\ (\A i \in 1 .. n : queue'[i] = queue[i]) /\ queue'[n + 1] = j
         /\ m \in Nat /\ DOMAIN arrivals = 1 .. m /\ DOMAIN arrivals' = 1 .. m + 1
         /\ (\A i \in 1 .. m : arrivals'[i] = arrivals[i]) /\ arrivals'[m + 1] = j
    BY <2>1, <2>2
  <2> HIDE DEF n, m
  <2>11. LineShape'
    <3>1. j \notin prepared
      BY <1>1 DEF LineShape
    <3>2. \A i, k \in 1 .. n + 1 : i < k /\ queue'[k] \in prepared => queue'[i] \in prepared
      <4> SUFFICES ASSUME NEW i \in 1 .. n + 1, NEW k \in 1 .. n + 1, i < k,
                          queue'[k] \in prepared
                   PROVE  queue'[i] \in prepared
        OBVIOUS
      <4>1. k # n + 1
        BY <2>10, <3>1
      <4>2. k \in 1 .. n /\ i \in 1 .. n
        BY <2>10, <4>1
      <4> QED BY <2>10, <4>2 DEF LineShape
    <3>3. InLine' = InLine \cup {j} /\ WaitingJobs' = WaitingJobs
      BY <1>1, <2>4 DEF InLine, WaitingJobs
    <3> QED BY <1>1, <2>4, <2>10, <3>2, <3>3 DEF LineShape, pflash_wants
  <2>12. ASSUME NEW a \in Jobs, NEW b \in Jobs, ArrivedFirst(a, b)'
         PROVE  a # j /\ a # b /\ (b # j => ArrivedFirst(a, b))
    <3>1. PICK i \in 1 .. m + 1, k \in 1 .. m + 1 :
            i < k /\ arrivals'[i] = a /\ arrivals'[k] = b
      BY <2>10, <2>12 DEF ArrivedFirst
    <3>2. i \in 1 .. m
      BY <2>10, <3>1
    <3>3. arrivals[i] = a /\ a \in ToSet(arrivals)
      BY <2>10, <3>1, <3>2 DEF ToSet
    <3>4. a # b
      BY <2>4, <2>10, <3>1 DEF IsInjective
    <3>5. b # j => k \in 1 .. m
      BY <2>10, <3>1
    <3>6. /\ (a \in PflashJobs) = (b \in PflashJobs)
          /\ \A l \in Jobs : {<<a, l>>, <<b, l>>} \cap Shares = {}
      BY <2>12 DEF ArrivedFirst
    <3>7. b # j => i \in DOMAIN arrivals /\ k \in DOMAIN arrivals /\ arrivals[k] = b
      BY <2>10, <3>1, <3>2, <3>5
    <3> QED BY <2>3, <3>1, <3>3, <3>4, <3>6, <3>7 DEF ArrivedFirst
  <2>13. LineInOrder'
    <3> SUFFICES ASSUME NEW a \in Jobs, NEW b \in Jobs, ArrivedFirst(a, b)'
                 PROVE  InOrder(a, b)'
      BY DEF LineInOrder
    <3>1. a # j /\ a # b /\ (b # j => ArrivedFirst(a, b))
      BY <2>12
    <3>2. InLine' = InLine \cup {j} /\ Unprepared' = Unprepared \cup {j} /\ j \notin prepared
      BY <1>1, <2>4 DEF InLine, Unprepared, LineShape
    <3>3. \A i, k \in 1 .. n + 1 : queue'[i] = a /\ queue'[k] = b => i < k
      <4> SUFFICES ASSUME NEW i \in 1 .. n + 1, NEW k \in 1 .. n + 1,
                          queue'[i] = a, queue'[k] = b
                   PROVE  i < k
        OBVIOUS
      <4>1. i \in 1 .. n
        BY <2>10, <3>1
      <4>2. CASE b = j
        <5>1. ~ (k \in 1 .. n)
          BY <2>3, <2>10, <4>2 DEF ToSet
        <5> QED BY <2>10, <4>1, <5>1
      <4>3. CASE b # j
        <5>1. k \in 1 .. n
          BY <2>10, <4>3
        <5> QED BY <2>10, <3>1, <4>1, <4>3, <5>1 DEF LineInOrder, InOrder
      <4> QED BY <4>2, <4>3
    <3>4. CASE b = j
      BY <1>1, <2>3, <2>4, <2>10, <3>2, <3>3, <3>4 DEF InOrder, ToSet
    <3>5. CASE b # j
      BY <1>1, <2>4, <2>10, <3>1, <3>2, <3>3, <3>5 DEF LineInOrder, InOrder
    <3> QED BY <3>4, <3>5
  <2> QED BY <2>5, <2>6, <2>7, <2>8, <2>9, <2>11, <2>13
<1> QED BY <1>2, <1>3

-----------------------------------------------------------------------------
(* The compression thread.                                                 *)

(* Tail, position by position. *)
LEMMA TailShifts ==
  ASSUME NEW S, NEW q \in Seq(S), q # <<>>
  PROVE  /\ Len(q) \in Nat /\ Len(q) >= 1 /\ DOMAIN q = 1 .. Len(q) /\ 1 \in DOMAIN q
         /\ Head(q) = q[1] /\ DOMAIN Tail(q) = 1 .. Len(q) - 1
         /\ \A i \in DOMAIN Tail(q) : i \in Int /\ i + 1 \in DOMAIN q /\ Tail(q)[i] = q[i + 1]
OBVIOUS

LEMMA TakeStep ==
  ASSUME SchedulerInv, pflash_take
  PROVE  SchedulerInv'
<1> USE DEF SchedulerInv
<1> DEFINE h == Head(stage)
<1>1. /\ compressing = None /\ stage # <<>> /\ compressing' = h /\ stage' = Tail(stage)
      /\ UNCHANGED <<pc, queue, prepared, unpreparable, deferred, backoff, loaded, waiters,
                     slots, live_slots, engine_slots, staging, drains, stopping, submitted, gone,
                     arrivals, done, answers, excused, next_admission_order>>
  BY DEF pflash_take, slotVars, clientVars, answerVars
<1>2. stage \in Seq(Jobs) /\ IsInjective(stage)
  BY DEF SchedulerTypeOK, NoDuplicates
<1>3. /\ Tail(stage) \in Seq(Jobs) /\ h \in Jobs /\ h \in ToSet(stage)
      /\ ToSet(Tail(stage)) = ToSet(stage) \ {h} /\ IsInjective(Tail(stage))
  BY <1>1, <1>2, TailRest, Zenon
<1>4. /\ stage' \in Seq(Jobs) /\ ToSet(stage') = ToSet(stage) \ {h} /\ IsInjective(stage')
  BY <1>1, <1>3
<1>5. /\ Len(stage) \in Nat /\ DOMAIN stage = 1 .. Len(stage) /\ 1 \in DOMAIN stage
      /\ h = stage[1]
      /\ \A i \in DOMAIN stage' : i \in Int /\ i + 1 \in DOMAIN stage /\ stage'[i] = stage[i + 1]
  <2>1. /\ Len(stage) \in Nat /\ Len(stage) >= 1 /\ DOMAIN stage = 1 .. Len(stage)
        /\ 1 \in DOMAIN stage /\ Head(stage) = stage[1]
        /\ \A i \in DOMAIN Tail(stage) :
             i \in Int /\ i + 1 \in DOMAIN stage /\ Tail(stage)[i] = stage[i + 1]
    BY <1>1, <1>2, TailShifts, Zenon
  <2> QED BY <1>1, <2>1
<1> HIDE DEF h
<1>6. SchedulerTypeOK'
  BY <1>1, <1>3, <1>4 DEF SchedulerTypeOK
<1>7. SlotsCounted' /\ Live' = Live /\ LiveJobs' = LiveJobs
  BY <1>1, SlotsKept
<1>8. NoDuplicates'
  BY <1>1, <1>4, <1>7 DEF NoDuplicates
<1>9. h # None /\ None \notin Jobs
  BY <1>3, HeldAreJobs
<1>10. PlacedOnce'
  <2> SUFFICES ASSUME NEW k \in Jobs PROVE (Places(k) = Held(k \in submitted \ done))'
    BY DEF PlacedOnce
  <2>1. WaitingJobs' = WaitingJobs
    BY <1>1 DEF WaitingJobs
  <2>2. Places(k) = Held(k \in submitted \ done)
    BY DEF PlacedOnce
  <2> QED BY <1>1, <1>3, <1>4, <1>7, <1>9, <2>1, <2>2 DEF Places, Held
<1>11. AnswersCounted'
  BY <1>1 DEF AnswersCounted
<1>12. InLine' \subseteq InLine /\ InLine \ {None} \subseteq InLine' /\ Unprepared' = Unprepared
       /\ WaitingJobs' = WaitingJobs
  BY <1>1, <1>3, <1>4 DEF InLine, Unprepared, WaitingJobs
<1>13. LineShape'
  BY <1>1, <1>3, <1>4, <1>9, <1>12 DEF LineShape, pflash_wants
<1>14. LineInOrder'
  <2> SUFFICES ASSUME NEW a \in Jobs, NEW b \in Jobs, ArrivedFirst(a, b)' PROVE InOrder(a, b)'
    BY DEF LineInOrder
  <2>1. InOrder(a, b)
    BY <1>1 DEF LineInOrder, ArrivedFirst
  <2>2. b = h => a \notin ToSet(stage')
    <3> SUFFICES ASSUME b = h, NEW i \in DOMAIN stage', a = stage'[i] PROVE FALSE
      BY DEF ToSet
    <3>1. i + 1 \in DOMAIN stage /\ stage[i + 1] = a /\ i \in Int /\ i + 1 \in 1 .. Len(stage)
      BY <1>5
    <3>2. i + 1 < 1
      BY <1>5, <2>1, <3>1 DEF InOrder
    <3> QED BY <1>5, <3>1, <3>2
  <2>3. \A i, k \in DOMAIN stage' : stage'[i] = a /\ stage'[k] = b => i < k
    <3> SUFFICES ASSUME NEW i \in DOMAIN stage', NEW k \in DOMAIN stage',
                        stage'[i] = a, stage'[k] = b
                 PROVE  i < k
      OBVIOUS
    <3>1. i + 1 < k + 1 /\ i \in Int /\ k \in Int
      BY <1>5, <2>1 DEF InOrder
    <3> QED BY <3>1
  <2> QED BY <1>1, <1>3, <1>4, <1>12, <2>1, <2>2, <2>3 DEF InOrder
<1> QED BY <1>6, <1>7, <1>8, <1>10, <1>11, <1>13, <1>14

(* requeue_prepared counts the prepared jobs at the head. *)
LEMMA PreparedPrefixProps ==
  ASSUME NEW q \in Seq(Jobs)
  PROVE  /\ PreparedPrefix(q) \in 0 .. Len(q)
         /\ \A i \in 1 .. PreparedPrefix(q) : q[i] \in prepared
         /\ PreparedPrefix(q) < Len(q) => q[PreparedPrefix(q) + 1] \notin prepared
<1> DEFINE n == Len(q)
           S == {i \in 1 .. n : q[i] \notin prepared}
           first(i) == i \in DOMAIN q /\ q[i] \notin prepared
                       /\ \A k \in 1 .. i - 1 : q[k] \in prepared
<1>1. n \in Nat /\ DOMAIN q = 1 .. n
  OBVIOUS
<1>2. CASE S = {}
  <2>1. PreparedPrefix(q) = n
    BY <1>1, <1>2 DEF PreparedPrefix
  <2>2. \A i \in 1 .. n : q[i] \in prepared
    BY <1>2
  <2> QED BY <1>1, <2>1, <2>2
<1>3. CASE S # {}
  <2>1. S \in SUBSET Int /\ IsFiniteSet(S)
    <3>1. IsFiniteSet(1 .. n)
      <4>1. 1 \in Int /\ n \in Int
        BY <1>1
      <4> QED BY <4>1, FS_Interval, Zenon
    <3>2. S \subseteq 1 .. n
      OBVIOUS
    <3> QED BY <3>1, <3>2, FS_Subset
  <2>2. 0 \in 0 .. Cardinality(S) - 1
    <3>1. Cardinality(S) \in Nat /\ Cardinality(S) # 0
      BY <1>3, <2>1, FS_CardinalityType, FS_EmptySet
    <3> QED BY <3>1
  <2>3. PICK x \in S : Rank(x, S) = 0
    BY <2>1, <2>2, RankOnto, Zenon
  <2>4. {y \in S : y < x} = {}
    <3>1. IsFiniteSet({y \in S : y < x})
      BY <2>1, FS_Subset
    <3> QED BY <2>3, <3>1, FS_EmptySet DEF Rank
  <2>5. first(x)
    <3>1. x \in 1 .. n /\ q[x] \notin prepared
      OBVIOUS
    <3>2. \A k \in 1 .. x - 1 : k \in 1 .. n /\ k < x
      BY <1>1, <3>1
    <3> QED BY <1>1, <2>4, <3>1, <3>2
  <2> DEFINE y == CHOOSE i \in DOMAIN q :
                    /\ q[i] \notin prepared /\ \A k \in 1 .. i - 1 : q[k] \in prepared
  <2>6. first(y)
    BY <2>5
  <2>7. PreparedPrefix(q) = y - 1
    BY <2>5 DEF PreparedPrefix
  <2> HIDE DEF y
  <2>8. y \in 1 .. n /\ q[y] \notin prepared /\ (\A k \in 1 .. y - 1 : q[k] \in prepared)
    BY <1>1, <2>6
  <2>9. y - 1 \in 0 .. n /\ (y - 1) + 1 = y
    BY <1>1, <2>8
  <2> QED BY <2>7, <2>8, <2>9
<1> QED BY <1>2, <1>3

LEMMA ReturnStep ==
  ASSUME SchedulerInv, NEW fails \in BOOLEAN, pflash_return(fails)
  PROVE  SchedulerInv'
<1> USE DEF SchedulerInv
<1> DEFINE x == compressing
           p == PreparedPrefix(queue) + 1
           n == Len(queue)
<1>1. /\ x # None /\ compressing' = None /\ prepared' = prepared \cup {x}
      /\ queue' = InsertAt(queue, p, x)
      /\ unpreparable' \subseteq unpreparable \cup {x}
      /\ UNCHANGED <<pc, stage, deferred, backoff, loaded, waiters, slots, live_slots,
                     engine_slots, staging, drains, stopping, submitted, gone, arrivals, done,
                     answers, excused, next_admission_order>>
  BY DEF pflash_return, slotVars, clientVars, answerVars
<1>2. queue \in Seq(Jobs) /\ IsInjective(queue) /\ x \in Jobs
  BY <1>1 DEF SchedulerTypeOK, NoDuplicates
<1>3. /\ n \in Nat /\ DOMAIN queue = 1 .. n /\ p \in 1 .. n + 1
      /\ \A i \in 1 .. p - 1 : queue[i] \in prepared
      /\ p <= n => queue[p] \notin prepared
  <2>1. n \in Nat /\ DOMAIN queue = 1 .. n
    BY <1>2
  <2> DEFINE z == PreparedPrefix(queue)
  <2>2. /\ z \in 0 .. n /\ (\A i \in 1 .. z : queue[i] \in prepared)
        /\ z < n => queue[z + 1] \notin prepared
    BY <1>2, PreparedPrefixProps
  <2> HIDE DEF z, n
  <2>3. z + 1 \in 1 .. n + 1 /\ (z + 1) - 1 = z /\ (z + 1 <= n => z < n)
    BY <2>1, <2>2
  <2> QED BY <2>1, <2>2, <2>3 DEF z
<1>4. /\ x \notin ToSet(queue) \cup ToSet(stage) \cup WaitingJobs \cup LiveJobs \cup drains
      /\ x # deferred /\ x \in submitted \ done
  BY <1>2, PlacesExclude
<1> HIDE DEF x, p, n
<1>5. /\ queue' \in Seq(Jobs) /\ DOMAIN queue' = 1 .. n + 1
      /\ \A k \in 1 .. p - 1 : queue'[k] = queue[k]
      /\ queue'[p] = x
      /\ \A k \in p .. n : queue'[k + 1] = queue[k]
      /\ ToSet(queue') = ToSet(queue) \cup {x} /\ IsInjective(queue')
  <2> DEFINE r == InsertAt(queue, p, x)
  <2>1. p \in 1 .. Len(queue) + 1
    BY <1>3 DEF n
  <2>2. /\ r \in Seq(Jobs) /\ DOMAIN r = 1 .. Len(queue) + 1
        /\ \A k \in 1 .. p - 1 : r[k] = queue[k]
        /\ r[p] = x
        /\ \A k \in p .. Len(queue) : r[k + 1] = queue[k]
        /\ ToSet(r) = ToSet(queue) \cup {x}
        /\ IsInjective(queue) /\ x \notin ToSet(queue) => IsInjective(r)
    BY <1>2, <2>1, InsertAtProps
  <2>3. queue' = r
    BY <1>1
  <2> HIDE DEF r
  <2> QED BY <1>2, <1>4, <2>2, <2>3 DEF n
<1>6. SchedulerTypeOK'
  BY <1>1, <1>2, <1>5 DEF SchedulerTypeOK, x
<1>7. SlotsCounted' /\ Live' = Live /\ LiveJobs' = LiveJobs
  BY <1>1, SlotsKept
<1>8. NoDuplicates'
  BY <1>1, <1>5, <1>7 DEF NoDuplicates
<1>9. x # None /\ None \notin Jobs /\ WaitingJobs' = WaitingJobs
  BY <1>1, HeldAreJobs DEF WaitingJobs
<1>10. PlacedOnce'
  <2> SUFFICES ASSUME NEW k \in Jobs PROVE (Places(k) = Held(k \in submitted \ done))'
    BY DEF PlacedOnce
  <2>1. Places(k) = Held(k \in submitted \ done)
    BY DEF PlacedOnce
  <2>2. k # None
    BY <1>9
  <2> QED BY <1>1, <1>4, <1>5, <1>7, <1>9, <2>1, <2>2 DEF Places, Held, x
<1>11. AnswersCounted'
  BY <1>1 DEF AnswersCounted
(* A position of the new queue is x's or comes from one of the old queue,   *)
(* and what the insertion pushed back is unprepared. *)
<1> DEFINE from(k) == IF k < p THEN k ELSE k - 1
<1>12. \A k \in 1 .. n + 1 : k # p =>
          /\ from(k) \in 1 .. n /\ queue'[k] = queue[from(k)]
          /\ k < p <=> queue[from(k)] \in prepared
  <2> SUFFICES ASSUME NEW k \in 1 .. n + 1, k # p
               PROVE  /\ from(k) \in 1 .. n /\ queue'[k] = queue[from(k)]
                      /\ k < p <=> queue[from(k)] \in prepared
    OBVIOUS
  <2>1. CASE k < p
    <3>1. k \in 1 .. p - 1 /\ k \in 1 .. n
      BY <1>3, <2>1
    <3> QED BY <1>3, <1>5, <2>1, <3>1
  <2>2. CASE ~ (k < p)
    <3>1. /\ k - 1 \in p .. n /\ k - 1 \in 1 .. n /\ (k - 1) + 1 = k /\ p <= n
          /\ p \in 1 .. n /\ (p < k - 1 \/ p = k - 1)
      BY <1>3, <2>2
    <3>2. queue'[k] = queue[k - 1]
      BY <1>5, <3>1
    <3>3. queue[k - 1] \notin prepared
      BY <1>3, <3>1 DEF LineShape
    <3> QED BY <2>2, <3>1, <3>2, <3>3
  <2> QED BY <2>1, <2>2
<1>13. /\ InLine' \subseteq InLine \cup {None} /\ InLine \ {None} \subseteq InLine'
       /\ Unprepared' = Unprepared
  <2>1. x \notin ToSet(queue)
    BY <1>4
  <2> QED BY <1>1, <1>5, <2>1 DEF InLine, Unprepared, x
<1>14. \A k \in 1 .. n + 1 : queue'[k] \in prepared' <=> k < p \/ k = p
  <2> SUFFICES ASSUME NEW k \in 1 .. n + 1
               PROVE  queue'[k] \in prepared' <=> k < p \/ k = p
    OBVIOUS
  <2>1. CASE k = p
    BY <1>1, <1>5, <2>1
  <2>2. CASE k # p
    <3>1. queue'[k] # x
      BY <1>3, <1>4, <1>12, <2>2 DEF ToSet
    <3> QED BY <1>1, <1>12, <2>2, <3>1
  <2> QED BY <2>1, <2>2
<1>15. LineShape'
  <2>1. pflash_wants(x)
    BY <1>1 DEF LineShape, x
  <2>2. \A i, k \in 1 .. n + 1 : i < k /\ queue'[k] \in prepared' => queue'[i] \in prepared'
    BY <1>3, <1>14
  <2>3. \A j \in ToSet(stage) : j # x
    BY <1>4
  <2> QED BY <1>1, <1>4, <1>5, <1>9, <1>13, <2>1, <2>2, <2>3 DEF LineShape, pflash_wants
<1>16. LineInOrder'
  <2> SUFFICES ASSUME NEW a \in Jobs, NEW b \in Jobs, ArrivedFirst(a, b)' PROVE InOrder(a, b)'
    BY DEF LineInOrder
  <2>1. InOrder(a, b)
    BY <1>1 DEF LineInOrder, ArrivedFirst
  <2>2. a # b
    <3>1. ArrivedFirst(a, b)
      BY <1>1 DEF ArrivedFirst
    <3> QED BY <3>1, ArrivalsDiffer
  <2>3. b = deferred => a \notin InLine'
    BY <1>9, <1>13, <2>1 DEF InOrder
  <2>4. b \in ToSet(queue') \cap prepared' => a \notin ToSet(stage) \cup {None}
    <3>1. b = x => a \notin ToSet(stage)
      BY <2>1 DEF InOrder, x
    <3>2. b \in ToSet(queue) \cap prepared => a \notin ToSet(stage)
      BY <2>1 DEF InOrder
    <3> QED BY <1>1, <1>5, <1>9, <3>1, <3>2
  <2>5. b \in ToSet(stage) => a \notin Unprepared'
    BY <1>13, <2>1 DEF InOrder
  <2>6. \A i, k \in 1 .. n + 1 : queue'[i] = a /\ queue'[k] = b => i < k
    <3> SUFFICES ASSUME NEW i \in 1 .. n + 1, NEW k \in 1 .. n + 1,
                        queue'[i] = a, queue'[k] = b
                 PROVE  i < k
      OBVIOUS
    <3>1. CASE k = p
      <4>1. b = x /\ i # p
        BY <1>5, <2>2, <3>1
      <4>2. a \notin Unprepared
        BY <2>1, <4>1 DEF InOrder, x
      <4>3. a \in ToSet(queue) /\ a = queue[from(i)]
        BY <1>3, <1>12, <4>1 DEF ToSet
      <4>4. queue[from(i)] \in prepared
        BY <4>2, <4>3 DEF Unprepared
      <4>5. i < p
        BY <1>12, <4>1, <4>4
      <4> QED BY <3>1, <4>5
    <3>2. CASE i = p
      <4>1. a = x /\ k # p
        BY <1>5, <2>2, <3>2
      <4>2. b \notin ToSet(queue) \cap prepared
        BY <2>1, <4>1 DEF InOrder, x
      <4>3. b \in ToSet(queue) /\ b = queue[from(k)]
        <5>1. from(k) \in DOMAIN queue /\ b = queue[from(k)]
          BY <1>3, <1>12, <4>1
        <5> HIDE DEF from
        <5> QED BY <5>1 DEF ToSet
      <4>4. queue[from(k)] \notin prepared
        BY <4>2, <4>3
      <4>5. ~ (k < p)
        BY <1>12, <4>1, <4>4
      <4> QED BY <1>3, <3>2, <4>1, <4>5
    <3>3. CASE i # p /\ k # p
      <4>1. from(i) \in DOMAIN queue /\ from(k) \in DOMAIN queue
            /\ queue[from(i)] = a /\ queue[from(k)] = b
        BY <1>3, <1>12, <3>3
      <4>2. from(i) < from(k)
        BY <2>1, <4>1 DEF InOrder
      <4> QED BY <1>3, <3>3, <4>2
    <3> QED BY <3>1, <3>2, <3>3
  <2> QED BY <1>1, <1>5, <1>9, <1>13, <2>1, <2>3, <2>4, <2>5, <2>6 DEF InOrder
<1> QED BY <1>6, <1>7, <1>8, <1>10, <1>11, <1>15, <1>16

-----------------------------------------------------------------------------
(* Steps that take from the line.                                          *)

(* Nothing was taken, the head was, or everything. *)
Suffix(r, q) == r = q \/ (q # <<>> /\ r = Tail(q)) \/ r = <<>>

LEMMA SuffixProps ==
  ASSUME NEW S, NEW q \in Seq(S), NEW r, Suffix(r, q)
  PROVE  /\ r \in Seq(S) /\ ToSet(r) \subseteq ToSet(q)
         /\ IsInjective(q) => IsInjective(r)
         /\ \E s \in Nat : \A i \in DOMAIN r :
              i \in Int /\ i + s \in DOMAIN q /\ r[i] = q[i + s]
<1>1. r \in Seq(S) /\ \E s \in Nat : \A i \in DOMAIN r :
                        i \in Int /\ i + s \in DOMAIN q /\ r[i] = q[i + s]
  <2>1. CASE r = q
    <3>1. r \in Seq(S) /\ \A i \in DOMAIN r : i \in Int /\ i + 0 \in DOMAIN q /\ r[i] = q[i + 0]
      BY <2>1
    <3> QED BY <3>1
  <2>2. CASE q # <<>> /\ r = Tail(q)
    <3>1. r \in Seq(S) /\ \A i \in DOMAIN r : i \in Int /\ i + 1 \in DOMAIN q /\ r[i] = q[i + 1]
      BY <2>2
    <3> QED BY <3>1
  <2>3. CASE r = <<>>
    <3>1. r \in Seq(S) /\ \A i \in DOMAIN r : i \in Int /\ i + 0 \in DOMAIN q /\ r[i] = q[i + 0]
      BY <2>3
    <3> QED BY <3>1
  <2> QED BY <2>1, <2>2, <2>3 DEF Suffix
<1>2. PICK s \in Nat : \A i \in DOMAIN r : i \in Int /\ i + s \in DOMAIN q /\ r[i] = q[i + s]
  BY <1>1
<1>3. ToSet(r) \subseteq ToSet(q)
  <2> SUFFICES ASSUME NEW i \in DOMAIN r PROVE r[i] \in ToSet(q)
    BY DEF ToSet
  <2>1. i + s \in DOMAIN q /\ r[i] = q[i + s]
    BY <1>2
  <2> QED BY <2>1 DEF ToSet
<1>4. ASSUME IsInjective(q) PROVE IsInjective(r)
  <2> SUFFICES ASSUME NEW i \in DOMAIN r, NEW k \in DOMAIN r, r[i] = r[k] PROVE i = k
    BY DEF IsInjective
  <2>1. i \in Int /\ k \in Int /\ i + s = k + s
    BY <1>2, <1>4 DEF IsInjective
  <2> QED BY <2>1
<1> QED BY <1>1, <1>3, <1>4

(* The queue and the stage give up their heads, and somebody with nobody of *)
(* his kind in front of him may be deferred. *)
LEMMA LineMoves ==
  ASSUME SchedulerInv, UNCHANGED <<compressing, prepared, submitted, arrivals>>,
         Suffix(queue', queue), Suffix(stage', stage),
         deferred' # None =>
           /\ deferred' \in ToSet(arrivals) /\ ~ pflash_wants(deferred')
           /\ \A a \in Jobs : ArrivedFirst(a, deferred') =>
                a \notin ToSet(queue') \cup ToSet(stage') \cup {compressing},
         \A j \in WaitingJobs' : /\ j \in ToSet(arrivals) /\ ~ pflash_wants(j)
                                 /\ \E m \in Jobs : <<j, m>> \in Shares
  PROVE  LineShape' /\ LineInOrder'
<1> USE DEF SchedulerInv
<1>1. queue \in Seq(Jobs) /\ stage \in Seq(Jobs)
  BY DEF SchedulerTypeOK
<1>2. /\ ToSet(queue') \subseteq ToSet(queue) /\ ToSet(stage') \subseteq ToSet(stage)
      /\ Unprepared' \subseteq Unprepared
  BY <1>1, SuffixProps DEF Unprepared
<1>3. PICK s \in Nat : \A i \in DOMAIN queue' :
        i \in Int /\ i + s \in DOMAIN queue /\ queue'[i] = queue[i + s]
  BY <1>1, SuffixProps
<1>4. PICK t \in Nat : \A i \in DOMAIN stage' :
        i \in Int /\ i + t \in DOMAIN stage /\ stage'[i] = stage[i + t]
  BY <1>1, SuffixProps
<1>5. None \notin Jobs
  BY HeldAreJobs
<1>6. LineShape'
  <2>1. \A i, k \in DOMAIN queue' : i < k /\ queue'[k] \in prepared => queue'[i] \in prepared
    <3> SUFFICES ASSUME NEW i \in DOMAIN queue', NEW k \in DOMAIN queue', i < k,
                        queue'[k] \in prepared
                 PROVE  queue'[i] \in prepared
      OBVIOUS
    <3>1. i + s < k + s /\ i + s \in DOMAIN queue /\ k + s \in DOMAIN queue
      BY <1>3
    <3> QED BY <1>3, <3>1 DEF LineShape
  <2>2. \A j \in InLine' : j \in InLine \/ j = deferred'
    BY <1>2 DEF InLine
  <2>3. ~ pflash_wants(None)
    BY <1>5, SchedulerConstants DEF pflash_wants
  <2> QED BY <1>2, <2>1, <2>2, <2>3 DEF LineShape, pflash_wants
<1>7. LineInOrder'
  <2> SUFFICES ASSUME NEW a \in Jobs, NEW b \in Jobs, ArrivedFirst(a, b)' PROVE InOrder(a, b)'
    BY DEF LineInOrder
  <2>1. ArrivedFirst(a, b)
    BY DEF ArrivedFirst
  <2>2. InOrder(a, b)
    BY <2>1 DEF LineInOrder
  <2>3. a # b /\ a # None /\ b # None
    BY <1>5, <2>1, ArrivalsDiffer
  <2>4. b = deferred' => a \notin InLine'
    BY <2>1, <2>3 DEF InLine
  <2>5. \A i, k \in DOMAIN queue' : queue'[i] = a /\ queue'[k] = b => i < k
    <3> SUFFICES ASSUME NEW i \in DOMAIN queue', NEW k \in DOMAIN queue',
                        queue'[i] = a, queue'[k] = b
                 PROVE  i < k
      OBVIOUS
    <3>1. i + s < k + s /\ i \in Int /\ k \in Int
      BY <1>3, <2>2 DEF InOrder
    <3> QED BY <3>1
  <2>6. \A i, k \in DOMAIN stage' : stage'[i] = a /\ stage'[k] = b => i < k
    <3> SUFFICES ASSUME NEW i \in DOMAIN stage', NEW k \in DOMAIN stage',
                        stage'[i] = a, stage'[k] = b
                 PROVE  i < k
      OBVIOUS
    <3>1. i + t < k + t /\ i \in Int /\ k \in Int
      BY <1>4, <2>2 DEF InOrder
    <3> QED BY <3>1
  <2> QED BY <1>2, <2>2, <2>4, <2>5, <2>6 DEF InOrder
<1> QED BY <1>6, <1>7

(* What stays deferred has nobody of its kind in front of it. *)
LEMMA DeferredIsFirst ==
  ASSUME SchedulerInv, deferred # None
  PROVE  /\ deferred \in ToSet(arrivals) /\ ~ pflash_wants(deferred)
         /\ \A a \in Jobs : ArrivedFirst(a, deferred) => a \notin InLine
<1>1. deferred \in Jobs
  BY DEF SchedulerInv, SchedulerTypeOK
<1>2. deferred \in ToSet(arrivals) /\ ~ pflash_wants(deferred)
  BY DEF SchedulerInv, LineShape, InLine
<1>3. \A a \in Jobs : ArrivedFirst(a, deferred) => a \notin InLine
  BY <1>1 DEF SchedulerInv, LineInOrder, InOrder
<1> QED BY <1>2, <1>3

LEMMA FlushQueueStep ==
  ASSUME SchedulerInv, flush_queue
  PROVE  SchedulerInv'
<1> USE DEF SchedulerInv
<1>1. UNCHANGED <<stage, compressing, prepared, unpreparable, deferred, backoff, loaded,
                  waiters, slots, live_slots, engine_slots, staging, drains, stopping, submitted,
                  gone, arrivals, excused, next_admission_order>>
  BY DEF flush_queue, slotVars, clientVars
<1>2. CASE queue = <<>> /\ pc' = "exited" /\ UNCHANGED <<queue, answers, done>>
  <2>1. SchedulerTypeOK'
    BY <1>1, <1>2 DEF SchedulerTypeOK
  <2>2. SlotsCounted' /\ NoDuplicates' /\ LineShape' /\ LineInOrder'
    BY <1>1, <1>2, LineKept, SlotsKept, DistinctKept
  <2>3. PlacedOnce'
    BY <1>1, <1>2 DEF PlacedOnce, Places, Live, LiveJobs, WaitingJobs
  <2>4. AnswersCounted'
    BY <1>1, <1>2 DEF AnswersCounted
  <2> QED BY <2>1, <2>2, <2>3, <2>4
<1>3. CASE /\ queue # <<>> /\ queue' = Tail(queue) /\ UNCHANGED pc
           /\ answers' = [answers EXCEPT ![Head(queue)] = @ + 1]
           /\ done' = done \cup {Head(queue)}
  <2> DEFINE h == Head(queue)
  <2>1. queue \in Seq(Jobs) /\ IsInjective(queue)
    BY DEF SchedulerTypeOK, NoDuplicates
  <2>2. /\ Tail(queue) \in Seq(Jobs) /\ h \in Jobs /\ h \in ToSet(queue)
        /\ ToSet(Tail(queue)) = ToSet(queue) \ {h} /\ IsInjective(Tail(queue))
    BY <1>3, <2>1, TailRest, Zenon
  <2>3. queue' \in Seq(Jobs) /\ ToSet(queue') = ToSet(queue) \ {h} /\ IsInjective(queue')
    BY <1>3, <2>2
  <2>4. answers' = [answers EXCEPT ![h] = @ + 1] /\ done' = done \cup {h}
    BY <1>3
  <2>5. h \in submitted \ (done \cup drains)
    BY <2>2, PlacesExclude
  <2> HIDE DEF h
  <2>6. answers[h] = 0
    BY <2>2, <2>5, HeldUnanswered
  <2>7. /\ answers' \in [Jobs -> Nat] /\ answers'[h] = 1
        /\ \A j \in Jobs : j # h => answers'[j] = answers[j]
    BY <2>2, <2>4, <2>6 DEF SchedulerTypeOK
  <2>8. SchedulerTypeOK'
    BY <1>1, <1>3, <2>3, <2>4, <2>5, <2>7 DEF SchedulerTypeOK
  <2>9. SlotsCounted' /\ Live' = Live /\ LiveJobs' = LiveJobs
    BY <1>1, SlotsKept
  <2>10. NoDuplicates'
    BY <1>1, <2>3, <2>9 DEF NoDuplicates
  <2>11. WaitingJobs' = WaitingJobs
    BY <1>1 DEF WaitingJobs
  <2>12. PlacedOnce'
    <3> SUFFICES ASSUME NEW k \in Jobs PROVE (Places(k) = Held(k \in submitted \ done))'
      BY DEF PlacedOnce
    <3>1. Places(k) = Held(k \in submitted \ done)
      BY DEF PlacedOnce
    <3> QED BY <1>1, <2>2, <2>3, <2>4, <2>5, <2>9, <2>11, <3>1 DEF Places, Held
  <2>13. AnswersCounted'
    BY <1>1, <2>4, <2>5, <2>7 DEF AnswersCounted
  <2>14. LineShape' /\ LineInOrder'
    <3>1. Suffix(queue', queue) /\ Suffix(stage', stage)
      BY <1>1, <1>3 DEF Suffix
    <3>2. \A j \in WaitingJobs' : /\ j \in ToSet(arrivals) /\ ~ pflash_wants(j)
                                  /\ \E m \in Jobs : <<j, m>> \in Shares
      BY <2>11 DEF LineShape
    <3>3. deferred' # None =>
            /\ deferred' \in ToSet(arrivals) /\ ~ pflash_wants(deferred')
            /\ \A a \in Jobs : ArrivedFirst(a, deferred') =>
                 a \notin ToSet(queue') \cup ToSet(stage') \cup {compressing}
      BY <1>1, <2>3, DeferredIsFirst DEF InLine
    <3> QED BY <1>1, <3>1, <3>2, <3>3, LineMoves
  <2> QED BY <2>8, <2>9, <2>10, <2>12, <2>13, <2>14
<1> QED BY <1>2, <1>3 DEF flush_queue

LEMMA SweepStep ==
  ASSUME SchedulerInv, sweep_waiters
  PROVE  SchedulerInv'
<1> USE DEF SchedulerInv
<1> DEFINE staying == {k \in DOMAIN waiters : waiters[k].job \notin gone}
           n == Cardinality(staying)
           at == Ascending(staying)
           left == WaitingJobs \cap gone
<1>1. /\ UNCHANGED <<queue, stage, compressing, prepared, unpreparable, deferred, backoff,
                     loaded, slots, live_slots, engine_slots, staging, drains, stopping, submitted,
                     gone, arrivals, answers, excused, next_admission_order>>
      /\ pc' = "admit" /\ done' = done \cup left
      /\ waiters' = [i \in 1 .. n |-> waiters[at[i]]]
  BY DEF sweep_waiters, slotVars, clientVars
<1>2. /\ waiters \in Seq(Waiting) /\ DOMAIN waiters \subseteq Int
      /\ staying \subseteq DOMAIN waiters /\ IsFiniteSet(staying) /\ n \in Nat
  <2>1. waiters \in Seq(Waiting) /\ Len(waiters) \in Nat /\ DOMAIN waiters = 1 .. Len(waiters)
    BY DEF SchedulerTypeOK
  <2>2. IsFiniteSet(1 .. Len(waiters))
    <3>1. 1 \in Int /\ Len(waiters) \in Int
      BY <2>1
    <3> QED BY <3>1, FS_Interval, Zenon
  <2>3. staying \subseteq DOMAIN waiters
    OBVIOUS
  <2> QED BY <2>1, <2>2, <2>3, FS_Subset, FS_CardinalityType
<1>3. /\ at \in Seq(staying) /\ Len(at) = n /\ Range(at) = staying
      /\ \A i, k \in 1 .. n : at[i] = at[k] => i = k
  <2>1. staying \in SUBSET Int
    BY <1>2
  <2> HIDE DEF staying
  <2> QED BY <1>2, <2>1, AscendingProps
<1>4. /\ \A i \in 1 .. n : at[i] \in staying
      /\ \A k \in staying : \E i \in 1 .. n : at[i] = k
  <2>1. DOMAIN at = 1 .. n
    BY <1>3
  <2> QED BY <1>3, <2>1 DEF Range
<1>5. \A k : k \in staying <=> k \in DOMAIN waiters /\ waiters[k].job \notin gone
  OBVIOUS
<1> HIDE DEF at, n, staying
<1>6. /\ waiters' \in Seq(Waiting) /\ DOMAIN waiters' = 1 .. n
      /\ \A i \in 1 .. n : waiters'[i] = waiters[at[i]]
  <2>1. \A i \in 1 .. n : waiters[at[i]] \in Waiting
    BY <1>2, <1>4, <1>5
  <2> QED BY <1>1, <1>2, <2>1
<1>7. \A i, k \in DOMAIN waiters' : waiters'[i].job = waiters'[k].job => i = k
  BY <1>3, <1>4, <1>5, <1>6 DEF NoDuplicates
<1>8. WaitingJobs' = WaitingJobs \ gone
  <2>1. \A j : j \in WaitingJobs <=> \E k \in DOMAIN waiters : waiters[k].job = j
    BY DEF WaitingJobs, ToSet
  <2>2. \A j : j \in WaitingJobs' <=> \E k \in DOMAIN waiters' : waiters'[k].job = j
    BY DEF WaitingJobs, ToSet
  <2>3. ASSUME NEW j \in WaitingJobs' PROVE j \in WaitingJobs \ gone
    BY <1>4, <1>5, <1>6, <2>1, <2>2
  <2>4. ASSUME NEW j \in WaitingJobs \ gone PROVE j \in WaitingJobs'
    <3>1. PICK k \in DOMAIN waiters : waiters[k].job = j
      BY <2>1
    <3>2. PICK i \in 1 .. n : at[i] = k
      BY <1>4, <1>5, <3>1
    <3> QED BY <1>6, <2>2, <3>1, <3>2
  <2> QED BY <2>3, <2>4
<1>9. \A j \in left : j \in Jobs /\ j \in submitted \ done
  BY PlacesExclude, HeldAreJobs
<1>10. SchedulerTypeOK'
  BY <1>1, <1>6, <1>9 DEF SchedulerTypeOK
<1>11. SlotsCounted' /\ Live' = Live /\ LiveJobs' = LiveJobs
  BY <1>1, SlotsKept
<1>12. NoDuplicates'
  BY <1>1, <1>7, <1>11 DEF NoDuplicates
<1>13. PlacedOnce'
  <2> SUFFICES ASSUME NEW k \in Jobs PROVE (Places(k) = Held(k \in submitted \ done))'
    BY DEF PlacedOnce
  <2>1. Places(k) = Held(k \in submitted \ done)
    BY DEF PlacedOnce
  <2>2. CASE k \in left
    BY <1>1, <1>8, <1>9, <1>11, <2>1, <2>2, PlacesExclude DEF Places, Held
  <2>3. CASE k \notin left
    BY <1>1, <1>8, <1>11, <2>1, <2>3 DEF Places, Held
  <2> QED BY <2>2, <2>3
<1>14. AnswersCounted'
  BY <1>1 DEF AnswersCounted
<1>15. LineShape' /\ LineInOrder'
  <2>1. Suffix(queue', queue) /\ Suffix(stage', stage)
    BY <1>1 DEF Suffix
  <2>2. \A j \in WaitingJobs' : /\ j \in ToSet(arrivals) /\ ~ pflash_wants(j)
                                /\ \E m \in Jobs : <<j, m>> \in Shares
    BY <1>8 DEF LineShape
  <2>3. deferred' # None =>
          /\ deferred' \in ToSet(arrivals) /\ ~ pflash_wants(deferred')
          /\ \A a \in Jobs : ArrivedFirst(a, deferred') =>
               a \notin ToSet(queue') \cup ToSet(stage') \cup {compressing}
    BY <1>1, DeferredIsFirst DEF InLine
  <2> QED BY <1>1, <2>1, <2>2, <2>3, LineMoves
<1> QED BY <1>10, <1>11, <1>12, <1>13, <1>14, <1>15

(* Everybody outside the queue is answered and let go. *)
LEMMA TeardownStep ==
  ASSUME SchedulerInv, teardown
  PROVE  SchedulerInv'
<1> USE DEF SchedulerInv
<1> DEFINE all == LiveJobs \cup LeftInLine
<1>1. /\ compressing = None /\ pc' = "flush_queue"
      /\ answers' = [j \in Jobs |-> answers[j] + IF j \in all THEN 1 ELSE 0]
      /\ done' = done \cup all \cup drains
      /\ stage' = <<>> /\ waiters' = <<>> /\ deferred' = None /\ drains' = {}
      /\ slots' = [i \in SlotIds |-> NoJob] /\ live_slots' = 0 /\ engine_slots' = {}
      /\ backoff' = FALSE
      /\ UNCHANGED <<staging, queue, compressing, prepared, unpreparable, loaded, stopping,
                     submitted, gone, arrivals, excused, next_admission_order>>
  BY DEF teardown, LiveJobs, clientVars
<1>2. all = LiveJobs \cup ToSet(stage) \cup WaitingJobs \cup ({deferred} \ {None})
  BY DEF LeftInLine
<1>3. all \subseteq Jobs
  BY <1>2, HeldAreJobs DEF SchedulerTypeOK
<1>4. \A j \in all : j \in submitted \ (done \cup drains) /\ j \notin ToSet(queue)
  BY <1>2, <1>3, PlacesExclude
<1>5. \A j \in Jobs : \/ j \in ToSet(queue) \/ j \in all \/ j \in drains
                      \/ j \notin submitted \ done
  BY <1>1, <1>2, PlacesExclude, HeldAreJobs
<1>6. \A j \in drains : j \in Jobs /\ j \in submitted \ done /\ j \notin ToSet(queue)
  BY PlacesExclude, HeldAreJobs
<1>7. \A j \in Jobs : j \in ToSet(queue) => j \in submitted \ done
  BY PlacesExclude
<1> HIDE DEF all
<1>8. /\ answers' \in [Jobs -> Nat]
      /\ \A j \in Jobs : answers'[j] = IF j \in all THEN 1 ELSE answers[j]
  <2>1. \A j \in all : answers[j] = 0
    BY <1>3, <1>4, HeldUnanswered
  <2>2. \A j \in Jobs : answers'[j] = IF j \in all THEN 1 ELSE answers[j]
    BY <1>1, <2>1 DEF SchedulerTypeOK
  <2>3. \A j \in Jobs : answers[j] + (IF j \in all THEN 1 ELSE 0) \in Nat
    BY DEF SchedulerTypeOK
  <2>4. answers' \in [Jobs -> Nat]
    BY <1>1, <2>3
  <2> QED BY <2>2, <2>4
<1>9. NoJob \in SchedSlots
  BY DEF NoJob, SchedSlots
<1>10. SchedulerTypeOK'
  <2>1. slots' \in [SlotIds -> SchedSlots]
    BY <1>1, <1>9
  <2>2. done' \subseteq submitted'
    BY <1>1, <1>4, <1>6 DEF SchedulerTypeOK
  <2>3. waiters' \in Seq(Waiting) /\ stage' \in Seq(Jobs)
    BY <1>1
  <2> QED BY <1>1, <1>8, <2>1, <2>2, <2>3 DEF SchedulerTypeOK
<1>11. Live' = {} /\ LiveJobs' = {} /\ WaitingJobs' = {} /\ ToSet(stage') = {}
  <2>1. Live' = {}
    BY <1>1 DEF Live, NoJob
  <2> QED BY <1>1, <2>1 DEF LiveJobs, WaitingJobs, ToSet
<1>12. SlotsCounted'
  BY <1>1, <1>11, FS_EmptySet DEF SlotsCounted
<1>13. NoDuplicates'
  BY <1>1, <1>11 DEF NoDuplicates, IsInjective
<1>14. PlacedOnce'
  <2> SUFFICES ASSUME NEW k \in Jobs PROVE (Places(k) = Held(k \in submitted \ done))'
    BY DEF PlacedOnce
  <2>1. k # None
    BY HeldAreJobs
  <2>2. CASE k \in ToSet(queue)
    <3>1. k \notin all /\ k \notin drains /\ k \in submitted \ done
      BY <1>4, <1>6, <1>7, <2>2
    <3> QED BY <1>1, <1>11, <2>1, <2>2, <3>1 DEF Places, Held
  <2>3. CASE k \notin ToSet(queue)
    <3>1. k \notin submitted' \ done'
      BY <1>1, <1>5, <2>3
    <3> QED BY <1>1, <1>11, <2>1, <2>3, <3>1 DEF Places, Held
  <2> QED BY <2>2, <2>3
<1>15. AnswersCounted'
  BY <1>1, <1>8 DEF AnswersCounted
<1>16. LineShape' /\ LineInOrder'
  <2>1. Suffix(queue', queue) /\ Suffix(stage', stage)
    BY <1>1 DEF Suffix
  <2> QED BY <1>1, <1>11, <2>1, LineMoves
<1> QED BY <1>10, <1>12, <1>13, <1>14, <1>15, <1>16

-----------------------------------------------------------------------------
(* Steps of the engine.                                                    *)

LEMMA RetireStep ==
  ASSUME SchedulerInv,
         NEW R \in SUBSET Live, NEW lost \in SUBSET R,
         NEW after \in [SlotIds -> SchedSlots], NEW drained \in SUBSET drains,
         \A i \in SlotIds : after[i].job = slots[i].job,
         Retire(R, lost, after, drained),
         excused \subseteq excused', excused' \subseteq Jobs,
         \A i \in lost : slots[i].job \in gone \cup excused',
         pc' \in {"top", "admit", "work", "step", "join", "flush_queue", "exited"},
         staging' \subseteq SlotIds,
         UNCHANGED <<queue, stage, compressing, prepared, unpreparable, deferred, loaded,
                     waiters, stopping, submitted, gone, arrivals, next_admission_order>>
  PROVE  SchedulerInv'
<1> USE DEF SchedulerInv
<1> DEFINE ended == {slots[i].job : i \in R}
           kept == {slots[i].job : i \in R \ lost}
<1>1. /\ slots' = [i \in SlotIds |-> IF i \in R THEN NoJob ELSE after[i]]
      /\ engine_slots' = engine_slots \ R
      /\ live_slots' = live_slots - Cardinality(R)
      /\ answers' = [j \in Jobs |-> answers[j] + IF j \in kept THEN 1 ELSE 0]
      /\ backoff' \in BOOLEAN
      /\ \E buffered \in SUBSET kept :
           /\ drains' = (drains \ drained) \cup buffered
           /\ done' = done \cup drained \cup (ended \ buffered)
  BY DEF Retire
<1>2. PICK buffered \in SUBSET kept :
        /\ drains' = (drains \ drained) \cup buffered
        /\ done' = done \cup drained \cup (ended \ buffered)
  BY <1>1
<1>3. ended \subseteq LiveJobs /\ kept \subseteq ended /\ LiveJobs \subseteq Jobs
  BY HeldAreJobs DEF LiveJobs
<1>4. \A j \in ended : /\ j \in submitted \ (done \cup drains)
                       /\ j \notin ToSet(queue) \cup ToSet(stage) \cup WaitingJobs
                       /\ j # compressing /\ j # deferred
  BY <1>3, PlacesExclude
<1>5. \A j \in drained : /\ j \in Jobs /\ j \in submitted \ done
                         /\ j \notin ToSet(queue) \cup ToSet(stage) \cup WaitingJobs \cup LiveJobs
                         /\ j # compressing /\ j # deferred
  BY PlacesExclude, HeldAreJobs
<1>6. \A j \in ended \ kept : j \in gone \cup excused'
  OBVIOUS
<1>7. Live' = Live \ R
  <2>1. NoJob.job = None
    BY DEF NoJob
  <2>2. \A i \in SlotIds : slots'[i].job = IF i \in R THEN None ELSE slots[i].job
    BY <1>1, <2>1
  <2> QED BY <2>2 DEF Live
<1>8. /\ \A i \in Live' : i \in Live \ R /\ slots'[i].job = slots[i].job
      /\ LiveJobs' = LiveJobs \ ended
  <2>1. \A i \in Live' : i \in Live \ R /\ i \in SlotIds /\ slots'[i].job = slots[i].job
    BY <1>1, <1>7 DEF Live
  <2>2. ASSUME NEW j \in LiveJobs' PROVE j \in LiveJobs \ ended
    <3>1. PICK i \in Live' : j = slots'[i].job
      BY DEF LiveJobs
    <3>2. i \in Live \ R /\ j = slots[i].job
      BY <2>1, <3>1
    <3>3. j \notin ended
      BY <3>2 DEF NoDuplicates
    <3> QED BY <3>2, <3>3 DEF LiveJobs
  <2>3. ASSUME NEW j \in LiveJobs \ ended PROVE j \in LiveJobs'
    <3>1. PICK i \in Live : j = slots[i].job
      BY DEF LiveJobs
    <3>2. i \in Live'
      BY <1>7, <2>3, <3>1
    <3> QED BY <2>1, <3>1, <3>2 DEF LiveJobs
  <2> QED BY <2>1, <2>2, <2>3
<1> HIDE DEF ended, kept
<1>9. /\ answers' \in [Jobs -> Nat]
      /\ \A j \in Jobs : answers'[j] = IF j \in kept THEN 1 ELSE answers[j]
  <2>1. \A j \in kept : answers[j] = 0
    BY <1>3, <1>4, HeldUnanswered
  <2>2. \A j \in Jobs : answers'[j] = IF j \in kept THEN 1 ELSE answers[j]
    BY <1>1, <2>1 DEF SchedulerTypeOK
  <2>3. \A j \in Jobs : answers[j] + (IF j \in kept THEN 1 ELSE 0) \in Nat
    BY DEF SchedulerTypeOK
  <2>4. answers' \in [Jobs -> Nat]
    BY <1>1, <2>3
  <2> QED BY <2>2, <2>4
<1>10. SchedulerTypeOK'
  <2>1. slots' \in [SlotIds -> SchedSlots]
    <3>1. NoJob \in SchedSlots
      BY DEF NoJob, SchedSlots
    <3> QED BY <1>1, <3>1
  <2>2. done' \subseteq submitted' /\ drains' \subseteq Jobs
    BY <1>2, <1>3, <1>4, <1>5 DEF SchedulerTypeOK
  <2> QED BY <1>1, <1>9, <2>1, <2>2 DEF SchedulerTypeOK
<1>11. SlotsCounted'
  <2>1. IsFiniteSet(Live) /\ Live \cap R = R
    BY SchedulerConstants, FS_Subset DEF Live
  <2>2. Cardinality(Live \ R) = Cardinality(Live) - Cardinality(R)
    <3>1. Cardinality(Live \ R) = Cardinality(Live) - Cardinality(Live \cap R)
      BY <2>1, FS_Difference
    <3> QED BY <2>1, <3>1
  <2> QED BY <1>1, <1>7, <2>2 DEF SlotsCounted
<1>12. NoDuplicates'
  <2>1. \A i, k \in Live' : slots'[i].job = slots'[k].job => i = k
    BY <1>8 DEF NoDuplicates
  <2> QED BY <2>1 DEF NoDuplicates
<1>13. PlacedOnce'
  <2> SUFFICES ASSUME NEW k \in Jobs PROVE (Places(k) = Held(k \in submitted \ done))'
    BY DEF PlacedOnce
  <2>1. WaitingJobs' = WaitingJobs
    BY DEF WaitingJobs
  <2>2. Places(k) = Held(k \in submitted \ done)
    BY DEF PlacedOnce
  <2>3. CASE k \in ended
    BY <1>2, <1>3, <1>4, <1>5, <1>8, <2>1, <2>3 DEF Places, Held
  <2>4. CASE k \in drained
    BY <1>2, <1>3, <1>5, <1>8, <2>1, <2>4 DEF Places, Held
  <2>5. CASE k \notin ended \cup drained
    BY <1>2, <1>3, <1>8, <2>1, <2>2, <2>5 DEF Places, Held
  <2> QED BY <2>3, <2>4, <2>5
<1>14. AnswersCounted'
  <2> SUFFICES ASSUME NEW j \in Jobs
               PROVE  (/\ answers[j] <= 1
                       /\ answers[j] = 1 => j \in done \cup drains
                       /\ j \in drains => answers[j] = 1
                       /\ j \in done => answers[j] = 1 \/ j \in gone \cup excused)'
    BY DEF AnswersCounted
  <2>1. /\ answers[j] <= 1
        /\ answers[j] = 1 => j \in done \cup drains
        /\ j \in drains => answers[j] = 1
        /\ j \in done => answers[j] = 1 \/ j \in gone \cup excused
    BY DEF AnswersCounted
  <2>2. answers'[j] = IF j \in kept THEN 1 ELSE answers[j]
    BY <1>9
  <2> QED BY <1>2, <1>3, <1>6, <2>1, <2>2
<1>15. LineShape' /\ LineInOrder'
  BY LineKept
<1> QED BY <1>10, <1>11, <1>12, <1>13, <1>14, <1>15

LEMMA EngineStep ==
  ASSUME SchedulerInv,
         \/ cancel \/ step_fails
         \/ \E drained \in SUBSET drains, R \in SUBSET Live : step(R, drained)
  PROVE  SchedulerInv'
<1>1. SchedulerTypeOK /\ slots \in [SlotIds -> SchedSlots] /\ excused \subseteq Jobs
      /\ staging \subseteq SlotIds /\ {} \in SUBSET drains
  BY DEF SchedulerInv, SchedulerTypeOK
<1>2. CASE cancel
  <2> DEFINE R == {i \in Live : slots[i].job \in gone}
  <2>1. /\ Retire(R, R, slots, {}) /\ pc' \in {"top", "step"}
        /\ UNCHANGED <<queue, stage, compressing, prepared, unpreparable, deferred, loaded,
                       waiters, stopping, submitted, gone, arrivals, excused,
                       next_admission_order>>
    BY <1>2 DEF cancel, clientVars
  <2>2. R \in SUBSET Live /\ R \in SUBSET R /\ \A i \in R : slots[i].job \in gone \cup excused'
    OBVIOUS
  <2>3. staging' \subseteq SlotIds
    BY <1>1, <1>2 DEF cancel
  <2> HIDE DEF R
  <2> QED BY <1>1, <2>1, <2>2, <2>3, RetireStep
<1>3. CASE step_fails
  <2>1. /\ Retire(Live, {}, slots, {}) /\ pc' = "top"
        /\ UNCHANGED <<queue, stage, compressing, prepared, unpreparable, deferred, loaded,
                       waiters, stopping, submitted, gone, arrivals, excused,
                       next_admission_order>>
    BY <1>3 DEF step_fails, clientVars
  <2>2. Live \in SUBSET Live /\ {} \in SUBSET Live
    OBVIOUS
  <2>3. staging' \subseteq SlotIds
    BY <1>1, <1>3 DEF step_fails, AdvanceStaging, Live
  <2> QED BY <1>1, <2>1, <2>2, <2>3, RetireStep
<1>4. ASSUME NEW drained \in SUBSET drains, NEW R \in SUBSET Live, step(R, drained)
      PROVE  SchedulerInv'
  <2> DEFINE after(outcome) ==
        [i \in SlotIds |-> IF i \in Live \ R THEN Advanced(slots[i], outcome[i]) ELSE slots[i]]
  <2>1. PICK lost \in SUBSET R, outcome \in [Live \ R -> Outcomes] :
          /\ Retire(R, lost, after(outcome), drained)
          /\ excused' = excused \cup {slots[i].job : i \in lost}
    BY <1>4 DEF step
  <2>2. /\ pc' = "top"
        /\ UNCHANGED <<queue, stage, compressing, prepared, unpreparable, deferred, loaded,
                       waiters, stopping, submitted, gone, arrivals, next_admission_order>>
    BY <1>4 DEF step, clientVars
  <2> DEFINE a == after(outcome)
  <2>3. \A s \in SchedSlots : \A o :
          Advanced(s, o) \in SchedSlots /\ Advanced(s, o).job = s.job
    BY DEF Advanced, SchedSlots
  <2>4. a \in [SlotIds -> SchedSlots] /\ \A i \in SlotIds : a[i].job = slots[i].job
    <3>1. \A i \in SlotIds : slots[i] \in SchedSlots
      BY <1>1
    <3>2. \A i \in SlotIds : a[i] = slots[i] \/ a[i] = Advanced(slots[i], outcome[i])
      OBVIOUS
    <3>3. \A i \in SlotIds : a[i] \in SchedSlots /\ a[i].job = slots[i].job
      <4> HIDE DEF a
      <4> QED BY <2>3, <3>1, <3>2
    <3>4. a = [i \in SlotIds |-> a[i]]
      OBVIOUS
    <3> HIDE DEF a
    <3> QED BY <3>3, <3>4
  <2>5. Retire(R, lost, a, drained)
    BY <2>1
  <2>6. {slots[i].job : i \in lost} \subseteq Jobs
    <3>1. \A i \in lost : slots[i].job \in LiveJobs
      BY DEF LiveJobs
    <3> QED BY <1>1, <3>1, HeldAreJobs
  <2>7. /\ excused \subseteq excused' /\ excused' \subseteq Jobs
        /\ \A i \in lost : slots[i].job \in gone \cup excused'
    BY <1>1, <2>1, <2>6
  <2>8. staging' \subseteq SlotIds
    BY <1>1, <1>4 DEF step, AdvanceStaging, Live
  <2> HIDE DEF a
  <2> QED BY <2>2, <2>4, <2>5, <2>7, <2>8, RetireStep
<1> QED BY <1>2, <1>3, <1>4

-----------------------------------------------------------------------------
(* Admission.                                                              *)

JobsOf(ws) == {w.job : w \in ToSet(ws)}

OneWaitEach(ws) == \A k, m \in DOMAIN ws : ws[k].job = ws[m].job => k = m

LEMMA WaitersAreJobs ==
  ASSUME NEW ws \in Seq(Waiting)
  PROVE  JobsOf(ws) \subseteq Jobs
<1> SUFFICES ASSUME NEW k \in DOMAIN ws PROVE ws[k].job \in Jobs
  BY DEF JobsOf, ToSet
<1>1. ws[k] \in Waiting
  OBVIOUS
<1> QED BY <1>1 DEF Waiting

LEMMA CandidateCases ==
  ASSUME NEW c \in Candidates
  PROVE  \/ /\ deferred # None /\ c.job = deferred
            /\ ~ c.fresh /\ c.queue = queue /\ c.waiters = waiters
         \/ /\ deferred = None
            /\ \E k \in ReadyWaiters :
                 /\ c.job = waiters[k].job /\ c.waiters = RemoveAt(waiters, k)
                 /\ ~ c.fresh /\ c.queue = queue
         \/ /\ deferred = None /\ queue # <<>>
            /\ c.job = Head(queue) /\ c.queue = Tail(queue)
            /\ c.fresh /\ c.waiters = waiters
<1> DEFINE From(j, fresh, q, w) == [job |-> j, fresh |-> fresh, queue |-> q, waiters |-> w]
           heads == IF \E k \in DOMAIN waiters : WaitIsOver(waiters[k]) THEN {} ELSE {queue} \ {<<>>}
<1>1. CASE deferred # None
  <2>1. c = From(deferred, FALSE, queue, waiters)
    BY <1>1 DEF Candidates
  <2> QED BY <1>1, <2>1
<1>2. CASE deferred = None
  <2>1. \/ \E k \in ReadyWaiters : c = From(waiters[k].job, FALSE, queue, RemoveAt(waiters, k))
        \/ \E q \in heads : c = From(Head(q), TRUE, Tail(q), waiters)
    BY <1>2 DEF Candidates
  <2>2. ASSUME NEW k \in ReadyWaiters, c = From(waiters[k].job, FALSE, queue, RemoveAt(waiters, k))
        PROVE  /\ c.job = waiters[k].job /\ c.waiters = RemoveAt(waiters, k)
               /\ ~ c.fresh /\ c.queue = queue
    BY <2>2
  <2>3. ASSUME NEW q \in heads, c = From(Head(q), TRUE, Tail(q), waiters)
        PROVE  /\ queue # <<>> /\ c.job = Head(queue) /\ c.queue = Tail(queue)
               /\ c.fresh /\ c.waiters = waiters
    <3>1. q = queue /\ queue # <<>>
      OBVIOUS
    <3> QED BY <2>3, <3>1
  <2> HIDE DEF From, heads
  <2> QED BY <1>2, <2>1, <2>2, <2>3
<1> QED BY <1>1, <1>2

(* The line without the candidate. *)
CandidateTaken(c) ==
  /\ c.job \in Jobs /\ c.job \in submitted \ done /\ c.job \in ToSet(arrivals)
  /\ c.job \notin ToSet(stage) \cup LiveJobs \cup drains /\ c.job # compressing
  /\ Suffix(c.queue, queue) /\ c.queue \in Seq(Jobs) /\ IsInjective(c.queue)
  /\ c.waiters \in Seq(Waiting) /\ OneWaitEach(c.waiters)
  /\ c.job \notin ToSet(c.queue) \cup JobsOf(c.waiters)
  /\ \A j \in Jobs \ {c.job} : /\ j \in ToSet(c.queue) <=> j \in ToSet(queue)
                               /\ j \in JobsOf(c.waiters) <=> j \in WaitingJobs
                               /\ j # deferred
  /\ c.fresh => deferred = None

(* Nobody of its kind, arrived before it, is still in the part of the line  *)
(* a candidate came out of. *)
CandidateFirst(c) ==
  /\ ~ pflash_wants(c.job) => \A a \in Jobs : ArrivedFirst(a, c.job) => a \notin InLine
  /\ pflash_wants(c.job) =>
       /\ queue # <<>> /\ c.job = Head(queue) /\ c.queue = Tail(queue)
       /\ \A a \in Jobs : ArrivedFirst(a, c.job) => a \notin Unprepared

LEMMA WaiterTaken ==
  ASSUME SchedulerInv, NEW k \in DOMAIN waiters
  PROVE  LET r == RemoveAt(waiters, k)
         IN  /\ r \in Seq(Waiting) /\ OneWaitEach(r)
             /\ JobsOf(r) = WaitingJobs \ {waiters[k].job}
<1> DEFINE r == RemoveAt(waiters, k)
           n == Len(waiters)
           from(i) == IF i < k THEN i ELSE i + 1
<1>1. /\ waiters \in Seq(Waiting) /\ n \in Nat /\ DOMAIN waiters = 1 .. n /\ k \in 1 .. n
      /\ OneWaitEach(waiters)
  BY DEF SchedulerInv, SchedulerTypeOK, NoDuplicates, OneWaitEach
<1>2. /\ r \in Seq(Waiting) /\ DOMAIN r = 1 .. n - 1
      /\ \A i \in 1 .. k - 1 : r[i] = waiters[i]
      /\ \A i \in k .. n - 1 : r[i] = waiters[i + 1]
  BY <1>1, RemoveAtProps
<1> HIDE DEF r, n
<1>3. \A i \in 1 .. n - 1 : from(i) \in 1 .. n /\ from(i) # k /\ r[i] = waiters[from(i)]
  <2> TAKE i \in 1 .. n - 1
  <2>1. CASE i < k
    <3>1. i \in 1 .. k - 1
      BY <1>1, <2>1
    <3> QED BY <1>1, <1>2, <2>1, <3>1
  <2>2. CASE ~ (i < k)
    <3>1. i \in k .. n - 1 /\ i + 1 \in 1 .. n /\ i + 1 # k
      BY <1>1, <2>2
    <3> QED BY <1>2, <2>2, <3>1
  <2> QED BY <2>1, <2>2
<1>4. \A m \in 1 .. n : m # k => \E i \in 1 .. n - 1 : from(i) = m
  <2> SUFFICES ASSUME NEW m \in 1 .. n, m # k PROVE \E i \in 1 .. n - 1 : from(i) = m
    OBVIOUS
  <2>1. CASE m < k
    <3>1. m \in 1 .. n - 1 /\ from(m) = m
      BY <1>1, <2>1
    <3> QED BY <3>1
  <2>2. CASE ~ (m < k)
    <3>1. m - 1 \in 1 .. n - 1 /\ ~ (m - 1 < k) /\ (m - 1) + 1 = m
      BY <1>1, <2>2
    <3>2. from(m - 1) = m
      BY <3>1
    <3> QED BY <3>1, <3>2
  <2> QED BY <2>1, <2>2
<1>5. \A i, m \in 1 .. n - 1 : from(i) = from(m) => i = m
  BY <1>1
<1> HIDE DEF from
<1>6. OneWaitEach(r)
  <2> SUFFICES ASSUME NEW i \in 1 .. n - 1, NEW m \in 1 .. n - 1, r[i].job = r[m].job
               PROVE  i = m
    BY <1>2 DEF OneWaitEach
  <2>1. from(i) = from(m)
    BY <1>1, <1>3 DEF OneWaitEach
  <2> QED BY <1>5, <2>1
<1>7. JobsOf(r) = WaitingJobs \ {waiters[k].job}
  <2>1. \A j : j \in JobsOf(r) <=> \E i \in 1 .. n - 1 : r[i].job = j
    BY <1>2 DEF JobsOf, ToSet
  <2>2. \A j : j \in WaitingJobs <=> \E m \in 1 .. n : waiters[m].job = j
    BY <1>1 DEF WaitingJobs, ToSet
  <2>3. ASSUME NEW j \in JobsOf(r) PROVE j \in WaitingJobs \ {waiters[k].job}
    <3>1. PICK i \in 1 .. n - 1 : r[i].job = j
      BY <2>1
    <3>2. from(i) \in 1 .. n /\ from(i) # k /\ waiters[from(i)].job = j
      BY <1>3, <3>1
    <3>3. j # waiters[k].job
      BY <1>1, <3>2 DEF OneWaitEach
    <3> QED BY <2>2, <3>2, <3>3
  <2>4. ASSUME NEW j \in WaitingJobs \ {waiters[k].job} PROVE j \in JobsOf(r)
    <3>1. PICK m \in 1 .. n : waiters[m].job = j
      BY <2>2
    <3>2. PICK i \in 1 .. n - 1 : from(i) = m
      BY <1>4, <2>4, <3>1
    <3> QED BY <1>3, <2>1, <3>1, <3>2
  <2> QED BY <2>3, <2>4
<1> QED BY <1>2, <1>6, <1>7 DEF r

LEMMA CandidateProps ==
  ASSUME SchedulerInv, NEW c \in Candidates
  PROVE  CandidateTaken(c) /\ CandidateFirst(c)
<1> USE DEF SchedulerInv
<1>1. /\ queue \in Seq(Jobs) /\ IsInjective(queue) /\ waiters \in Seq(Waiting)
      /\ OneWaitEach(waiters) /\ JobsOf(waiters) = WaitingJobs
      /\ Suffix(queue, queue)
  BY DEF SchedulerTypeOK, NoDuplicates, OneWaitEach, JobsOf, WaitingJobs, Suffix
<1>2. CASE /\ deferred # None /\ c.job = deferred
           /\ ~ c.fresh /\ c.queue = queue /\ c.waiters = waiters
  <2>1. c.job \in Jobs /\ c.job \in ToSet(arrivals) /\ ~ pflash_wants(c.job)
    BY <1>2, DeferredIsFirst DEF SchedulerTypeOK
  <2>2. CandidateTaken(c)
    BY <1>1, <1>2, <2>1, PlacesExclude DEF CandidateTaken
  <2>3. CandidateFirst(c)
    BY <1>2, <2>1, DeferredIsFirst DEF CandidateFirst
  <2> QED BY <2>2, <2>3
<1>3. CASE /\ deferred = None
           /\ \E k \in ReadyWaiters :
                /\ c.job = waiters[k].job /\ c.waiters = RemoveAt(waiters, k)
                /\ ~ c.fresh /\ c.queue = queue
  <2>1. PICK k \in DOMAIN waiters : /\ c.job = waiters[k].job /\ c.waiters = RemoveAt(waiters, k)
                                    /\ ~ c.fresh /\ c.queue = queue
    BY <1>3 DEF ReadyWaiters
  <2>2. /\ c.waiters \in Seq(Waiting) /\ OneWaitEach(c.waiters)
        /\ JobsOf(c.waiters) = WaitingJobs \ {c.job}
    BY <2>1, WaiterTaken
  <2>3. c.job \in WaitingJobs /\ c.job \in Jobs
    BY <2>1, HeldAreJobs DEF WaitingJobs, ToSet
  <2>4. ~ pflash_wants(c.job) /\ \E m \in Jobs : <<c.job, m>> \in Shares
    BY <2>3 DEF LineShape
  <2>5. None \notin Jobs
    BY HeldAreJobs
  <2>6. c.job \in ToSet(arrivals)
    BY <2>3 DEF LineShape
  <2>7. CandidateTaken(c)
    BY <1>1, <1>3, <2>1, <2>2, <2>3, <2>5, <2>6, PlacesExclude DEF CandidateTaken
  <2>8. \A a \in Jobs : ~ ArrivedFirst(a, c.job)
    BY <2>3, <2>4 DEF ArrivedFirst
  <2> QED BY <2>4, <2>7, <2>8 DEF CandidateFirst
<1>4. CASE /\ deferred = None /\ queue # <<>>
           /\ c.job = Head(queue) /\ c.queue = Tail(queue)
           /\ c.fresh /\ c.waiters = waiters
  <2> DEFINE h == Head(queue)
  <2>1. /\ Tail(queue) \in Seq(Jobs) /\ h \in Jobs /\ h \in ToSet(queue)
        /\ ToSet(Tail(queue)) = ToSet(queue) \ {h} /\ IsInjective(Tail(queue))
    BY <1>1, <1>4, TailRest, Zenon
  <2>2. Suffix(Tail(queue), queue)
    BY <1>4 DEF Suffix
  <2>3. None \notin Jobs
    BY HeldAreJobs
  <2>4. h = queue[1] /\ 1 \in DOMAIN queue /\ DOMAIN queue = 1 .. Len(queue) /\ Len(queue) \in Nat
    BY <1>1, <1>4, TailShifts, Zenon
  <2> HIDE DEF h
  <2>5. c.job = h
    BY <1>4 DEF h
  <2>6. h \in ToSet(arrivals)
    BY <2>1, <2>3 DEF LineShape, InLine
  <2>7. CandidateTaken(c)
    BY <1>1, <1>4, <2>1, <2>2, <2>3, <2>5, <2>6, PlacesExclude DEF CandidateTaken
  <2>8. ASSUME NEW a \in Jobs, ArrivedFirst(a, h) PROVE a \notin ToSet(queue) /\ InOrder(a, h)
    <3>1. InOrder(a, h)
      BY <2>1, <2>8 DEF LineInOrder
    <3>2. ASSUME NEW i \in DOMAIN queue, queue[i] = a PROVE FALSE
      <4>1. i < 1
        BY <2>4, <3>1, <3>2 DEF InOrder
      <4> QED BY <2>4, <4>1
    <3> QED BY <3>1, <3>2 DEF ToSet
  <2>9. ASSUME ~ pflash_wants(h), NEW a \in Jobs, ArrivedFirst(a, h) PROVE a \notin InLine
    <3>1. a \notin ToSet(queue) /\ InOrder(a, h) /\ a # None
      BY <2>3, <2>8, <2>9
    <3>2. a \in PflashJobs => h \in ToSet(queue) \cap prepared
      BY <2>1, <2>9 DEF ArrivedFirst, pflash_wants
    <3>3. a \in ToSet(stage) \cup {compressing} => a \in PflashJobs
      BY <3>1 DEF LineShape, pflash_wants
    <3> QED BY <1>4, <3>1, <3>2, <3>3 DEF InOrder, InLine
  <2> QED BY <1>4, <2>5, <2>7, <2>8, <2>9 DEF CandidateFirst, Unprepared, h
<1> QED BY <1>2, <1>3, <1>4, CandidateCases

(* The candidate leaves for good, answered or not. *)
LEMMA DropStep ==
  ASSUME SchedulerInv, NEW c, CandidateTaken(c),
         queue' = c.queue, waiters' = c.waiters, deferred' = None,
         done' = done \cup {c.job},
         excused \subseteq excused', excused' \subseteq Jobs,
         gone \subseteq gone', gone' \subseteq Jobs,
         \/ answers' = [answers EXCEPT ![c.job] = @ + 1]
         \/ answers' = answers /\ c.job \in gone' \cup excused',
         UNCHANGED <<pc, stage, compressing, prepared, unpreparable, backoff, loaded, slots,
                     live_slots, engine_slots, staging, drains, stopping, submitted, arrivals,
                     next_admission_order>>
  PROVE  SchedulerInv'
<1> USE DEF SchedulerInv
<1> DEFINE j == c.job
<1>1. /\ j \in Jobs /\ j \in submitted \ done
      /\ j \notin ToSet(stage) \cup LiveJobs \cup drains /\ j # compressing
      /\ Suffix(queue', queue) /\ queue' \in Seq(Jobs) /\ IsInjective(queue')
      /\ waiters' \in Seq(Waiting) /\ OneWaitEach(waiters')
      /\ j \notin ToSet(queue') \cup WaitingJobs'
      /\ \A k \in Jobs \ {j} : /\ k \in ToSet(queue') <=> k \in ToSet(queue)
                               /\ k \in WaitingJobs' <=> k \in WaitingJobs
                               /\ k # deferred
  BY DEF CandidateTaken, JobsOf, WaitingJobs
<1>2. done' = done \cup {j}
  OBVIOUS
<1> HIDE DEF j
<1>3. answers[j] = 0
  BY <1>1, HeldUnanswered
<1>4. /\ answers' \in [Jobs -> Nat]
      /\ \A k \in Jobs \ {j} : answers'[k] = answers[k]
      /\ answers'[j] = 1 \/ (answers'[j] = 0 /\ j \in gone' \cup excused')
  <2>1. CASE answers' = [answers EXCEPT ![j] = @ + 1]
    BY <1>1, <1>3, <2>1 DEF SchedulerTypeOK
  <2>2. CASE answers' = answers /\ j \in gone' \cup excused'
    BY <1>1, <1>3, <2>2 DEF SchedulerTypeOK
  <2> QED BY <2>1, <2>2 DEF j
<1>5. SchedulerTypeOK'
  BY <1>1, <1>2, <1>4 DEF SchedulerTypeOK
<1>6. SlotsCounted' /\ Live' = Live /\ LiveJobs' = LiveJobs
  BY SlotsKept
<1>7. NoDuplicates'
  BY <1>1, <1>6 DEF NoDuplicates, OneWaitEach
<1>8. PlacedOnce'
  <2> SUFFICES ASSUME NEW k \in Jobs PROVE (Places(k) = Held(k \in submitted \ done))'
    BY DEF PlacedOnce
  <2>1. Places(k) = Held(k \in submitted \ done) /\ k # None
    BY HeldAreJobs DEF PlacedOnce
  <2>2. CASE k = j
    BY <1>1, <1>2, <1>6, <2>1, <2>2 DEF Places, Held
  <2>3. CASE k # j
    BY <1>1, <1>2, <1>6, <2>1, <2>3 DEF Places, Held
  <2> QED BY <2>2, <2>3
<1>9. AnswersCounted'
  <2> SUFFICES ASSUME NEW k \in Jobs
               PROVE  (/\ answers[k] <= 1
                       /\ answers[k] = 1 => k \in done \cup drains
                       /\ k \in drains => answers[k] = 1
                       /\ k \in done => answers[k] = 1 \/ k \in gone \cup excused)'
    BY DEF AnswersCounted
  <2>1. /\ answers[k] <= 1
        /\ answers[k] = 1 => k \in done \cup drains
        /\ k \in drains => answers[k] = 1
        /\ k \in done => answers[k] = 1 \/ k \in gone \cup excused
    BY DEF AnswersCounted
  <2>2. CASE k = j
    BY <1>1, <1>2, <1>4, <2>2
  <2>3. CASE k # j
    BY <1>2, <1>4, <2>1, <2>3
  <2> QED BY <2>2, <2>3
<1>10. LineShape' /\ LineInOrder'
  <2>1. Suffix(stage', stage)
    BY DEF Suffix
  <2>2. \A k \in WaitingJobs' : /\ k \in ToSet(arrivals) /\ ~ pflash_wants(k)
                                /\ \E m \in Jobs : <<k, m>> \in Shares
    <3>1. WaitingJobs' \subseteq Jobs
      BY <1>1, WaitersAreJobs DEF WaitingJobs, JobsOf
    <3> QED BY <1>1, <3>1 DEF LineShape
  <2> QED BY <1>1, <2>1, <2>2, LineMoves
<1> QED BY <1>5, <1>6, <1>7, <1>8, <1>9, <1>10

(* The candidate takes a free slot. *)
LEMMA AdmitStep ==
  ASSUME SchedulerInv, NEW c, CandidateTaken(c), NEW capture \in BOOLEAN,
         queue' = c.queue, waiters' = c.waiters, AdmitCandidate(c.job, capture)
  PROVE  SchedulerInv'
<1> USE DEF SchedulerInv
<1> DEFINE j == c.job
           s == [job |-> j, order |-> next_admission_order, prefilling |-> TRUE,
                 capture |-> capture]
<1>1. /\ j \in Jobs /\ j \in submitted \ done
      /\ j \notin ToSet(stage) \cup LiveJobs \cup drains /\ j # compressing
      /\ Suffix(queue', queue) /\ queue' \in Seq(Jobs) /\ IsInjective(queue')
      /\ waiters' \in Seq(Waiting) /\ OneWaitEach(waiters')
      /\ j \notin ToSet(queue') \cup WaitingJobs'
      /\ \A k \in Jobs \ {j} : /\ k \in ToSet(queue') <=> k \in ToSet(queue)
                               /\ k \in WaitingJobs' <=> k \in WaitingJobs
                               /\ k # deferred
  BY DEF CandidateTaken, JobsOf, WaitingJobs
<1>2. /\ live_slots' = live_slots + 1 /\ next_admission_order' = next_admission_order + 1
      /\ deferred' = None
      /\ UNCHANGED <<pc, stage, compressing, prepared, unpreparable, backoff, loaded, staging,
                     drains, stopping, submitted, gone, arrivals, done, answers, excused>>
  BY DEF AdmitCandidate, clientVars, answerVars
<1>3. PICK i \in SlotIds \ engine_slots :
        slots' = [slots EXCEPT ![i] = s] /\ engine_slots' = engine_slots \cup {i}
  BY DEF AdmitCandidate
<1>4. s \in SchedSlots /\ s.job = j
  BY <1>1 DEF SchedSlots, SchedulerTypeOK
<1> HIDE DEF j, s
<1>5. /\ slots' \in [SlotIds -> SchedSlots] /\ slots'[i].job = j
      /\ \A k \in SlotIds \ {i} : slots'[k] = slots[k]
      /\ i \in SlotIds /\ i \notin Live
  BY <1>3, <1>4 DEF SchedulerTypeOK, SlotsCounted
<1>6. None \notin Jobs
  BY HeldAreJobs
<1>7. Live' = Live \cup {i}
  BY <1>1, <1>5, <1>6 DEF Live
<1>8. LiveJobs' = LiveJobs \cup {j}
  <2>1. \A k \in Live : k \in SlotIds /\ slots'[k].job = slots[k].job
    BY <1>5 DEF Live
  <2> QED BY <1>5, <1>7, <2>1 DEF LiveJobs
<1>9. SchedulerTypeOK'
  BY <1>1, <1>2, <1>5 DEF SchedulerTypeOK
<1>10. SlotsCounted'
  <2>1. IsFiniteSet(Live)
    BY SchedulerConstants, FS_Subset DEF Live
  <2>2. Cardinality(Live \cup {i}) = Cardinality(Live) + 1
    BY <1>5, <2>1, FS_AddElement
  <2> QED BY <1>2, <1>3, <1>7, <2>2 DEF SlotsCounted
<1>11. NoDuplicates'
  <2>1. \A k, m \in Live' : slots'[k].job = slots'[m].job => k = m
    <3>1. \A k \in Live : slots'[k].job = slots[k].job /\ slots[k].job # j
      BY <1>1, <1>5 DEF Live, LiveJobs
    <3> QED BY <1>5, <1>7, <3>1 DEF NoDuplicates
  <2> QED BY <1>1, <1>2, <2>1 DEF NoDuplicates, OneWaitEach
<1>12. PlacedOnce'
  <2> SUFFICES ASSUME NEW k \in Jobs PROVE (Places(k) = Held(k \in submitted \ done))'
    BY DEF PlacedOnce
  <2>1. Places(k) = Held(k \in submitted \ done) /\ k # None
    BY <1>6 DEF PlacedOnce
  <2>2. CASE k = j
    BY <1>1, <1>2, <1>8, <2>1, <2>2 DEF Places, Held
  <2>3. CASE k # j
    BY <1>1, <1>2, <1>8, <2>1, <2>3 DEF Places, Held
  <2> QED BY <2>2, <2>3
<1>13. AnswersCounted'
  BY <1>2 DEF AnswersCounted
<1>14. LineShape' /\ LineInOrder'
  <2>1. Suffix(stage', stage)
    BY <1>2 DEF Suffix
  <2>2. \A k \in WaitingJobs' : /\ k \in ToSet(arrivals) /\ ~ pflash_wants(k)
                                /\ \E m \in Jobs : <<k, m>> \in Shares
    <3>1. WaitingJobs' \subseteq Jobs
      BY <1>1, WaitersAreJobs DEF WaitingJobs, JobsOf
    <3> QED BY <1>1, <3>1 DEF LineShape
  <2> QED BY <1>1, <1>2, <2>1, <2>2, LineMoves
<1> QED BY <1>9, <1>10, <1>11, <1>12, <1>13, <1>14

(* The candidate is put back at the head of the line. *)
LEMMA DeferStep ==
  ASSUME SchedulerInv, NEW c, CandidateTaken(c), CandidateFirst(c), NEW loading \in BOOLEAN,
         queue' = c.queue, waiters' = c.waiters, DeferCandidate(c.job, loading)
  PROVE  SchedulerInv'
<1> USE DEF SchedulerInv
<1> DEFINE j == c.job
<1>1. /\ j \in Jobs /\ j \in submitted \ done /\ j \in ToSet(arrivals)
      /\ j \notin ToSet(stage) \cup LiveJobs \cup drains /\ j # compressing
      /\ Suffix(queue', queue) /\ queue' \in Seq(Jobs) /\ IsInjective(queue')
      /\ waiters' \in Seq(Waiting) /\ OneWaitEach(waiters')
      /\ j \notin ToSet(queue') \cup WaitingJobs'
      /\ \A k \in Jobs \ {j} : /\ k \in ToSet(queue') <=> k \in ToSet(queue)
                               /\ k \in WaitingJobs' <=> k \in WaitingJobs
                               /\ k # deferred
  BY DEF CandidateTaken, JobsOf, WaitingJobs
<1>2. /\ deferred' = j /\ backoff' = TRUE /\ pc' = "work" /\ ~ pflash_wants(j)
      /\ loaded' \subseteq loaded \cup {j}
      /\ UNCHANGED <<stage, compressing, prepared, unpreparable, slots, live_slots,
                     engine_slots, staging, drains, stopping, submitted, gone, arrivals, done, answers,
                     excused, next_admission_order>>
  BY DEF DeferCandidate, Admissible, slotVars, clientVars, answerVars
<1>3. \A a \in Jobs : ArrivedFirst(a, j) => a \notin InLine
  BY <1>2 DEF CandidateFirst
<1> HIDE DEF j
<1>4. SchedulerTypeOK'
  BY <1>1, <1>2 DEF SchedulerTypeOK
<1>5. SlotsCounted' /\ Live' = Live /\ LiveJobs' = LiveJobs
  BY <1>2, SlotsKept
<1>6. NoDuplicates'
  BY <1>1, <1>2, <1>5 DEF NoDuplicates, OneWaitEach
<1>7. PlacedOnce'
  <2> SUFFICES ASSUME NEW k \in Jobs PROVE (Places(k) = Held(k \in submitted \ done))'
    BY DEF PlacedOnce
  <2>1. Places(k) = Held(k \in submitted \ done)
    BY DEF PlacedOnce
  <2>2. CASE k = j
    BY <1>1, <1>2, <1>5, <2>1, <2>2 DEF Places, Held
  <2>3. CASE k # j
    BY <1>1, <1>2, <1>5, <2>1, <2>3 DEF Places, Held
  <2> QED BY <2>2, <2>3
<1>8. AnswersCounted'
  BY <1>2 DEF AnswersCounted
<1>9. LineShape' /\ LineInOrder'
  <2>1. Suffix(stage', stage)
    BY <1>2 DEF Suffix
  <2>2. \A k \in WaitingJobs' : /\ k \in ToSet(arrivals) /\ ~ pflash_wants(k)
                                /\ \E m \in Jobs : <<k, m>> \in Shares
    <3>1. WaitingJobs' \subseteq Jobs
      BY <1>1, WaitersAreJobs DEF WaitingJobs, JobsOf
    <3> QED BY <1>1, <3>1 DEF LineShape
  <2>3. ToSet(queue') \cup ToSet(stage') \cup {compressing} \subseteq InLine
    <3>1. ToSet(queue') \subseteq ToSet(queue)
      BY <1>1, SuffixProps DEF SchedulerTypeOK
    <3> QED BY <1>2, <3>1 DEF InLine
  <2> QED BY <1>1, <1>2, <1>3, <2>1, <2>2, <2>3, LineMoves
<1> QED BY <1>4, <1>5, <1>6, <1>7, <1>8, <1>9

(* The candidate waits for the prefix of a live slot. *)
LEMMA WaitStep ==
  ASSUME SchedulerInv, NEW c, CandidateTaken(c), queue' = c.queue, WaitForLeader(c)
  PROVE  SchedulerInv'
<1> USE DEF SchedulerInv
<1> DEFINE j == c.job
           ws == c.waiters
           w(i) == [job |-> j, leader |-> i, order |-> slots[i].order]
<1>1. /\ j \in Jobs /\ j \in submitted \ done /\ j \in ToSet(arrivals)
      /\ j \notin ToSet(stage) \cup LiveJobs \cup drains /\ j # compressing
      /\ Suffix(queue', queue) /\ queue' \in Seq(Jobs) /\ IsInjective(queue')
      /\ ws \in Seq(Waiting) /\ OneWaitEach(ws) /\ j \notin ToSet(queue') \cup JobsOf(ws)
      /\ deferred = None
      /\ \A k \in Jobs \ {j} : /\ k \in ToSet(queue') <=> k \in ToSet(queue)
                               /\ k \in JobsOf(ws) <=> k \in WaitingJobs
  BY DEF CandidateTaken, WaitForLeader
<1>2. /\ ~ pflash_wants(j)
      /\ UNCHANGED <<pc, stage, compressing, prepared, unpreparable, deferred, backoff, loaded,
                     slots, live_slots, engine_slots, staging, drains, stopping, submitted, gone,
                     arrivals, done, answers, excused, next_admission_order>>
  BY DEF WaitForLeader, Admissible, slotVars, clientVars, answerVars
<1>3. PICK i \in Leaders(j) : waiters' = Append(ws, w(i))
  BY DEF WaitForLeader
<1>4. i \in SlotIds /\ \E m \in Jobs : <<j, m>> \in Shares
  BY SchedulerConstants DEF Leaders, Live
<1>5. w(i) \in Waiting /\ w(i).job = j
  <2>1. slots[i] \in SchedSlots
    BY <1>4 DEF SchedulerTypeOK
  <2> QED BY <1>1, <1>4, <2>1 DEF Waiting, SchedSlots
<1> HIDE DEF j, ws, w
<1>6. /\ waiters' \in Seq(Waiting) /\ ToSet(waiters') = ToSet(ws) \cup {w(i)}
  BY <1>1, <1>3, <1>5, AppendNew
<1>7. WaitingJobs' = JobsOf(ws) \cup {j}
  BY <1>5, <1>6 DEF WaitingJobs, JobsOf
<1>8. OneWaitEach(waiters')
  <2> DEFINE n == Len(ws)
  <2>1. /\ n \in Nat /\ DOMAIN ws = 1 .. n /\ DOMAIN waiters' = 1 .. n + 1
        /\ (\A k \in 1 .. n : waiters'[k] = ws[k]) /\ waiters'[n + 1] = w(i)
    BY <1>1, <1>3, <1>5
  <2>2. \A k \in 1 .. n + 1 : k \in 1 .. n \/ k = n + 1
    BY <2>1
  <2>3. \A k \in 1 .. n : ws[k].job # j
    BY <1>1, <2>1 DEF JobsOf, ToSet
  <2> HIDE DEF n
  <2> QED BY <1>1, <1>5, <2>1, <2>2, <2>3 DEF OneWaitEach
<1>9. SchedulerTypeOK'
  BY <1>1, <1>2, <1>6 DEF SchedulerTypeOK
<1>10. SlotsCounted' /\ Live' = Live /\ LiveJobs' = LiveJobs
  BY <1>2, SlotsKept
<1>11. NoDuplicates'
  BY <1>1, <1>2, <1>8, <1>10 DEF NoDuplicates, OneWaitEach
<1>12. PlacedOnce'
  <2> SUFFICES ASSUME NEW k \in Jobs PROVE (Places(k) = Held(k \in submitted \ done))'
    BY DEF PlacedOnce
  <2>1. Places(k) = Held(k \in submitted \ done) /\ k # None
    BY HeldAreJobs DEF PlacedOnce
  <2>2. CASE k = j
    BY <1>1, <1>2, <1>7, <1>10, <2>1, <2>2 DEF Places, Held
  <2>3. CASE k # j
    BY <1>1, <1>2, <1>7, <1>10, <2>1, <2>3 DEF Places, Held
  <2> QED BY <2>2, <2>3
<1>13. AnswersCounted'
  BY <1>2 DEF AnswersCounted
<1>14. LineShape' /\ LineInOrder'
  <2>1. Suffix(stage', stage)
    BY <1>2 DEF Suffix
  <2>2. \A k \in WaitingJobs' : /\ k \in ToSet(arrivals) /\ ~ pflash_wants(k)
                                /\ \E m \in Jobs : <<k, m>> \in Shares
    <3>1. JobsOf(ws) \subseteq Jobs
      BY <1>1, WaitersAreJobs
    <3> QED BY <1>1, <1>2, <1>4, <1>7, <3>1 DEF LineShape
  <2> QED BY <1>1, <1>2, <2>1, <2>2, LineMoves
<1> QED BY <1>9, <1>10, <1>11, <1>12, <1>13, <1>14

(* The candidate is handed to the compression thread. *)
LEMMA StageStep ==
  ASSUME SchedulerInv, NEW c, CandidateTaken(c), CandidateFirst(c),
         queue' = c.queue, waiters' = c.waiters, StageCandidate(c.job)
  PROVE  SchedulerInv'
<1> USE DEF SchedulerInv
<1> DEFINE j == c.job
<1>1. /\ j \in Jobs /\ j \in submitted \ done /\ j \in ToSet(arrivals)
      /\ j \notin ToSet(stage) \cup LiveJobs \cup drains /\ j # compressing
      /\ Suffix(queue', queue) /\ queue' \in Seq(Jobs) /\ IsInjective(queue')
      /\ waiters' \in Seq(Waiting) /\ OneWaitEach(waiters')
      /\ j \notin ToSet(queue') \cup WaitingJobs'
      /\ \A k \in Jobs \ {j} : /\ k \in ToSet(queue') <=> k \in ToSet(queue)
                               /\ k \in WaitingJobs' <=> k \in WaitingJobs
                               /\ k # deferred
  BY DEF CandidateTaken, JobsOf, WaitingJobs
<1>2. /\ pflash_wants(j) /\ stage' = Append(stage, j) /\ deferred' = None
      /\ UNCHANGED <<pc, compressing, prepared, unpreparable, backoff, loaded, slots,
                     live_slots, engine_slots, staging, drains, stopping, submitted, gone, arrivals,
                     done, answers, excused, next_admission_order>>
  BY DEF StageCandidate, slotVars, clientVars, answerVars
<1>3. /\ queue # <<>> /\ j = Head(queue)
      /\ \A a \in Jobs : ArrivedFirst(a, j) => a \notin Unprepared
  BY <1>2 DEF CandidateFirst
<1> HIDE DEF j
<1>4. /\ stage \in Seq(Jobs) /\ IsInjective(stage) /\ queue \in Seq(Jobs)
  BY DEF SchedulerTypeOK, NoDuplicates
<1>5. /\ stage' \in Seq(Jobs) /\ ToSet(stage') = ToSet(stage) \cup {j} /\ IsInjective(stage')
  BY <1>1, <1>2, <1>4, AppendNew
<1>6. None \notin Jobs
  BY HeldAreJobs
<1>7. SchedulerTypeOK'
  BY <1>1, <1>2, <1>5 DEF SchedulerTypeOK
<1>8. SlotsCounted' /\ Live' = Live /\ LiveJobs' = LiveJobs
  BY <1>2, SlotsKept
<1>9. NoDuplicates'
  BY <1>1, <1>2, <1>5, <1>8 DEF NoDuplicates, OneWaitEach
<1>10. PlacedOnce'
  <2> SUFFICES ASSUME NEW k \in Jobs PROVE (Places(k) = Held(k \in submitted \ done))'
    BY DEF PlacedOnce
  <2>1. Places(k) = Held(k \in submitted \ done) /\ k # None
    BY <1>6 DEF PlacedOnce
  <2>2. CASE k = j
    BY <1>1, <1>2, <1>5, <1>8, <2>1, <2>2 DEF Places, Held
  <2>3. CASE k # j
    BY <1>1, <1>2, <1>5, <1>8, <2>1, <2>3 DEF Places, Held
  <2> QED BY <2>2, <2>3
<1>11. AnswersCounted'
  BY <1>2 DEF AnswersCounted
<1>12. /\ 1 \in DOMAIN queue /\ queue[1] = j /\ DOMAIN queue = 1 .. Len(queue)
       /\ Len(queue) \in Nat /\ j \notin prepared
  BY <1>2, <1>3, <1>4, TailShifts, Zenon DEF pflash_wants
(* An unprepared head: nobody in the queue is prepared. *)
<1>13. ToSet(queue) \cap prepared = {}
  <2> SUFFICES ASSUME NEW k \in DOMAIN queue, queue[k] \in prepared PROVE FALSE
    BY DEF ToSet
  <2>1. k # 1 /\ k \in 1 .. Len(queue)
    BY <1>12
  <2>2. 1 < k
    BY <1>12, <2>1
  <2> QED BY <1>12, <2>2 DEF LineShape
<1>14. /\ ToSet(queue') \subseteq ToSet(queue) /\ Unprepared' \subseteq Unprepared
       /\ j \in Unprepared
  <2>1. ToSet(queue') \subseteq ToSet(queue)
    BY <1>1, <1>4, SuffixProps
  <2>2. j \in ToSet(queue)
    BY <1>12 DEF ToSet
  <2> QED BY <1>2, <1>12, <2>1, <2>2 DEF Unprepared
<1>15. LineShape'
  <2>1. \A i, k \in DOMAIN queue' : i < k /\ queue'[k] \in prepared => queue'[i] \in prepared
    BY <1>13, <1>14 DEF ToSet
  <2>2. ~ pflash_wants(None)
    BY <1>6, SchedulerConstants DEF pflash_wants
  <2>3. \A k \in WaitingJobs' : /\ k \in ToSet(arrivals) /\ ~ pflash_wants(k)
                                /\ \E m \in Jobs : <<k, m>> \in Shares
    <3>1. WaitingJobs' \subseteq Jobs
      BY <1>1, WaitersAreJobs DEF WaitingJobs, JobsOf
    <3> QED BY <1>1, <3>1 DEF LineShape
  <2>4. InLine' \subseteq InLine \cup {j, None}
    BY <1>2, <1>5, <1>14 DEF InLine
  <2>5. \A k \in ToSet(stage') \cup ({compressing} \ {None}) : pflash_wants(k)
    BY <1>2, <1>5 DEF LineShape
  <2>6. InLine' \ {None} \subseteq ToSet(arrivals)
    BY <1>1, <2>4 DEF LineShape
  <2>7. prepared \subseteq PflashJobs \cap submitted /\ ToSet(arrivals) \subseteq submitted
    BY DEF LineShape
  <2> QED BY <1>2, <2>1, <2>2, <2>3, <2>5, <2>6, <2>7 DEF LineShape, pflash_wants
<1>16. LineInOrder'
  <2> SUFFICES ASSUME NEW a \in Jobs, NEW b \in Jobs, ArrivedFirst(a, b)' PROVE InOrder(a, b)'
    BY DEF LineInOrder
  <2>1. ArrivedFirst(a, b)
    BY <1>2 DEF ArrivedFirst
  <2>2. InOrder(a, b) /\ a # b
    BY <2>1, ArrivalsDiffer DEF LineInOrder
  <2>3. b = j => a \notin Unprepared
    BY <1>3, <2>1
  <2>4. \A i, k \in DOMAIN queue' : queue'[i] = a /\ queue'[k] = b => i < k
    <3>1. PICK s \in Nat : \A i \in DOMAIN queue' :
            i \in Int /\ i + s \in DOMAIN queue /\ queue'[i] = queue[i + s]
      <4>1. queue \in Seq(Jobs) /\ Suffix(queue', queue)
        BY <1>1, <1>4
      <4> QED BY <4>1, SuffixProps
    <3> SUFFICES ASSUME NEW i \in DOMAIN queue', NEW k \in DOMAIN queue',
                        queue'[i] = a, queue'[k] = b
                 PROVE  i < k
      OBVIOUS
    <3>2. i + s < k + s /\ i \in Int /\ k \in Int
      BY <2>2, <3>1 DEF InOrder
    <3> QED BY <3>2
  <2>5. \A i, k \in DOMAIN stage' : stage'[i] = a /\ stage'[k] = b => i < k
    <3> DEFINE n == Len(stage)
    <3>1. /\ n \in Nat /\ DOMAIN stage = 1 .. n /\ DOMAIN stage' = 1 .. n + 1
          /\ (\A i \in 1 .. n : stage'[i] = stage[i]) /\ stage'[n + 1] = j
      BY <1>1, <1>2, <1>4
    <3> HIDE DEF n
    <3> SUFFICES ASSUME NEW i \in 1 .. n + 1, NEW k \in 1 .. n + 1,
                        stage'[i] = a, stage'[k] = b
                 PROVE  i < k
      BY <3>1
    <3>2. CASE k \in 1 .. n
      <4>1. b \in ToSet(stage) /\ stage[k] = b
        BY <3>1, <3>2 DEF ToSet
      <4>2. a # j
        BY <1>14, <2>2, <4>1 DEF InOrder
      <4>3. i \in 1 .. n /\ stage[i] = a
        BY <3>1, <4>2
      <4> QED BY <2>2, <3>1, <3>2, <4>1, <4>3 DEF InOrder
    <3>3. CASE k = n + 1
      <4>1. i # n + 1
        BY <2>2, <3>3
      <4> QED BY <3>1, <3>3, <4>1
    <3> QED BY <3>1, <3>2, <3>3
  <2> QED BY <1>2, <1>5, <1>6, <1>13, <1>14, <2>2, <2>3, <2>4, <2>5 DEF InOrder
<1> QED BY <1>7, <1>8, <1>9, <1>10, <1>11, <1>15, <1>16

LEMMA AdmitNextStep ==
  ASSUME SchedulerInv, admit_next
  PROVE  SchedulerInv'
<1>1. PICK c \in Candidates :
        /\ queue' = c.queue
        /\ \/ WaitForLeader(c)
           \/ /\ waiters' = c.waiters
              /\ \/ CandidateGone(c.job) \/ CandidateUnpreparable(c.job)
                 \/ StageCandidate(c.job) \/ RefuseCandidate(c.job)
                 \/ ReturnBusy(c.job) \/ AdmitThenLoseClient(c.job)
                 \/ \E b \in BOOLEAN : DeferCandidate(c.job, b) \/ AdmitCandidate(c.job, b)
  BY DEF admit_next
<1>2. CandidateTaken(c) /\ CandidateFirst(c)
  BY CandidateProps
<1>3. CASE WaitForLeader(c)
  BY <1>1, <1>2, <1>3, WaitStep
<1>4. CASE waiters' = c.waiters /\ StageCandidate(c.job)
  BY <1>1, <1>2, <1>4, StageStep
<1>5. ASSUME NEW b \in BOOLEAN, waiters' = c.waiters, DeferCandidate(c.job, b)
      PROVE  SchedulerInv'
  BY <1>1, <1>2, <1>5, DeferStep
<1>6. ASSUME NEW b \in BOOLEAN, waiters' = c.waiters, AdmitCandidate(c.job, b)
      PROVE  SchedulerInv'
  BY <1>1, <1>2, <1>6, AdmitStep
<1>7. CASE /\ waiters' = c.waiters
           /\ \/ CandidateGone(c.job) \/ CandidateUnpreparable(c.job)
              \/ RefuseCandidate(c.job) \/ ReturnBusy(c.job) \/ AdmitThenLoseClient(c.job)
  <2> DEFINE j == c.job
  <2>1. j \in Jobs /\ gone \subseteq Jobs /\ excused \subseteq Jobs
    BY <1>2 DEF CandidateTaken, SchedulerInv, SchedulerTypeOK
  <2>2. \/ j \in gone /\ drop_job(j, FALSE, FALSE)
        \/ drop_job(j, TRUE, FALSE)
        \/ drop_job(j, FALSE, TRUE)
        \/ AdmitThenLoseClient(j)
    BY <1>7 DEF CandidateGone, CandidateUnpreparable, RefuseCandidate, ReturnBusy
  <2> HIDE DEF j
  <2>3. /\ deferred' = None /\ done' = done \cup {j}
        /\ excused \subseteq excused' /\ excused' \subseteq Jobs
        /\ gone \subseteq gone' /\ gone' \subseteq Jobs
        /\ \/ answers' = [answers EXCEPT ![j] = @ + 1]
           \/ answers' = answers /\ j \in gone' \cup excused'
        /\ UNCHANGED <<pc, stage, compressing, prepared, unpreparable, backoff, loaded, slots,
                       live_slots, engine_slots, staging, drains, stopping, submitted, arrivals,
                       next_admission_order>>
    <3>1. CASE j \in gone /\ drop_job(j, FALSE, FALSE)
      BY <2>1, <3>1 DEF drop_job, slotVars, clientVars
    <3>2. CASE drop_job(j, TRUE, FALSE)
      BY <2>1, <3>2 DEF drop_job, slotVars, clientVars
    <3>3. CASE drop_job(j, FALSE, TRUE)
      BY <2>1, <3>3 DEF drop_job, slotVars, clientVars
    <3>4. CASE AdmitThenLoseClient(j)
      BY <2>1, <3>4 DEF AdmitThenLoseClient, slotVars
    <3> QED BY <2>2, <3>1, <3>2, <3>3, <3>4
  <2> QED BY <1>1, <1>2, <1>7, <2>3, DropStep DEF j
<1> QED BY <1>1, <1>3, <1>4, <1>5, <1>6, <1>7

-----------------------------------------------------------------------------
(* The theorems.                                                           *)

LEMMA SchedulerInit == Init => SchedulerInv
<1> SUFFICES ASSUME Init PROVE SchedulerInv
  OBVIOUS
<1> USE DEF Init
<1>1. SchedulerTypeOK
  <2>1. NoJob \in SchedSlots
    BY DEF NoJob, SchedSlots
  <2>2. slots \in [SlotIds -> SchedSlots] /\ answers \in [Jobs -> Nat]
    BY <2>1
  <2>3. queue \in Seq(Jobs) /\ stage \in Seq(Jobs) /\ arrivals \in Seq(Jobs)
        /\ waiters \in Seq(Waiting)
    OBVIOUS
  <2> QED BY <2>2, <2>3, SchedulerConstants DEF SchedulerTypeOK
<1>2. Live = {} /\ LiveJobs = {} /\ WaitingJobs = {} /\ ToSet(queue) = {}
      /\ ToSet(stage) = {} /\ ToSet(arrivals) = {}
  <2>1. Live = {}
    BY DEF Live, NoJob
  <2> QED BY <2>1 DEF LiveJobs, WaitingJobs, ToSet
<1>3. SlotsCounted
  BY <1>2, FS_EmptySet DEF SlotsCounted
<1>4. NoDuplicates
  BY <1>2 DEF NoDuplicates, IsInjective
<1>5. None \notin Jobs
  BY HeldAreJobs, <1>1
<1>6. PlacedOnce
  BY <1>2, <1>5 DEF PlacedOnce, Places, Held
<1>7. AnswersCounted
  BY DEF AnswersCounted
<1>8. LineShape
  BY <1>2, <1>5, SchedulerConstants DEF LineShape, InLine, pflash_wants
<1>9. LineInOrder
  BY <1>2, <1>5 DEF LineInOrder, InOrder, ArrivedFirst
<1> QED BY <1>1, <1>3, <1>4, <1>6, <1>7, <1>8, <1>9 DEF SchedulerInv

LEMMA SchedulerStep == SchedulerInv /\ [Next]_vars => SchedulerInv'
<1> SUFFICES ASSUME SchedulerInv, [Next]_vars PROVE SchedulerInv'
  OBVIOUS
<1>1. CASE SchedulerThread
  <2>1. CASE sweep_waiters
    BY <2>1, SweepStep
  <2>2. CASE admit_next
    BY <2>2, AdmitNextStep
  <2>3. CASE end_admission
    BY <2>3, QuietStep
  <2>4. CASE cancel \/ step_fails
    BY <2>4, EngineStep
  <2>5. ASSUME NEW drained \in SUBSET drains, idle_drains(drained) PROVE SchedulerInv'
    BY <2>5, IdleDrainsStep
  <2>6. ASSUME NEW drained \in SUBSET drains, NEW R \in SUBSET Live, step(R, drained)
        PROVE  SchedulerInv'
    BY <2>6, EngineStep
  <2>7. CASE teardown
    BY <2>7, TeardownStep
  <2>8. CASE flush_queue
    BY <2>8, FlushQueueStep
  <2> QED BY <1>1, <2>1, <2>2, <2>3, <2>4, <2>5, <2>6, <2>7, <2>8 DEF SchedulerThread
<1>2. CASE CompressionThread
  BY <1>2, TakeStep, ReturnStep DEF CompressionThread
<1>3. CASE Environment
  BY <1>3, EnqueueStep, QuietStep DEF Environment
<1>4. CASE retry_due
  BY <1>4, QuietStep
<1>5. CASE UNCHANGED vars
  <2>1. /\ UNCHANGED <<pc, queue, stage, compressing, prepared, unpreparable, deferred,
                       backoff, loaded, waiters>>
        /\ UNCHANGED <<slots, live_slots, engine_slots, staging, drains>>
        /\ UNCHANGED <<stopping, submitted, gone, arrivals, done, answers, excused>>
        /\ UNCHANGED next_admission_order
    BY <1>5 DEF vars, lineVars, slotVars, clientVars, answerVars
  <2>2. SchedulerTypeOK'
    BY <2>1 DEF SchedulerInv, SchedulerTypeOK
  <2>3. SlotsCounted' /\ NoDuplicates' /\ LineShape' /\ LineInOrder'
    BY <2>1, LineKept, SlotsKept, DistinctKept DEF SchedulerInv
  <2>4. PlacedOnce' /\ AnswersCounted'
    BY <2>1 DEF SchedulerInv, PlacedOnce, Places, Live, LiveJobs, WaitingJobs, AnswersCounted
  <2> QED BY <2>2, <2>3, <2>4 DEF SchedulerInv
<1> QED BY <1>1, <1>2, <1>3, <1>4, <1>5 DEF Next, terminated

(* Whatever the threads do: each structure is well formed, a job is in one  *)
(* place or done, answers and drains agree, and the line is in order. *)
THEOREM SchedulerInvariant == Spec => []SchedulerInv
<1> QED BY SchedulerInit, SchedulerStep, PTL DEF Spec

(* No interleaving of enqueue, compression, deferral, waiting, disconnects  *)
(* and teardown loses a job, holds it twice, or keeps a job that is done. *)
THEOREM JobsAreHeldOnce == Spec => []HeldExactlyOnce
<1>1. SchedulerInv => HeldExactlyOnce
  <2> SUFFICES ASSUME SchedulerInv, NEW j \in submitted
               PROVE  Holders(j) = IF j \in done THEN 0 ELSE 1
    BY DEF HeldExactlyOnce
  <2>1. j \in Jobs
    BY DEF SchedulerInv, SchedulerTypeOK
  <2>2. Holders(j) = Places(j)
    BY <2>1, HoldersArePlaces DEF SchedulerInv
  <2>3. Places(j) = Held(j \in submitted \ done)
    BY <2>1 DEF SchedulerInv, PlacedOnce
  <2> QED BY <2>2, <2>3 DEF Held
<1> QED BY <1>1, SchedulerInvariant, PTL

(* Each client gets one final answer, and none is forgotten. *)
THEOREM ClientsAnsweredOnce == Spec => []AnsweredOnce
<1>1. SchedulerInv => AnsweredOnce
  BY DEF SchedulerInv, AnswersCounted, AnsweredOnce
<1> QED BY <1>1, SchedulerInvariant, PTL

(* A slot is only ever taken by an admission. *)
LEMMA TakenByAdmission ==
  ASSUME SchedulerInv, Next, NEW i \in SlotIds, slots[i].job = None, slots'[i].job # None
  PROVE  \E c \in Candidates, capture \in BOOLEAN :
           AdmitCandidate(c.job, capture) /\ slots'[i].job = c.job
<1>1. slots' # slots
  OBVIOUS
<1>2. \A R, lost, drained : \A after :
        Retire(R, lost, after, drained) => after[i].job # None
  <2> SUFFICES ASSUME NEW R, NEW lost, NEW drained, NEW after,
                      Retire(R, lost, after, drained)
               PROVE  after[i].job # None
    OBVIOUS
  <2>1. slots'[i] = IF i \in R THEN NoJob ELSE after[i]
    BY DEF Retire
  <2> QED BY <2>1 DEF NoJob
<1>3. ~ cancel /\ ~ step_fails
  BY <1>2 DEF cancel, step_fails
<1>4. \A R, drained : ~ step(R, drained)
  <2> SUFFICES ASSUME NEW R, NEW drained, step(R, drained) PROVE FALSE
    OBVIOUS
  <2> DEFINE after(outcome) ==
        [k \in SlotIds |-> IF k \in Live \ R THEN Advanced(slots[k], outcome[k]) ELSE slots[k]]
  <2>1. PICK lost, outcome : Retire(R, lost, after(outcome), drained)
    BY DEF step
  <2>2. i \notin Live
    BY DEF Live
  <2>3. after(outcome)[i] = slots[i]
    BY <2>2
  <2> QED BY <1>2, <2>1, <2>3
<1>5. ~ teardown
  <2>1. teardown => slots'[i] = NoJob
    BY DEF teardown
  <2> QED BY <2>1 DEF NoJob
<1>6. admit_next
  BY <1>1, <1>3, <1>4, <1>5
  DEF Next, SchedulerThread, CompressionThread, Environment, terminated, sweep_waiters,
      end_admission, idle_drains, flush_queue, pflash_take, pflash_return, enqueue,
      disconnect, request_stop, retry_due, slotVars, vars
<1>7. PICK c \in Candidates, capture \in BOOLEAN : AdmitCandidate(c.job, capture)
  BY <1>1, <1>6
  DEF admit_next, WaitForLeader, CandidateGone, CandidateUnpreparable, StageCandidate,
      RefuseCandidate, ReturnBusy, AdmitThenLoseClient, DeferCandidate, drop_job, slotVars
<1>8. slots'[i].job = c.job
  <2>1. PICK k \in SlotIds \ engine_slots : slots' = [slots EXCEPT ![k] =
            [job |-> c.job, order |-> next_admission_order, prefilling |-> TRUE,
             capture |-> capture]]
    BY <1>7 DEF AdmitCandidate
  <2>2. slots \in [SlotIds -> SchedSlots]
    BY DEF SchedulerInv, SchedulerTypeOK
  <2>3. i = k
    BY <2>1, <2>2
  <2> QED BY <2>1, <2>2, <2>3
<1> QED BY <1>7, <1>8

(* "FIFO order survives the deferral": the compression thread's requeue,    *)
(* the deferral and the hand-over to the stage never let a job take a slot  *)
(* before an earlier one of its kind that is still in line. *)
THEOREM NobodyOvertakes == Spec => NoOvertaking
<1> DEFINE Fair(i) == slots[i].job = None /\ slots'[i].job # None =>
             LET l == slots'[i].job
                 b == CHOOSE b \in DOMAIN arrivals : arrivals[b] = l
             IN  \A a \in 1 .. b - 1 :
                   /\ (arrivals[a] \in PflashJobs) = (l \in PflashJobs)
                   /\ \A m \in Jobs : {<<arrivals[a], m>>, <<l, m>>} \cap Shares = {}
                   => arrivals[a] \notin InLine
<1>1. SchedulerInv /\ [Next]_vars => [\A i \in SlotIds : Fair(i)]_vars
  <2> SUFFICES ASSUME SchedulerInv, Next, NEW i \in SlotIds,
                      slots[i].job = None, slots'[i].job # None
               PROVE  Fair(i)
    OBVIOUS
  <2> DEFINE l == slots'[i].job
             b == CHOOSE b \in DOMAIN arrivals : arrivals[b] = l
  <2>1. PICK c \in Candidates, capture \in BOOLEAN :
          AdmitCandidate(c.job, capture) /\ l = c.job
    BY TakenByAdmission
  <2>2. CandidateTaken(c) /\ CandidateFirst(c)
    BY CandidateProps
  <2>3. /\ l \in Jobs /\ l \in ToSet(arrivals)
        /\ \A a \in Jobs : ArrivedFirst(a, l) => a \notin InLine
    BY <2>1, <2>2 DEF CandidateTaken, CandidateFirst, AdmitCandidate, Admissible
  <2>4. b \in DOMAIN arrivals /\ arrivals[b] = l
    BY <2>3 DEF ToSet
  <2>5. arrivals \in Seq(Jobs)
    BY DEF SchedulerInv, SchedulerTypeOK
  <2> HIDE DEF l, b
  <2>6. ASSUME NEW a \in 1 .. b - 1,
               (arrivals[a] \in PflashJobs) = (l \in PflashJobs),
               \A m \in Jobs : {<<arrivals[a], m>>, <<l, m>>} \cap Shares = {}
        PROVE  arrivals[a] \notin InLine
    <3>1. a \in DOMAIN arrivals /\ a < b /\ arrivals[a] \in Jobs
      <4>1. DOMAIN arrivals = 1 .. Len(arrivals) /\ Len(arrivals) \in Nat
        BY <2>5
      <4>2. a \in DOMAIN arrivals /\ a < b
        BY <2>4, <4>1
      <4> QED BY <2>5, <4>2
    <3>2. ArrivedFirst(arrivals[a], l)
      BY <2>4, <2>6, <3>1 DEF ArrivedFirst
    <3> QED BY <2>3, <3>1, <3>2
  <2> QED BY <2>6 DEF l, b
<1> QED BY <1>1, SchedulerInvariant, PTL DEF Spec, NoOvertaking

-----------------------------------------------------------------------------
(* What goes into a step and what comes back (StepPlan).                   *)

(* Who is picked from a line is in it. *)
LEMMA AmongProps ==
  ASSUME NEW C, NEW line \in Seq(C), NEW S
  PROVE  Among(line, S) \in Seq(C) /\ \A k \in DOMAIN Among(line, S) : Among(line, S)[k] \in S
<1> DEFINE out == {i \in DOMAIN line : line[i] \notin S}
           u == Without(line, out)
<1>1. u \in Seq(C)
  BY WithoutProps
<1>2. PICK a : \A k \in DOMAIN u : a[k] \in DOMAIN line \ out /\ u[k] = line[a[k]]
  <2>1. \E a : StoodAt(a, u, line, out)
    BY WithoutProps
  <2> HIDE DEF u, out
  <2> QED BY <2>1, Zenon DEF StoodAt
<1>3. \A i \in DOMAIN line \ out : line[i] \in S
  OBVIOUS
<1>4. Among(line, S) = u
  BY DEF Among
<1> HIDE DEF out, u
<1> QED BY <1>1, <1>2, <1>3, <1>4

(* Only prompts get slices. *)
LEMMA SlicesArePrompts ==
  ASSUME PlanTypeOK, NEW s \in DOMAIN Slices
  PROVE  s \in Prefilling
<1>1. age \in Seq(Slots)
  BY DEF PlanTypeOK
<1>2. ASSUME NEW S \in SUBSET Prefilling PROVE Among(age, S) \in Seq(Prefilling)
  <2>1. Among(age, S) \in Seq(Slots) /\ \A k \in DOMAIN Among(age, S) : Among(age, S)[k] \in S
    BY <1>1, AmongProps
  <2>2. \A k \in DOMAIN Among(age, S) : Among(age, S)[k] \in Prefilling
    BY <2>1
  <2> QED BY <2>1, <2>2
<1>3. Limits[Cardinality(Decoding)].sequences \in Nat
  <2>1. IsFiniteSet(Slots) /\ Cardinality(Slots) = NumSlots
    <3>1. NumSlots \in Nat \ {0}
      BY PlanAssumption
    <3>2. 0 \in Int /\ NumSlots - 1 \in Int /\ ~ 0 > NumSlots - 1 /\ NumSlots - 1 - 0 + 1 = NumSlots
      BY <3>1
    <3>3. IsFiniteSet(0 .. NumSlots - 1)
          /\ Cardinality(0 .. NumSlots - 1) = IF 0 > NumSlots - 1 THEN 0 ELSE NumSlots - 1 - 0 + 1
      BY <3>2, FS_Interval
    <3> QED BY <3>2, <3>3 DEF Slots
  <2>2. Decoding \in SUBSET Slots
    BY DEF Decoding
  <2>3. Cardinality(Decoding) \in Nat /\ Cardinality(Decoding) <= NumSlots
    BY <2>1, <2>2, FS_Subset, FS_CardinalityType
  <2> QED BY <2>3, PlanAssumption
<1>4. ASSUME NEW line \in Seq(Prefilling),
             s \in DOMAIN plan_prefill_slices(line, Cardinality(Decoding), round_robin)
      PROVE  s \in Prefilling
  <2> DEFINE n == Min({Len(line), Limits[Cardinality(Decoding)].sequences})
             share == Deals[Cardinality(Decoding), n, round_robin]
  <2>1. n \in Nat /\ n <= Len(line)
    <3>1. {Len(line), Limits[Cardinality(Decoding)].sequences} \in SUBSET Nat
      BY <1>3
    <3> QED BY <3>1, MinProps
  <2>2. s \in {line[i] : i \in {j \in 1..n : share[j] > 0}}
    BY <1>4 DEF plan_prefill_slices
  <2> HIDE DEF n, share
  <2>3. PICK i \in 1..n : s = line[i]
    BY <2>2
  <2> QED BY <2>1, <2>3
<1>5. ~ TurnOfDecoders
  BY DEF Slices
<1> DEFINE chosen == IF held_long_prompts THEN {q \in Prefilling : fits_one_step(q)} ELSE Prefilling
<1>6. s \in DOMAIN plan_prefill_slices(Among(age, chosen), Cardinality(Decoding), round_robin)
  BY <1>5, Zenon DEF Slices
<1>7. chosen \in SUBSET Prefilling
  OBVIOUS
<1> HIDE DEF chosen
<1>8. Among(age, chosen) \in Seq(Prefilling)
  BY <1>2, <1>7
<1> QED BY <1>4, <1>6, <1>8

(* The answer of a step, whatever the engine does, tells the tokens it fed. *)
LEMMA AnswersTellTokens ==
  ASSUME NEW burst, NEW tokens, NEW prefills, NEW a \in Answers(burst, tokens, prefills)
  PROVE  a.tokens = tokens
BY DEF Answers, Truth

(* An answer that is believed leaves a decoding request as it was. *)
LEMMA DecodeInStep ==
  ASSUME PlanInv, NEW s \in Decoding, NEW burst, NEW prefills, NEW a,
         validate_step_result(burst, prefills, a), a.tokens[s] \in Nat
  PROVE  AfterDecode(s, burst, a) = rows[s]
<1>1. s \in Slots /\ rows[s] = Row(s) /\ rows[s].lag \in Nat
  BY DEF Decoding, PlanInv, PlanTypeOK
<1>2. a.decode[s] = 1
  BY <1>1 DEF validate_step_result, Count
<1>3. s \notin burst => a.tokens[s] = 1
  BY DEF validate_step_result
<1>4. Heard(s, burst, a) = a.tokens[s]
  BY <1>2, <1>3 DEF Heard
<1>5. rows[s].lag + Heard(s, burst, a) - a.tokens[s] = rows[s].lag
  BY <1>1, <1>4
<1>6. [rows[s] EXCEPT !.lag = rows[s].lag] = rows[s]
  BY <1>1 DEF Row
<1> QED BY <1>5, <1>6 DEF AfterDecode

(* And a prompt ends for both at once. *)
LEMMA PrefillInStep ==
  ASSUME PlanInv, NEW s \in Slots, rows[s].phase = "prefill", NEW burst, NEW prefills,
         s \in DOMAIN prefills, NEW a, validate_step_result(burst, prefills, a),
         NEW granted, NEW advance \in Nat, 0 < advance, advance <= rows[s].need
  PROVE  LET r == AfterPrefill(s, granted, advance, a)
         IN  /\ r = [phase |-> r.phase, prompt_left |-> r.prompt_left,
                     prompt_new |-> r.prompt_new, need |-> r.need, lag |-> r.lag]
             /\ r.need \in Nat /\ r.lag \in Nat
             /\ \/ r.phase = "decode" /\ r.lag = 1 /\ r.need = 0
                \/ r.phase = "prefill" /\ r.need > 0
<1> DEFINE left == IF rows[s].prompt_left = Endless THEN Endless
                   ELSE Max({0, rows[s].prompt_left - granted})
<1>1. rows[s] = Row(s) /\ rows[s].lag \in Nat /\ rows[s].need \in Nat
  BY DEF PlanInv, PlanTypeOK
<1>2. a.prefills[s] = 1
  BY DEF validate_step_result, Count
<1>4. /\ rows[s] = [phase |-> "prefill", prompt_left |-> rows[s].prompt_left,
                     prompt_new |-> rows[s].prompt_new, need |-> rows[s].need, lag |-> rows[s].lag]
  BY <1>1 DEF Row
<1>5. PICK x, y, z, n, l : /\ x = left /\ y = rows[s].prompt_left /\ z = rows[s].prompt_new
                           /\ n = rows[s].need /\ l = rows[s].lag
  OBVIOUS
<1>6. rows[s] = [phase |-> "prefill", prompt_left |-> y, prompt_new |-> z, need |-> n, lag |-> l]
  BY <1>4, <1>5
<1>7. PICK now : now = [rows[s] EXCEPT !.prompt_left = x, !.need = @ - advance]
  OBVIOUS
<1>8. AfterPrefill(s, granted, advance, a) =
        IF now.need = 0 /\ a.prefills[s] > 0
        THEN [now EXCEPT !.phase = "decode", !.lag = a.prefills[s]] ELSE now
  BY <1>5, <1>7, Zenon DEF AfterPrefill
<1> HIDE DEF left
<1>9. now = [phase |-> "prefill", prompt_left |-> x, prompt_new |-> z, need |-> n - advance, lag |-> l]
  <2>1. ASSUME NEW r, NEW m, NEW q,
               r = [phase |-> "prefill", prompt_left |-> y, prompt_new |-> z, need |-> n, lag |-> l],
               q = [r EXCEPT !.prompt_left = x, !.need = m]
        PROVE  q = [phase |-> "prefill", prompt_left |-> x, prompt_new |-> z, need |-> m, lag |-> l]
    BY <2>1
  <2>2. now = [rows[s] EXCEPT !.prompt_left = x, !.need = rows[s].need - advance]
    BY <1>7
  <2>3. rows[s].need = n
    BY <1>5
  <2> QED BY <1>6, <2>1, <2>2, <2>3
<1>10. [now EXCEPT !.phase = "decode", !.lag = 1]
       = [phase |-> "decode", prompt_left |-> x, prompt_new |-> z, need |-> n - advance, lag |-> 1]
  <2>1. ASSUME NEW r, NEW m, NEW q,
               r = [phase |-> "prefill", prompt_left |-> x, prompt_new |-> z, need |-> m, lag |-> l],
               q = [r EXCEPT !.phase = "decode", !.lag = 1]
        PROVE  q = [phase |-> "decode", prompt_left |-> x, prompt_new |-> z, need |-> m, lag |-> 1]
    BY <2>1
  <2> QED BY <1>9, <2>1
<1>11. n \in Nat /\ l \in Nat /\ advance <= n
  BY <1>1, <1>5
<1> SUFFICES ASSUME NEW r, r = AfterPrefill(s, granted, advance, a)
             PROVE  /\ r = [phase |-> r.phase, prompt_left |-> r.prompt_left,
                            prompt_new |-> r.prompt_new, need |-> r.need, lag |-> r.lag]
                    /\ r.need \in Nat /\ r.lag \in Nat
                    /\ \/ r.phase = "decode" /\ r.lag = 1 /\ r.need = 0
                       \/ r.phase = "prefill" /\ r.need > 0
  BY Zenon
<1>12. CASE n - advance = 0
  <2>1. r = [phase |-> "decode", prompt_left |-> x, prompt_new |-> z, need |-> n - advance, lag |-> 1]
    <3>1. now.need = 0 /\ a.prefills[s] > 0
      BY <1>2, <1>9, <1>12
    <3> QED BY <1>2, <1>8, <1>10, <3>1
  <2> QED BY <2>1, <1>12
<1>13. CASE n - advance # 0
  <2>1. r = now
    BY <1>8, <1>9, <1>13
  <2> QED BY <2>1, <1>9, <1>11, <1>13
<1> QED BY <1>12, <1>13

LEMMA PlanInitInv == PlanInit => PlanInv
BY DEF PlanInit, PlanInv, PlanTypeOK, InStep, Row, FreeSlot

(* Requests come, are recomputed and go. *)
LEMMA RequestsKeep ==
  ASSUME PlanInv, NEW s \in Slots,
         RetireSlot(s) \/ \E n \in Lengths : Admit(s, n) \/ ResumeRecompute(s, n)
  PROVE  PlanInv'
<1>1. age \in Seq(Slots) /\ rows = [q \in Slots |-> rows[q]]
  BY DEF PlanInv, PlanTypeOK
<1>2. \A n \in Lengths : n \in Nat /\ n > 0
  BY PlanAssumption
<1>3. age' \in Seq(Slots)
  BY <1>1, AmongProps DEF RetireSlot, Admit, ResumeRecompute
<1>4. PICK r : /\ rows' = [rows EXCEPT ![s] = r]
               /\ r = FreeSlot \/ \E n \in Lengths : r = Prompt(n, n) \/ r = Prompt(Endless, n)
  BY DEF RetireSlot, Admit, ResumeRecompute
<1>5. rows'[s] = r /\ (\A q \in Slots \ {s} : rows'[q] = rows[q]) /\ rows' = [q \in Slots |-> rows'[q]]
  BY <1>1, <1>4
<1>6. /\ r = [phase |-> r.phase, prompt_left |-> r.prompt_left, prompt_new |-> r.prompt_new,
              need |-> r.need, lag |-> r.lag]
      /\ r.phase \in {"free", "prefill"} /\ r.need \in Nat /\ r.lag \in Nat
      /\ r.phase = "prefill" => r.need > 0
  BY <1>2, <1>4 DEF FreeSlot, Prompt
<1> QED BY <1>3, <1>5, <1>6 DEF PlanInv, PlanTypeOK, InStep, Row

LEMMA StepKeeps == PlanInv /\ Step => PlanInv'
<1> SUFFICES ASSUME PlanInv, Step PROVE PlanInv'
  OBVIOUS
<1> DEFINE Advances(prefills) ==
             {f \in [DOMAIN prefills -> 1 .. Max({1} \cup Range(prefills))] :
                \A s \in DOMAIN f : f[s] <= prefills[s] /\ f[s] <= rows[s].need}
<1>1. PICK prefills \in {Slices} :
        \E burst \in SUBSET Decoding, tokens \in [Decoding -> 1 .. 2], advance \in Advances(prefills) :
          \E a \in Answers(burst, tokens, prefills) : TakeAnswer(prefills, burst, advance, a)
  BY Zenon DEF Step
<1>2. PICK burst \in SUBSET Decoding, tokens \in [Decoding -> 1 .. 2], advance \in Advances(prefills) :
        \E a \in Answers(burst, tokens, prefills) : TakeAnswer(prefills, burst, advance, a)
  BY <1>1, Zenon
<1>3. PICK a \in Answers(burst, tokens, prefills) : TakeAnswer(prefills, burst, advance, a)
  BY <1>2, Zenon
<1>4. /\ DOMAIN advance = DOMAIN prefills
      /\ \A s \in DOMAIN prefills : advance[s] \in Nat /\ 0 < advance[s] /\ advance[s] <= rows[s].need
  <2>1. PICK m : m = Max({1} \cup Range(prefills))
    OBVIOUS
  <2>2. advance \in [DOMAIN prefills -> 1 .. m] /\ \A s \in DOMAIN advance : advance[s] <= rows[s].need
    BY <2>1
  <2>3. \A i \in 1 .. m : i \in Nat /\ 0 < i
    OBVIOUS
  <2> QED BY <2>2, <2>3
<1>5. /\ prefills = Slices
      /\ tokens \in [Decoding -> 1 .. 2]
      /\ DOMAIN advance = DOMAIN prefills
      /\ \A s \in DOMAIN prefills : advance[s] \in Nat /\ 0 < advance[s] /\ advance[s] <= rows[s].need
      /\ a \in Answers(burst, tokens, prefills)
      /\ TakeAnswer(prefills, burst, advance, a)
  BY <1>3, <1>4
<1> HIDE DEF Advances
<1>6. CASE validate_step_result(burst, prefills, a)
  <2>1. age' = age
    BY <1>5, <1>6 DEF TakeAnswer
  <2>2. rows' = [s \in Slots |->
                  IF s \in Decoding THEN AfterDecode(s, burst, a)
                  ELSE IF s \in DOMAIN prefills THEN AfterPrefill(s, prefills[s], advance[s], a)
                  ELSE rows[s]]
    BY <1>5, <1>6 DEF TakeAnswer
  <2>3. ASSUME NEW s \in Slots
        PROVE  /\ rows'[s] = Row(s)'
               /\ rows'[s].phase \in {"free", "prefill", "decode"}
               /\ rows'[s].need \in Nat /\ rows'[s].lag \in Nat
               /\ rows'[s].phase = "decode" => rows'[s].lag = 1 /\ rows'[s].need = 0
               /\ rows'[s].phase = "prefill" => rows'[s].need > 0
    <3>1. CASE s \in Decoding
      <4>1. a.tokens[s] \in Nat
        BY <1>5, <3>1, AnswersTellTokens
      <4>2. rows'[s] = rows[s]
        BY <2>2, <3>1, <4>1, <1>6, DecodeInStep
      <4> QED BY <4>2 DEF PlanInv, PlanTypeOK, InStep, Row
    <3>2. CASE s \notin Decoding /\ s \in DOMAIN prefills
      <4>1. rows[s].phase = "prefill"
        BY <1>5, <3>2, SlicesArePrompts DEF PlanInv, Prefilling
      <4>2. rows'[s] = AfterPrefill(s, prefills[s], advance[s], a)
        BY <2>2, <3>2
      <4>3. advance[s] \in Nat /\ 0 < advance[s] /\ advance[s] <= rows[s].need
        BY <1>5, <3>2
      <4> QED BY <1>6, <3>2, <4>1, <4>2, <4>3, PrefillInStep DEF Row
    <3>3. CASE s \notin Decoding /\ s \notin DOMAIN prefills
      <4>1. rows'[s] = rows[s]
        BY <2>2, <3>3
      <4> QED BY <4>1 DEF PlanInv, PlanTypeOK, InStep, Row
    <3> QED BY <3>1, <3>2, <3>3
  <2>4. rows' = [s \in Slots |-> rows'[s]]
    BY <2>2
  <2> QED BY <2>1, <2>3, <2>4 DEF PlanInv, PlanTypeOK, InStep
<1>7. CASE ~ validate_step_result(burst, prefills, a)
  <2>1. rows' = [s \in Slots |-> FreeSlot] /\ age' = <<>>
    BY <1>5, <1>7 DEF TakeAnswer
  <2> QED BY <2>1 DEF PlanInv, PlanTypeOK, InStep, Row, FreeSlot
<1> QED BY <1>6, <1>7

LEMMA PlanNextInv == PlanInv /\ [PlanNext]_planVars => PlanInv'
<1> SUFFICES ASSUME PlanInv, [PlanNext]_planVars PROVE PlanInv'
  OBVIOUS
<1>1. CASE TurnEnds \/ UNCHANGED planVars
  <2>1. UNCHANGED <<age, rows>>
    BY <1>1 DEF TurnEnds, planVars
  <2> QED BY <2>1 DEF PlanInv, PlanTypeOK, InStep, Row
<1> QED BY <1>1, StepKeeps, RequestsKeep DEF PlanNext

(* Every step keeps the rows typed and in step (PlanInv). *)
THEOREM PlanInvariant == PlanSpec => []PlanInv
BY PlanInitInv, PlanNextInv, PTL DEF PlanSpec

(* Whatever the engine answers, scheduler and engine agree on what was fed *)
(* and on when a prompt is over, for every envelope, number of slots and   *)
(* length of prompts.                                                      *)
THEOREM SchedulerInStep == PlanSpec => []InStep
<1>1. PlanInv => InStep
  BY DEF PlanInv
<1> QED BY <1>1, PlanInvariant, PTL

=============================================================================
