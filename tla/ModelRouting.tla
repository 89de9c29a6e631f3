---------------------------- MODULE ModelRouting ----------------------------
(***************************************************************************)
(* One listener in front of several models, server/http_server.cpp: client *)
(* threads reserve a slot of a model in the operator's order and hand it a *)
(* job; each model has a queue and one serving thread; run() stops them    *)
(* all and returns when the last client thread has left.                   *)
(*                                                                         *)
(* Model 1 is the listener itself, so its stopping_ is the flag a signal   *)
(* sets.  The flag is stored and queue_cv_ notified without queue_mu_,     *)
(* while dequeue tests it and falls asleep under that mutex: the test and  *)
(* the sleep are two steps here, and a notification between them is lost.  *)
(*                                                                         *)
(* What a job does on the engine is Scheduler.tla's matter: here it is     *)
(* admitted, returned or deferred, and retires some time later.  The       *)
(* second and later passes of tool checks are part of the same job.        *)
(***************************************************************************)
EXTENDS Integers, Sequences, FiniteSets

CONSTANTS
  Clients,             \* connections
  capacity,            \* RoutedModel::capacity, in priority order
  Batched,             \* models with a SeqEngine; the others serve one job at a time
  BusyWhenIdle,        \* models whose engine may be busy with nothing live (DeepSeek4)
  routing_queue_limit,
  MaxDisconnects,      \* bound: peers that leave
  MayStop,             \* whether the server is told to stop
  Requests             \* [Clients -> generations with the models they fit,
                       \* token counts with the one they name]

Models == DOMAIN capacity

ASSUME RoutingAssumption ==
  /\ capacity \in Seq(Nat \ {0}) /\ Len(capacity) >= 2 /\ Batched \subseteq Models
  /\ \A m \in Models \ Batched : capacity[m] = 1
  /\ routing_queue_limit \in Nat /\ IsFiniteSet(Clients)

VARIABLES
  stopping_,           \* [Models -> BOOLEAN]
  queue,               \* [Models -> Seq(Clients)]
  serving,             \* [Models -> where the serving thread is]
  running,             \* [Models -> SUBSET Clients] jobs in a slot
  deferred,            \* [Models -> SUBSET Clients] at most one: first in line
  in_flight,           \* [Models -> Nat]
  routing_waiters_,
  client,              \* [Clients -> the client thread's frame]
  disconnected,        \* peers that closed their connection
  main                 \* where run() is: a step and the model it is at

vars == <<stopping_, queue, serving, running, deferred, in_flight,
          routing_waiters_, client, disconnected, main>>

stopping == stopping_[1]    \* the listener's

Frame == [pc |-> "away", req |-> [kind |-> "none"], at |-> 1, unfit |-> {}, waiting |-> FALSE,
          done |-> FALSE, admission |-> "handled", answers |-> 0]

Init ==
  /\ stopping_ = [m \in Models |-> FALSE]
  /\ queue = [m \in Models |-> <<>>] /\ serving = [m \in Models |-> IF m \in Batched THEN "loop" ELSE "admit"]
  /\ running = [m \in Models |-> {}] /\ deferred = [m \in Models |-> {}]
  /\ in_flight = [m \in Models |-> 0] /\ routing_waiters_ = 0
  /\ client = [c \in Clients |-> Frame] /\ disconnected = {}
  /\ main = [pc |-> "accept", at |-> 1]

(* The thread ends; what its request got is kept for the properties. *)
Closed(f) == [Frame EXCEPT !.pc = "closed", !.answers = f.answers]

Active(c) == client[c].pc \notin {"away", "closed"}
Held(m) == {queue[m][i] : i \in DOMAIN queue[m]} \cup running[m] \cup deferred[m]

(* queue_mu_ is held from the test of an idle dequeue until it sleeps. *)
queue_mu_free(m) == serving[m] /= "checked"
notify_queue(s, m) == IF s[m] = "asleep" THEN [s EXCEPT ![m] = "admit"] ELSE s
notify_routing(f) == [c \in Clients |-> IF f[c].pc = "asleep" THEN [f[c] EXCEPT !.pc = "top"] ELSE f[c]]

------------------------------------------------------------------------------
(* The client thread: reading the request. *)

Accept(c, r) ==
  /\ main.pc = "accept" /\ client[c].pc = "away"
  /\ client' = [client EXCEPT ![c].pc = "reading", ![c].req = r]
  /\ UNCHANGED <<stopping_, queue, serving, running, deferred, in_flight, routing_waiters_, disconnected, main>>

Disconnect(c) ==
  /\ Active(c) /\ c \notin disconnected /\ Cardinality(disconnected) < MaxDisconnects
  /\ disconnected' = disconnected \cup {c}
  /\ UNCHANGED <<stopping_, queue, serving, running, deferred, in_flight, routing_waiters_, client, main>>

(* Reads poll stopping_ and the socket; both end the handler early. *)
ReadRequest(c) ==
  /\ client[c].pc = "reading"
  /\ \/ client' = [client EXCEPT ![c].pc = "top"]
     \/ /\ stopping \/ c \in disconnected
        /\ client' = [client EXCEPT ![c] = [Closed(@) EXCEPT !.req.kind = "unread"]]
  /\ UNCHANGED <<stopping_, queue, serving, running, deferred, in_flight, routing_waiters_, disconnected, main>>

------------------------------------------------------------------------------
(* route_model_request. *)

Generates(c) == client[c].req.kind = "generate"

(* Leaving it, with an answer (a status and a text) or none: ~Waiting gives its place back. *)
Leaves(c, answers) ==
  /\ routing_waiters_' = routing_waiters_ - (IF client[c].waiting THEN 1 ELSE 0)
  /\ client' = [client EXCEPT ![c] = [Closed(client[c]) EXCEPT !.answers = @ + answers]]

(* The head of the loop, and the check after the wait. *)
CheckPeer(c) ==
  /\ client[c].pc = "top"
  /\ IF c \in disconnected
       THEN Leaves(c, 0)
       ELSE client' = [client EXCEPT ![c].pc = "scan", ![c].at = 1] /\ UNCHANGED routing_waiters_
  /\ UNCHANGED <<stopping_, queue, serving, running, deferred, in_flight, disconnected, main>>

(* The model's context, and the pool of a batched one, can hold it at all. *)
Fits(c, m) == m \in client[c].req.fits

Skips(c, m) ==
  \/ m \in client[c].unfit
  \/ ~Generates(c) /\ client[c].req.model /= m

(* Under routing_mu_: a place in the waiting line is given up for a slot. *)
Reserve(c) ==
  LET m == client[c].at IN
  /\ in_flight' = [in_flight EXCEPT ![m] = @ + 1]
  /\ routing_waiters_' = routing_waiters_ - (IF client[c].waiting THEN 1 ELSE 0)
  /\ client' = [client EXCEPT ![c].pc = "parse", ![c].waiting = FALSE]

(* One model of the table.  A token count takes no slot and ends there. *)
Scan(c) ==
  LET m == client[c].at
      next(at) == client' = [client EXCEPT ![c].at = at] /\ UNCHANGED <<in_flight, routing_waiters_>> IN
  /\ client[c].pc = "scan" /\ m \in Models
  /\ IF Skips(c, m) THEN next(m + 1)
     ELSE IF stopping THEN next(Len(capacity) + 1)
     ELSE IF ~Generates(c) THEN Leaves(c, 1) /\ UNCHANGED in_flight
     ELSE IF in_flight[m] >= capacity[m] THEN next(m + 1)
     ELSE Reserve(c)
  /\ UNCHANGED <<stopping_, queue, serving, running, deferred, disconnected, main>>

(* After the last model, or after the break: too large for every model     *)
(* (400), an unknown name (404), a count or a stopping server (503). *)
NoModel(c) ==
  /\ client[c].pc = "scan" /\ client[c].at \notin Models
  /\ IF client[c].unfit = Models \/ ~Generates(c) \/ stopping
       THEN Leaves(c, 1)
       ELSE client' = [client EXCEPT ![c].pc = "register"] /\ UNCHANGED routing_waiters_
  /\ UNCHANGED <<stopping_, queue, serving, running, deferred, in_flight, disconnected, main>>

WaitForCapacity(c) ==
  /\ client[c].pc = "register"
  /\ IF ~client[c].waiting /\ routing_waiters_ >= routing_queue_limit
       THEN Leaves(c, 1)
       ELSE /\ routing_waiters_' = routing_waiters_ + (IF client[c].waiting THEN 0 ELSE 1)
            /\ client' = [client EXCEPT ![c].pc = "asleep", ![c].at = 1, ![c].waiting = TRUE]
  /\ UNCHANGED <<stopping_, queue, serving, running, deferred, in_flight, disconnected, main>>

(* kClientMonitorInterval. *)
RetryTimeout(c) ==
  /\ client[c].pc = "asleep"
  /\ client' = [client EXCEPT ![c].pc = "top"]
  /\ UNCHANGED <<stopping_, queue, serving, running, deferred, in_flight, routing_waiters_, disconnected, main>>

------------------------------------------------------------------------------
(* handle_model_request under the reservation: answered while parsing, too *)
(* large for the model's context, or queued for its worker. *)

enqueue(c, m) ==
  IF stopping_[m]
    THEN /\ client' = [client EXCEPT ![c].pc = "wait", ![c].done = TRUE, ![c].admission = "busy"]
         /\ UNCHANGED <<queue, serving>>
    ELSE /\ queue' = [queue EXCEPT ![m] = Append(@, c)]
         /\ serving' = notify_queue(serving, m)
         /\ client' = [client EXCEPT ![c].pc = "wait", ![c].done = FALSE, ![c].admission = "handled"]

ParseFor(c) ==
  LET m == client[c].at IN
  /\ client[c].pc = "parse"
  /\ \/ /\ client' = [client EXCEPT ![c].pc = "release", ![c].admission = "handled",
                                    ![c].answers = @ + 1]
        /\ UNCHANGED <<queue, serving>>
     \/ /\ ~Fits(c, m)
        /\ client' = [client EXCEPT ![c].pc = "release", ![c].admission = "unfit"]
        /\ UNCHANGED <<queue, serving>>
     \/ (Fits(c, m) \/ m \in Batched) /\ queue_mu_free(m) /\ enqueue(c, m)
  /\ UNCHANGED <<stopping_, running, deferred, in_flight, routing_waiters_, disconnected, main>>

(* enqueue_request_and_wait: a peer that left is reported to the worker, *)
(* but the thread stays until the job is done. *)
JobDoneOrGone(c) ==
  /\ client[c].pc = "wait" /\ (client[c].done \/ c \in disconnected)
  /\ client' = [client EXCEPT ![c].pc = "release"]
  /\ UNCHANGED <<stopping_, queue, serving, running, deferred, in_flight, routing_waiters_, disconnected, main>>

JobDone(c) ==
  /\ client[c].pc = "wait" /\ client[c].done
  /\ client' = [client EXCEPT ![c].pc = "release"]
  /\ UNCHANGED <<stopping_, queue, serving, running, deferred, in_flight, routing_waiters_, disconnected, main>>

(* ~Reservation, then what the admission says. *)
ReleaseAsHandled(c) ==
  LET m == client[c].at IN
  /\ client[c].pc = "release"
  /\ in_flight' = [in_flight EXCEPT ![m] = @ - 1]
  /\ client' = notify_routing([client EXCEPT ![c] = Closed(@)])
  /\ UNCHANGED <<stopping_, queue, serving, running, deferred, routing_waiters_, disconnected, main>>

Release(c) ==
  LET m == client[c].at IN
  /\ client[c].pc = "release"
  /\ in_flight' = [in_flight EXCEPT ![m] = @ - 1]
  /\ client' = IF client[c].admission = "handled"
                 THEN notify_routing([client EXCEPT ![c] = Closed(@)])
                 ELSE [client EXCEPT ![c].pc = "scan", ![c].at = m + 1, ![c].done = FALSE, ![c].admission = "handled",
                                     ![c].unfit = @ \cup (IF client[c].admission = "unfit" THEN {m} ELSE {})]
  /\ UNCHANGED <<stopping_, queue, serving, running, deferred, routing_waiters_, disconnected, main>>

ClientStep(c) ==
  \/ ReadRequest(c) \/ CheckPeer(c) \/ Scan(c) \/ NoModel(c) \/ WaitForCapacity(c)
  \/ RetryTimeout(c) \/ ParseFor(c) \/ JobDone(c) \/ Release(c)

------------------------------------------------------------------------------
(* The serving thread of a model: worker_loop, or scheduler_loop for a     *)
(* batched one, from taking a job to finish_job. *)

Idle(m) == running[m] = {} /\ deferred[m] = {}
ToServe(m, at) == serving' = [serving EXCEPT ![m] = at]

Finished(j, admission, answers) ==
  client' = [client EXCEPT ![j].done = TRUE, ![j].admission = admission, ![j].answers = @ + answers]

(* scheduler_loop's pass over its slots, "loop", begins with admissions; a *)
(* worker_loop is there only while it serves its job. *)
BeginAdmission(m) ==
  /\ serving[m] = "loop" /\ m \in Batched /\ ~stopping_[m]
  /\ Cardinality(running[m]) < capacity[m]
  /\ ToServe(m, "admit")
  /\ UNCHANGED <<stopping_, queue, running, deferred, in_flight, routing_waiters_, client, disconnected, main>>

(* dequeue and try_dequeue on an empty queue. *)
FoundEmpty(m) ==
  /\ serving[m] = "admit" /\ deferred[m] = {} /\ queue[m] = <<>>
  /\ ToServe(m, IF Idle(m) /\ ~stopping_[m] THEN "checked"
                ELSE IF m \in Batched THEN "loop" ELSE "gone")
  /\ UNCHANGED <<stopping_, queue, running, deferred, in_flight, routing_waiters_, client, disconnected, main>>

DequeueSleeps(m) ==
  /\ serving[m] = "checked" /\ ToServe(m, "asleep")
  /\ UNCHANGED <<stopping_, queue, running, deferred, in_flight, routing_waiters_, client, disconnected, main>>

(* The 30 s of dequeue. *)
DequeueNeverTimesOut(m) == FALSE

DequeueTimeout(m) ==
  /\ serving[m] = "asleep" /\ ToServe(m, "admit")
  /\ UNCHANGED <<stopping_, queue, running, deferred, in_flight, routing_waiters_, client, disconnected, main>>

Busy(m) == running[m] /= {} \/ m \in BusyWhenIdle

(* A job leaves the front of the line; admit_job decides.  A busy engine    *)
(* sends it back to the router; a prompt already scored stays instead, the  *)
(* deferred job. *)
TakeJob(m) ==
  /\ serving[m] = "admit" /\ (deferred[m] /= {} \/ queue[m] /= <<>>)
  /\ LET j == IF deferred[m] /= {} THEN CHOOSE d \in deferred[m] : TRUE ELSE Head(queue[m])
         settled(admission, answers) ==
           /\ m \in Batched /\ Finished(j, admission, answers)
           /\ deferred' = [deferred EXCEPT ![m] = {}] /\ UNCHANGED running IN
     /\ queue' = IF deferred[m] /= {} THEN queue ELSE [queue EXCEPT ![m] = Tail(@)]
     /\ \/ /\ Fits(j, m) /\ running' = [running EXCEPT ![m] = @ \cup {j}]
           /\ deferred' = [deferred EXCEPT ![m] = {}] /\ UNCHANGED client
        \/ j \in disconnected /\ settled("handled", 0)
        \/ ~Fits(j, m) /\ settled("unfit", 0)
        \/ settled("handled", 1)
        \/ Fits(j, m) /\ Busy(m) /\ settled("busy", 0)
        \/ /\ Fits(j, m) /\ Busy(m) /\ m \in Batched
           /\ deferred' = [deferred EXCEPT ![m] = {j}] /\ UNCHANGED <<running, client>>
  /\ ToServe(m, "loop")
  /\ UNCHANGED <<stopping_, in_flight, routing_waiters_, disconnected, main>>

(* The response is generated and drained, or its reader has gone. *)
Retire(m) ==
  /\ serving[m] = "loop"
  /\ \E j \in running[m] :
       /\ running' = [running EXCEPT ![m] = @ \ {j}]
       /\ Finished(j, "handled", IF j \in disconnected THEN 0 ELSE 1)
  /\ IF m \in Batched THEN UNCHANGED serving ELSE ToServe(m, "admit")
  /\ UNCHANGED <<stopping_, queue, deferred, in_flight, routing_waiters_, disconnected, main>>

(* scheduler_loop leaves its loop and answers all it holds. *)
LeaveLoop(m) ==
  /\ serving[m] = "loop" /\ m \in Batched /\ stopping_[m]
  /\ ToServe(m, "teardown")
  /\ UNCHANGED <<stopping_, queue, running, deferred, in_flight, routing_waiters_, client, disconnected, main>>

Teardown(m) ==
  /\ serving[m] = "teardown"
  /\ \/ \E j \in running[m] :
          running' = [running EXCEPT ![m] = @ \ {j}] /\ Finished(j, "handled", 1)
          /\ UNCHANGED <<queue, deferred>>
     \/ \E j \in deferred[m] :
          running[m] = {} /\ deferred' = [deferred EXCEPT ![m] = {}] /\ Finished(j, "handled", 1)
          /\ UNCHANGED <<queue, running>>
     \/ Idle(m) /\ queue[m] /= <<>> /\ queue' = [queue EXCEPT ![m] = Tail(@)]
        /\ Finished(Head(queue[m]), "handled", 1) /\ UNCHANGED <<running, deferred>>
  /\ UNCHANGED <<stopping_, serving, in_flight, routing_waiters_, disconnected, main>>

ServingEnds(m) ==
  /\ serving[m] = "teardown" /\ Held(m) = {} /\ ToServe(m, "gone")
  /\ UNCHANGED <<stopping_, queue, running, deferred, in_flight, routing_waiters_, client, disconnected, main>>

ServeStep(m) ==
  \/ BeginAdmission(m) \/ FoundEmpty(m) \/ DequeueSleeps(m) \/ DequeueTimeout(m) \/ TakeJob(m)
  \/ Retire(m) \/ LeaveLoop(m) \/ Teardown(m) \/ ServingEnds(m)

------------------------------------------------------------------------------
(* run(): the signal, and the end of the accept loop. *)

request_stop ==
  /\ MayStop /\ ~stopping
  /\ stopping_' = [stopping_ EXCEPT ![1] = TRUE]
  /\ UNCHANGED <<queue, serving, running, deferred, in_flight, routing_waiters_, client, disconnected, main>>

EndAccept ==
  /\ main.pc = "accept" /\ stopping
  /\ client' = notify_routing(client) /\ main' = [pc |-> "stop", at |-> 1]
  /\ UNCHANGED <<stopping_, queue, serving, running, deferred, in_flight, routing_waiters_, disconnected>>

(* stop_worker for each model, and again in stop_serving before the join. *)
StopWorker ==
  LET m == main.at IN
  /\ main.pc \in {"stop", "stop_serving"}
  /\ stopping_' = [stopping_ EXCEPT ![m] = TRUE]
  /\ serving' = notify_queue(serving, m)
  /\ main' = IF main.pc = "stop_serving" THEN [main EXCEPT !.pc = "join"]
             ELSE IF m < Len(capacity) THEN [main EXCEPT !.at = m + 1]
             ELSE [pc |-> "stop_serving", at |-> 1]
  /\ UNCHANGED <<queue, running, deferred, in_flight, routing_waiters_, client, disconnected>>

Join ==
  /\ main.pc = "join" /\ serving[main.at] = "gone"
  /\ main' = IF main.at < Len(capacity) THEN [pc |-> "stop_serving", at |-> main.at + 1]
             ELSE [main EXCEPT !.pc = "clients"]
  /\ UNCHANGED <<stopping_, queue, serving, running, deferred, in_flight, routing_waiters_, client, disconnected>>

(* active_clients_ is changed and tested under clients_mu_. *)
RunReturns ==
  /\ main.pc = "clients" /\ \A c \in Clients : ~Active(c)
  /\ main' = [main EXCEPT !.pc = "returned"]
  /\ UNCHANGED <<stopping_, queue, serving, running, deferred, in_flight, routing_waiters_, client, disconnected>>

MainStep == EndAccept \/ StopWorker \/ Join \/ RunReturns

------------------------------------------------------------------------------
Done == main.pc = "returned" /\ UNCHANGED vars

Next ==
  \/ \E c \in Clients : (\E r \in Requests[c] : Accept(c, r)) \/ Disconnect(c) \/ ClientStep(c)
  \/ \E m \in Models : ServeStep(m)
  \/ request_stop \/ MainStep \/ Done

Spec == Init /\ [][Next]_vars

(* Every thread runs; a client thread gets queue_mu_ some time, since the  *)
(* serving thread gives it up whenever it sleeps; a job that is served     *)
(* ends, because a generation has a cap and a stalled reader is dropped.   *)
FairSpec ==
  /\ Spec
  /\ \A c \in Clients : SF_vars(ClientStep(c))
  /\ \A m \in Models : WF_vars(ServeStep(m)) /\ SF_vars(Retire(m))
  /\ WF_vars(MainStep)

------------------------------------------------------------------------------

Holders(m) == {c \in Clients : Generates(c) /\ client[c].at = m /\ client[c].pc \in {"parse", "wait", "release"}}

Pending(m) == {c \in Holders(m) : client[c].pc = "wait" /\ ~client[c].done}
Waiting == {c \in Clients : client[c].waiting}

(* "A reservation spans parsing through job retirement/output draining, so *)
(* disconnects never make still-running engine work invisible"             *)
(* (http_server.h:1138): every job a model holds belongs to a client       *)
(* thread that waits for it under a reservation, the model holds it once,  *)
(* the reservations are the counter and stay within the slots.  Likewise   *)
(* routing_waiters_ is the number of threads with a place in the waiting   *)
(* line, whichever way they give it up. *)
ReservationsCoverWork ==
  /\ \A m \in Models :
       /\ in_flight[m] = Cardinality(Holders(m)) /\ in_flight[m] <= capacity[m]
       /\ Held(m) = Pending(m)
       /\ Cardinality(Held(m)) = Len(queue[m]) + Cardinality(running[m]) + Cardinality(deferred[m])
  /\ routing_waiters_ = Cardinality(Waiting)
  /\ routing_waiters_ <= routing_queue_limit

(* A request that was read is answered exactly once, by the listener or by *)
(* one model, however many models returned it and whenever the server      *)
(* stops; only a peer that left may get none. *)
AnsweredOnce ==
  \A c \in Clients :
    /\ client[c].answers <= 1
    /\ client[c].pc = "closed" /\ client[c].req.kind /= "unread" /\ c \notin disconnected
         => client[c].answers = 1

(* run() returns once the server is told to stop, although the flag and    *)
(* the notifications can miss a thread that is just falling asleep. *)
ShutdownCompletes == stopping ~> main.pc = "returned"
------------------------------------------------------------------------------
(* What makes the safety properties inductive. *)

Frames ==
  [pc : {"away", "reading", "top", "scan", "register", "asleep", "parse", "wait", "release",
         "closed"},
   req : [kind : {"none", "unread"}] \cup (UNION {Requests[c] : c \in Clients}),
   at : Nat, unfit : SUBSET Models, waiting : BOOLEAN, done : BOOLEAN,
   admission : {"handled", "unfit", "busy"}, answers : Nat]

(* Every variable has its type. *)
RoutingTypeOK ==
  /\ stopping_ \in [Models -> BOOLEAN]
  /\ queue \in [Models -> Seq(Clients)]
  /\ serving \in [Models -> {"loop", "admit", "checked", "asleep", "teardown", "gone"}]
  /\ running \in [Models -> SUBSET Clients] /\ deferred \in [Models -> SUBSET Clients]
  /\ in_flight \in [Models -> Nat] /\ routing_waiters_ \in Nat
  /\ client \in [Clients -> Frames]
  /\ disconnected \in SUBSET Clients
  /\ main \in [pc : {"accept", "stop", "stop_serving", "join", "clients", "returned"}, at : Models]

(* A client thread has its one answer from the moment its job, or the      *)
(* parser, settled the request, and none while a model may yet return it. *)
Settled(c, f) == f.answers <= 1 /\ (c \notin disconnected => f.answers = 1)

FrameOK(c, f) ==
  /\ f.waiting => f.pc \in {"top", "scan", "register", "asleep"}
  /\ f.pc \in {"parse", "wait", "release"} => f.at \in Models /\ f.req.kind = "generate"
  /\ f.pc \notin {"wait", "release", "closed"} \/ (f.pc = "wait" /\ ~f.done) => f.answers = 0
  /\ f.pc = "release" \/ (f.pc = "wait" /\ f.done) =>
       IF f.admission = "handled" THEN Settled(c, f) ELSE f.answers = 0
  /\ f.pc = "closed" => IF f.req.kind = "unread" THEN f.answers = 0 ELSE Settled(c, f)

(* A model holds a job in one place, and at most one job deferred. *)
LineOK(m) ==
  /\ \A i, k \in DOMAIN queue[m] : queue[m][i] = queue[m][k] => i = k
  /\ \A i \in DOMAIN queue[m] : queue[m][i] \notin running[m] \cup deferred[m]
  /\ running[m] \cap deferred[m] = {}
  /\ \A c, d \in deferred[m] : c = d

ReservationsCounted ==
  /\ \A m \in Models : in_flight[m] = Cardinality(Holders(m)) /\ in_flight[m] <= capacity[m]
  /\ routing_waiters_ = Cardinality(Waiting) /\ routing_waiters_ <= routing_queue_limit

RoutingInv ==
  /\ RoutingTypeOK
  /\ \A c \in Clients : FrameOK(c, client[c])
  /\ \A m \in Models : LineOK(m) /\ Held(m) = Pending(m)
  /\ ReservationsCounted
=============================================================================
