-------------------------- MODULE ModelRoutingProofs --------------------------
(***************************************************************************)
(* The routing listener, for any number of connections, models and slots:  *)
(* its reservations are the work the models hold, and every request gets   *)
(* its one answer.                                                         *)
(***************************************************************************)
EXTENDS ModelRouting, ListProofs

-----------------------------------------------------------------------------
(* A step of one thread: its frame becomes f, and a notification may wake  *)
(* the threads asleep in route_model_request.                              *)

Holds(f, m) ==
  f.req.kind = "generate" /\ f.at = m /\ f.pc \in {"parse", "wait", "release"}
Pends(f, m) == Holds(f, m) /\ f.pc = "wait" /\ ~f.done
Woken(f) == IF f.pc = "asleep" THEN [f EXCEPT !.pc = "top"] ELSE f

Moves(c, f) ==
  /\ client' = [d \in Clients |-> client'[d]] /\ client'[c] = f
  /\ \A d \in Clients \ {c} : client'[d] \in {client[d], Woken(client[d])}

(* The counters follow c's reservation and its place in the waiting line.  *)
Counts(c, f) ==
  /\ in_flight' \in [Models -> Int] /\ routing_waiters_' \in Int
  /\ \A m \in Models :
       /\ in_flight'[m] + One(Holds(client[c], m)) = in_flight[m] + One(Holds(f, m))
       /\ (Holds(f, m) /\ ~Holds(client[c], m)) => in_flight[m] < capacity[m]
  /\ routing_waiters_' + One(client[c].waiting) = routing_waiters_ + One(f.waiting)
  /\ (f.waiting /\ ~client[c].waiting) => routing_waiters_ < routing_queue_limit

(* Waking a thread changes nothing that the invariant tells apart. *)
LEMMA WokenFrame ==
  ASSUME NEW c, NEW f \in Frames, NEW g \in {f, Woken(f)}
  PROVE  /\ g \in Frames /\ g.waiting = f.waiting
         /\ \A m : (Holds(g, m) <=> Holds(f, m)) /\ (Pends(g, m) <=> Pends(f, m))
         /\ FrameOK(c, f) => FrameOK(c, g)
<1>1. CASE g = f
  BY <1>1
<1>2. CASE f.pc = "asleep" /\ g = [f EXCEPT !.pc = "top"]
  <2>1. /\ g \in Frames /\ g.pc = "top" /\ g.waiting = f.waiting /\ g.answers = f.answers
        /\ g.req = f.req /\ g.at = f.at /\ g.done = f.done /\ g.admission = f.admission
    BY <1>2 DEF Frames
  <2> QED BY <1>2, <2>1 DEF Holds, Pends, FrameOK
<1> QED BY <1>1, <1>2 DEF Woken

LEMMA Constants ==
  /\ capacity \in Seq(Nat \ {0}) /\ IsFiniteSet(Clients) /\ routing_queue_limit \in Nat
  /\ \A m \in Models : capacity[m] \in Nat \ {0}
  /\ Len(capacity) \in Nat /\ Models = 1 .. Len(capacity) /\ 1 \in Models
<1>1. capacity \in Seq(Nat \ {0}) /\ Len(capacity) >= 2
  BY RoutingAssumption
<1> QED BY <1>1, RoutingAssumption DEF Models

LEMMA FramesMove ==
  ASSUME RoutingInv, NEW c \in Clients, NEW f \in Frames, Moves(c, f), FrameOK(c, f),
         Counts(c, f), disconnected' = disconnected
  PROVE  /\ client' \in [Clients -> Frames]
         /\ in_flight' \in [Models -> Nat] /\ routing_waiters_' \in Nat
         /\ \A d \in Clients : FrameOK(d, client[d])'
         /\ ReservationsCounted'
         /\ \A m \in Models :
              Pending(m)' = IF Pends(f, m) THEN Pending(m) \cup {c} ELSE Pending(m) \ {c}
<1>1. /\ client \in [Clients -> Frames] /\ \A d \in Clients : client[d] \in Frames
      /\ in_flight \in [Models -> Nat] /\ routing_waiters_ \in Nat
  BY DEF RoutingInv, RoutingTypeOK
<1>2. \A d \in Clients : FrameOK(d, client[d])
  BY DEF RoutingInv
<1>3. ASSUME NEW d \in Clients
      PROVE  /\ client'[d] \in Frames /\ FrameOK(d, client'[d])
             /\ d # c => /\ client'[d].waiting = client[d].waiting
                         /\ \A m : /\ Holds(client'[d], m) <=> Holds(client[d], m)
                                   /\ Pends(client'[d], m) <=> Pends(client[d], m)
  <2>1. CASE d = c
    BY <2>1 DEF Moves
  <2>2. CASE d # c
    <3>1. client[d] \in Frames /\ client'[d] \in {client[d], Woken(client[d])}
      BY <1>1, <2>2 DEF Moves
    <3> QED BY <1>2, <2>2, <3>1, WokenFrame
  <2> QED BY <2>1, <2>2
<1>4. client' \in [Clients -> Frames] /\ client'[c] = f
  <2>1. client' = [d \in Clients |-> client'[d]] /\ client'[c] = f
    BY DEF Moves
  <2> QED BY <1>3, <2>1
<1>5. \A d \in Clients : FrameOK(d, client[d])'
  BY <1>3 DEF FrameOK, Settled
<1>6. \A m, d : /\ d \in Holders(m) <=> d \in Clients /\ Holds(client[d], m)
                /\ d \in Holders(m)' <=> d \in Clients /\ Holds(client'[d], m)
                /\ d \in Pending(m) <=> d \in Clients /\ Pends(client[d], m)
                /\ d \in Pending(m)' <=> d \in Clients /\ Pends(client'[d], m)
  BY DEF Holders, Pending, Generates, Holds, Pends
<1>7. \A d : /\ d \in Waiting <=> d \in Clients /\ client[d].waiting
             /\ d \in Waiting' <=> d \in Clients /\ client'[d].waiting
  BY DEF Waiting
<1>8. IsFiniteSet(Waiting) /\ \A m : IsFiniteSet(Holders(m))
  <2>1. Waiting \in SUBSET Clients /\ \A m : Holders(m) \in SUBSET Clients
    BY DEF Waiting, Holders
  <2> QED BY <2>1, Constants, FS_Subset
<1>9. /\ Cardinality(Waiting)' \in Nat /\ Cardinality(Waiting) \in Nat
      /\ Cardinality(Waiting)' + One(client[c].waiting) = Cardinality(Waiting) + One(f.waiting)
  <2>1. \A d : d # c => (d \in Waiting <=> d \in Waiting')
    BY <1>3, <1>7
  <2>2. (c \in Waiting <=> client[c].waiting) /\ (c \in Waiting' <=> f.waiting)
    BY <1>4, <1>7
  <2> DEFINE W == Waiting
             V == Waiting'
  <2> HIDE DEF W, V
  <2>3. /\ Cardinality(W) \in Nat /\ Cardinality(V) \in Nat
        /\ Cardinality(V) + One(c \in W) = Cardinality(W) + One(c \in V)
    BY <1>8, <2>1, CardinalityStep DEF W, V
  <2> QED BY <2>2, <2>3 DEF W, V, One
<1>10. ASSUME NEW m \in Models
       PROVE  /\ in_flight'[m] \in Nat /\ in_flight'[m] <= capacity[m]
              /\ in_flight'[m] = Cardinality(Holders(m)')
              /\ Pending(m)' = IF Pends(f, m) THEN Pending(m) \cup {c} ELSE Pending(m) \ {c}
  <2>1. \A d : d # c => (d \in Holders(m) <=> d \in Holders(m)')
    BY <1>3, <1>6
  <2>2. (c \in Holders(m) <=> Holds(client[c], m)) /\ (c \in Holders(m)' <=> Holds(f, m))
    BY <1>4, <1>6
  <2> DEFINE W == Holders(m)
             V == Holders(m)'
  <2> HIDE DEF W, V
  <2>3. /\ Cardinality(W) \in Nat /\ Cardinality(V) \in Nat
        /\ Cardinality(V) + One(c \in W) = Cardinality(W) + One(c \in V)
    BY <1>8, <2>1, CardinalityStep DEF W, V
  <2>4. /\ in_flight[m] = Cardinality(W) /\ in_flight[m] <= capacity[m] /\ capacity[m] \in Nat
        /\ in_flight'[m] \in Int
        /\ in_flight'[m] + One(Holds(client[c], m)) = in_flight[m] + One(Holds(f, m))
        /\ (Holds(f, m) /\ ~Holds(client[c], m)) => in_flight[m] < capacity[m]
    BY Constants DEF W, RoutingInv, ReservationsCounted, Counts
  <2>5. in_flight'[m] = Cardinality(V) /\ in_flight'[m] <= capacity[m]
    BY <2>2, <2>3, <2>4 DEF W, V, One
  <2>6. \A d : d \in Pending(m)' <=> IF d = c THEN Pends(f, m) ELSE d \in Pending(m)
    BY <1>3, <1>4, <1>6
  <2> QED BY <2>3, <2>5, <2>6 DEF V
<1>11. /\ routing_waiters_' \in Nat /\ routing_waiters_' <= routing_queue_limit
       /\ routing_waiters_' = Cardinality(Waiting)'
  <2>1. /\ routing_waiters_ = Cardinality(Waiting) /\ routing_waiters_ <= routing_queue_limit
        /\ routing_waiters_' \in Int /\ routing_queue_limit \in Nat
        /\ routing_waiters_' + One(client[c].waiting) = routing_waiters_ + One(f.waiting)
        /\ (f.waiting /\ ~client[c].waiting) => routing_waiters_ < routing_queue_limit
    BY Constants DEF RoutingInv, ReservationsCounted, Counts
  <2> QED BY <1>9, <2>1 DEF One
<1>12. in_flight' \in [Models -> Nat]
  BY <1>10 DEF Counts
<1>13. ReservationsCounted'
  BY <1>10, <1>11 DEF ReservationsCounted
<1> QED BY <1>4, <1>5, <1>10, <1>11, <1>12, <1>13

(* The thread of a job that model m takes, holds or gives up. *)
LEMMA WorkMoves ==
  ASSUME RoutingInv, stopping_' \in [Models -> BOOLEAN], NEW c \in Clients, NEW f \in Frames, NEW m \in Models,
         Moves(c, f), FrameOK(c, f), Counts(c, f), UNCHANGED <<disconnected, main>>,
         queue' \in [Models -> Seq(Clients)],
         serving' \in [Models -> {"loop", "admit", "checked", "asleep", "teardown", "gone"}],
         running' \in [Models -> SUBSET Clients], deferred' \in [Models -> SUBSET Clients],
         LineOK(m)',
         Held(m)' = IF Pends(f, m) THEN Held(m) \cup {c} ELSE Held(m) \ {c},
         \A k \in Models \ {m} :
           /\ queue'[k] = queue[k] /\ running'[k] = running[k] /\ deferred'[k] = deferred[k]
           /\ Pends(f, k) <=> Pends(client[c], k)
  PROVE  RoutingInv'
<1>1. /\ client' \in [Clients -> Frames]
      /\ in_flight' \in [Models -> Nat] /\ routing_waiters_' \in Nat
      /\ \A d \in Clients : FrameOK(d, client[d])'
      /\ ReservationsCounted'
      /\ \A k \in Models :
           Pending(k)' = IF Pends(f, k) THEN Pending(k) \cup {c} ELSE Pending(k) \ {c}
  BY FramesMove
<1>2. RoutingTypeOK'
  BY <1>1 DEF RoutingInv, RoutingTypeOK
<1>3. ASSUME NEW k \in Models
      PROVE  LineOK(k)' /\ Held(k)' = Pending(k)'
  <2>1. LineOK(k) /\ Held(k) = Pending(k)
    BY DEF RoutingInv
  <2>2. CASE k = m
    BY <1>1, <2>1, <2>2
  <2>3. CASE k # m
    <3>1. /\ queue'[k] = queue[k] /\ running'[k] = running[k] /\ deferred'[k] = deferred[k]
          /\ Pends(f, k) <=> Pends(client[c], k)
      BY <2>3
    <3>2. LineOK(k)' /\ Held(k)' = Held(k)
      <4>1. LineOK(k)'
        BY <2>1, <3>1 DEF LineOK
      <4>2. Held(k)' = Held(k)
        BY <3>1 DEF Held
      <4> QED BY <4>1, <4>2
    <3>3. c \in Pending(k) <=> Pends(client[c], k)
      BY DEF Pending, Holders, Generates, Holds, Pends
    <3>4. Pending(k)' = Pending(k)
      <4>1. Pending(k)' = IF Pends(f, k) THEN Pending(k) \cup {c} ELSE Pending(k) \ {c}
        BY <1>1
      <4>2. Pends(f, k) <=> c \in Pending(k)
        BY <3>1, <3>3
      <4> QED BY <4>1, <4>2
    <3> QED BY <2>1, <3>2, <3>4
  <2> QED BY <2>2, <2>3
<1> QED BY <1>1, <1>2, <1>3 DEF RoutingInv

LEMMA ClientMoves ==
  ASSUME RoutingInv, NEW c \in Clients, NEW f \in Frames, Moves(c, f), FrameOK(c, f),
         Counts(c, f), \A m \in Models : Pends(f, m) <=> Pends(client[c], m),
         UNCHANGED <<stopping_, queue, serving, running, deferred, disconnected, main>>
  PROVE  RoutingInv'
<1>1. /\ stopping_' \in [Models -> BOOLEAN] /\ 1 \in Models
      /\ queue' \in [Models -> Seq(Clients)]
      /\ serving' \in [Models -> {"loop", "admit", "checked", "asleep", "teardown", "gone"}]
      /\ running' \in [Models -> SUBSET Clients] /\ deferred' \in [Models -> SUBSET Clients]
  BY Constants DEF RoutingInv, RoutingTypeOK
<1>2. \A m \in Models : LineOK(m)' /\ Held(m)' = Held(m) /\ Held(m) = Pending(m)
  BY DEF RoutingInv, LineOK, Held
<1>3. c \in Pending(1) <=> Pends(client[c], 1)
  BY DEF Pending, Holders, Generates, Holds, Pends
<1>4. Held(1)' = IF Pends(f, 1) THEN Held(1) \cup {c} ELSE Held(1) \ {c}
  BY <1>1, <1>2, <1>3
<1> QED BY <1>1, <1>2, <1>4, WorkMoves

LEMMA OwnMove ==
  ASSUME client \in [Clients -> Frames], NEW c \in Clients, NEW f,
         \/ client' = [client EXCEPT ![c] = f]
         \/ f.pc # "asleep" /\ client' = notify_routing([client EXCEPT ![c] = f])
  PROVE  Moves(c, f)
<1>1. CASE client' = [client EXCEPT ![c] = f]
  BY <1>1 DEF Moves
<1>2. CASE f.pc # "asleep" /\ client' = notify_routing([client EXCEPT ![c] = f])
  <2> DEFINE g == [client EXCEPT ![c] = f]
  <2>1. g[c] = f /\ \A d \in Clients \ {c} : g[d] = client[d]
    OBVIOUS
  <2> HIDE DEF g
  <2>2. client' = [d \in Clients |-> IF g[d].pc = "asleep" THEN [g[d] EXCEPT !.pc = "top"] ELSE g[d]]
    BY <1>2 DEF notify_routing, g
  <2>3. client'[c] = f
    BY <1>2, <2>1, <2>2
  <2>4. \A d \in Clients \ {c} : client'[d] = Woken(client[d])
    BY <2>1, <2>2 DEF Woken
  <2>5. client' = [d \in Clients |-> client'[d]]
    BY <2>2
  <2> QED BY <2>3, <2>4, <2>5 DEF Moves
<1> QED BY <1>1, <1>2

(* A thread that takes a step and keeps what it holds. *)
LEMMA QuietMove ==
  ASSUME RoutingInv, NEW c \in Clients, NEW f \in Frames, client' = [client EXCEPT ![c] = f],
         FrameOK(c, f), f.waiting = client[c].waiting,
         \A m \in Models : /\ Holds(f, m) <=> Holds(client[c], m)
                           /\ Pends(f, m) <=> Pends(client[c], m),
         UNCHANGED <<stopping_, queue, serving, running, deferred, in_flight, routing_waiters_,
                     disconnected, main>>
  PROVE  RoutingInv'
<1>1. /\ client \in [Clients -> Frames] /\ in_flight \in [Models -> Nat]
      /\ routing_waiters_ \in Nat
  BY DEF RoutingInv, RoutingTypeOK
<1>2. Moves(c, f)
  BY <1>1, OwnMove
<1>3. Counts(c, f)
  <2>1. One(f.waiting) \in Int /\ \A m : One(Holds(f, m)) \in Int
    BY DEF One
  <2>2. \A m \in Models : One(Holds(client[c], m)) = One(Holds(f, m))
    BY DEF One
  <2> QED BY <1>1, <2>1, <2>2 DEF Counts
<1> QED BY <1>2, <1>3, ClientMoves

-----------------------------------------------------------------------------
(* Every step of the system preserves the invariant.                       *)

LEMMA FrameOf ==
  ASSUME RoutingInv, NEW c \in Clients
  PROVE  client \in [Clients -> Frames] /\ client[c] \in Frames /\ FrameOK(c, client[c])
BY DEF RoutingInv, RoutingTypeOK

LEMMA BlankFrame == Frame \in Frames
<1>1. [kind |-> "none"] \in [kind : {"none", "unread"}]
  OBVIOUS
<1>2. {} \in SUBSET Models
  OBVIOUS
<1> QED BY <1>1, <1>2 DEF Frame, Frames

(* The frame of a thread that has ended. *)
Over(f, kind, answers) ==
  /\ f \in Frames /\ f.pc = "closed" /\ f.req.kind = kind /\ ~f.waiting /\ ~f.done
  /\ f.answers = answers

LEMMA ClosedFrame ==
  ASSUME NEW f, f.answers \in Nat
  PROVE  /\ Over(Closed(f), "none", f.answers)
         /\ Over([Closed(f) EXCEPT !.req.kind = "unread"], "unread", f.answers)
         /\ \A k \in Nat :
              Over([Closed(f) EXCEPT !.answers = @ + k], "none", f.answers + k)
<1> DEFINE g == Closed(f)
<1>1. Frame \in Frames /\ Frame.req = [kind |-> "none"] /\ ~Frame.waiting /\ ~Frame.done
  BY BlankFrame DEF Frame
<1>2. /\ g \in Frames /\ g.pc = "closed" /\ g.req = [kind |-> "none"] /\ ~g.waiting /\ ~g.done
      /\ g.answers = f.answers
  <2> DEFINE e == Frame
  <2>1. e \in Frames /\ e.req = [kind |-> "none"] /\ ~e.waiting /\ ~e.done
    BY <1>1
  <2> HIDE DEF e
  <2>2. g = [e EXCEPT !.pc = "closed", !.answers = f.answers]
    BY DEF Closed, e
  <2> HIDE DEF g
  <2> QED BY <2>1, <2>2 DEF Frames
<1> HIDE DEF g
<1>3. Over(g, "none", f.answers)
  BY <1>2 DEF Over
<1>4. Over([g EXCEPT !.req.kind = "unread"], "unread", f.answers)
  <2> DEFINE r == [g.req EXCEPT !.kind = "unread"]
  <2>1. r \in [kind : {"none", "unread"}] /\ r.kind = "unread"
    BY <1>2
  <2> HIDE DEF r
  <2>2. Over([g EXCEPT !.req = r], "unread", f.answers)
    BY <1>2, <2>1 DEF Over, Frames
  <2> QED BY <2>2 DEF r
<1>5. ASSUME NEW k \in Nat PROVE Over([g EXCEPT !.answers = @ + k], "none", f.answers + k)
  BY <1>2 DEF Over, Frames
<1> QED BY <1>3, <1>4, <1>5 DEF g

LEMMA AcceptInv ==
  ASSUME RoutingInv, NEW c \in Clients, NEW r \in Requests[c], Accept(c, r)
  PROVE  RoutingInv'
<1> DEFINE g == client[c]
           f == [g EXCEPT !.pc = "reading", !.req = r]
<1>1. client \in [Clients -> Frames] /\ g \in Frames /\ FrameOK(c, g) /\ g.pc = "away"
  BY FrameOf DEF Accept
<1>2. client' = [client EXCEPT ![c] = f]
  BY DEF Accept
<1> HIDE DEF g
<1>3. /\ f \in Frames /\ f.pc = "reading" /\ f.waiting = g.waiting /\ f.answers = g.answers
  BY <1>1 DEF Frames
<1> HIDE DEF f
<1>4. FrameOK(c, f)
  BY <1>1, <1>3 DEF FrameOK
<1>5. \A m : ~Holds(f, m) /\ ~Pends(f, m) /\ ~Holds(g, m) /\ ~Pends(g, m)
  BY <1>1, <1>3 DEF Holds, Pends
<1> QED BY <1>2, <1>3, <1>4, <1>5, QuietMove DEF Accept, g

LEMMA ReadRequestInv ==
  ASSUME RoutingInv, NEW c \in Clients, ReadRequest(c)
  PROVE  RoutingInv'
<1> DEFINE g == client[c]
           f == client'[c]
<1>1. client \in [Clients -> Frames] /\ g \in Frames /\ FrameOK(c, g) /\ g.pc = "reading"
  BY FrameOf DEF ReadRequest
<1>2. g.waiting = FALSE /\ g.answers = 0
  BY <1>1 DEF FrameOK, Frames
<1>3. /\ client' = [client EXCEPT ![c] = f] /\ f \in Frames /\ f.waiting = FALSE
      /\ f.answers = 0 /\ (f.pc = "top" \/ (f.pc = "closed" /\ f.req.kind = "unread"))
  <2>1. CASE client' = [client EXCEPT ![c].pc = "top"]
    <3>1. f = [g EXCEPT !.pc = "top"]
      BY <1>1, <2>1
    <3>2. client' = [client EXCEPT ![c] = f]
      BY <2>1, <3>1
    <3> QED BY <1>1, <1>2, <3>1, <3>2 DEF Frames
  <2>2. CASE client' = [client EXCEPT ![c] = [Closed(@) EXCEPT !.req.kind = "unread"]]
    <3>1. f = [Closed(g) EXCEPT !.req.kind = "unread"]
      BY <1>1, <2>2
    <3>2. client' = [client EXCEPT ![c] = f]
      BY <2>2, <3>1
    <3>3. Over(f, "unread", 0)
      BY <1>2, <3>1, ClosedFrame
    <3> HIDE DEF f
    <3> QED BY <3>2, <3>3 DEF Over
  <2> QED BY <2>1, <2>2 DEF ReadRequest
<1> HIDE DEF f, g
<1>4. FrameOK(c, f)
  BY <1>3 DEF FrameOK
<1>5. \A m : ~Holds(f, m) /\ ~Pends(f, m) /\ ~Holds(g, m) /\ ~Pends(g, m)
  BY <1>1, <1>3 DEF Holds, Pends
<1> QED BY <1>2, <1>3, <1>4, <1>5, QuietMove DEF ReadRequest, g

(* The thread leaves route_model_request. *)
LEMMA LeavesInv ==
  ASSUME RoutingInv, NEW c \in Clients, client[c].pc \in {"top", "scan", "register"},
         NEW k \in {0, 1}, Leaves(c, k), k = 1 \/ c \in disconnected,
         UNCHANGED <<stopping_, queue, serving, running, deferred, in_flight, disconnected, main>>
  PROVE  RoutingInv'
<1> DEFINE g == client[c]
           f == [Closed(g) EXCEPT !.answers = @ + k]
<1>1. client \in [Clients -> Frames] /\ g \in Frames /\ FrameOK(c, g)
  BY FrameOf
<1>2. g.waiting \in BOOLEAN /\ g.answers = 0
  <2>1. g.waiting \in BOOLEAN
    BY <1>1 DEF Frames
  <2>2. g.answers = 0
    BY <1>1 DEF FrameOK
  <2> QED BY <2>1, <2>2
<1>3. k \in Nat /\ g.answers + k = k
  BY <1>2
<1>4. Over(f, "none", k)
  <2>1. g.answers \in Nat
    BY <1>2
  <2>2. Over(f, "none", g.answers + k)
    BY <1>3, <2>1, ClosedFrame
  <2> QED BY <1>3, <2>2
<1>5. client' = [client EXCEPT ![c] = f]
  BY DEF Leaves
<1> HIDE DEF f
<1>6. FrameOK(c, f) /\ f \in Frames /\ f.waiting = FALSE
  BY <1>4 DEF Over, Frames, FrameOK, Settled
<1>7. \A m : ~Holds(f, m) /\ ~Pends(f, m) /\ ~Holds(g, m) /\ ~Pends(g, m)
  BY <1>4 DEF Over, Holds, Pends
<1>8. Moves(c, f)
  BY <1>1, <1>5, OwnMove
<1>9. Counts(c, f)
  <2>1. /\ in_flight \in [Models -> Nat] /\ in_flight' = in_flight /\ routing_waiters_ \in Nat
        /\ routing_waiters_' = routing_waiters_ - (IF g.waiting THEN 1 ELSE 0)
    BY DEF RoutingInv, RoutingTypeOK, Leaves
  <2>2. /\ routing_waiters_' \in Int
        /\ routing_waiters_' + One(g.waiting) = routing_waiters_ + One(f.waiting)
    BY <1>2, <1>6, <2>1 DEF One
  <2>3. \A m \in Models : in_flight'[m] + One(Holds(g, m)) = in_flight[m] + One(Holds(f, m))
    BY <1>7, <2>1 DEF One
  <2>4. in_flight' \in [Models -> Int] /\ ~f.waiting /\ \A m : ~Holds(f, m)
    BY <1>6, <1>7, <2>1
  <2> QED BY <2>2, <2>3, <2>4 DEF Counts
<1> QED BY <1>6, <1>7, <1>8, <1>9, ClientMoves

(* A thread of route_model_request that goes on: it holds nothing yet. *)
LEMMA RouteMove ==
  ASSUME RoutingInv, NEW c \in Clients, NEW f \in Frames, client' = [client EXCEPT ![c] = f],
         client[c].pc \in {"top", "scan", "register", "asleep"},
         f.pc \in {"top", "scan", "register", "asleep"},
         f.waiting = client[c].waiting, f.answers = client[c].answers,
         UNCHANGED <<stopping_, queue, serving, running, deferred, in_flight, routing_waiters_,
                     disconnected, main>>
  PROVE  RoutingInv'
<1>1. FrameOK(c, client[c])
  BY FrameOf
<1>2. FrameOK(c, f)
  BY <1>1 DEF FrameOK
<1>3. \A m : ~Holds(f, m) /\ ~Pends(f, m) /\ ~Holds(client[c], m) /\ ~Pends(client[c], m)
  BY DEF Holds, Pends
<1> QED BY <1>2, <1>3, QuietMove

LEMMA CheckPeerInv ==
  ASSUME RoutingInv, NEW c \in Clients, CheckPeer(c)
  PROVE  RoutingInv'
<1>1. CASE c \in disconnected
  BY <1>1, LeavesInv DEF CheckPeer
<1>2. CASE c \notin disconnected
  <2> DEFINE g == client[c]
             f == [g EXCEPT !.pc = "scan", !.at = 1]
  <2>1. client \in [Clients -> Frames] /\ g \in Frames
    BY FrameOf
  <2>2. client' = [client EXCEPT ![c] = f]
    BY <1>2 DEF CheckPeer
  <2> HIDE DEF g
  <2>3. f \in Frames /\ f.pc = "scan" /\ f.waiting = g.waiting /\ f.answers = g.answers
    BY <2>1 DEF Frames
  <2> HIDE DEF f
  <2> QED BY <1>2, <2>2, <2>3, RouteMove DEF CheckPeer, g
<1> QED BY <1>1, <1>2

LEMMA ScanInv ==
  ASSUME RoutingInv, NEW c \in Clients, Scan(c)
  PROVE  RoutingInv'
<1> DEFINE g == client[c]
           m == g.at
<1>1. /\ client \in [Clients -> Frames] /\ g \in Frames /\ FrameOK(c, g) /\ g.pc = "scan"
      /\ m \in Models /\ m \in Nat
      /\ UNCHANGED <<stopping_, queue, serving, running, deferred, disconnected, main>>
  BY FrameOf, Constants DEF Scan
<1>2. ASSUME NEW at \in Nat, client' = [client EXCEPT ![c].at = at],
             UNCHANGED <<in_flight, routing_waiters_>>
      PROVE  RoutingInv'
  <2> DEFINE f == [g EXCEPT !.at = at]
  <2>1. client' = [client EXCEPT ![c] = f]
    BY <1>2
  <2> HIDE DEF g
  <2>2. f \in Frames /\ f.pc = "scan" /\ f.waiting = g.waiting /\ f.answers = g.answers
    BY <1>1 DEF Frames
  <2> HIDE DEF f
  <2> QED BY <1>1, <1>2, <2>1, <2>2, RouteMove DEF g
<1>3. CASE Leaves(c, 1) /\ UNCHANGED in_flight
  BY <1>1, <1>3, LeavesInv
<1>4. ASSUME Generates(c), in_flight[m] < capacity[m], Reserve(c)
      PROVE  RoutingInv'
  <2> DEFINE f == [g EXCEPT !.pc = "parse", !.waiting = FALSE]
  <2>1. client' = [client EXCEPT ![c] = f]
    BY <1>4 DEF Reserve
  <2>2. g.req.kind = "generate" /\ g.answers = 0 /\ g.waiting \in BOOLEAN
    <3>1. g.req.kind = "generate"
      BY <1>4 DEF Generates
    <3>2. g.answers = 0
      BY <1>1 DEF FrameOK
    <3> QED BY <1>1, <3>1, <3>2 DEF Frames
  <2> HIDE DEF g
  <2>3. /\ f \in Frames /\ f.pc = "parse" /\ ~f.waiting /\ f.waiting = FALSE /\ f.answers = 0
        /\ f.at = m /\ f.req.kind = "generate"
    BY <1>1, <2>2 DEF Frames
  <2> HIDE DEF f
  <2>4. FrameOK(c, f)
    BY <1>1, <2>3 DEF FrameOK
  <2>5. Moves(c, f)
    BY <1>1, <2>1, OwnMove
  <2>6. /\ \A k : (Holds(f, k) <=> k = m) /\ ~Pends(f, k)
        /\ \A k : ~Holds(g, k) /\ ~Pends(g, k)
    BY <1>1, <2>3 DEF Holds, Pends
  <2>7. Counts(c, f)
    <3>1. /\ in_flight \in [Models -> Nat] /\ in_flight' = [in_flight EXCEPT ![m] = @ + 1]
          /\ routing_waiters_ \in Nat
          /\ routing_waiters_' = routing_waiters_ - (IF g.waiting THEN 1 ELSE 0)
      BY <1>4 DEF RoutingInv, RoutingTypeOK, Reserve, g
    <3>2. /\ routing_waiters_' \in Int
          /\ routing_waiters_' + One(g.waiting) = routing_waiters_ + One(f.waiting)
      BY <2>2, <2>3, <3>1 DEF One
    <3>3. ASSUME NEW k \in Models
          PROVE  /\ in_flight'[k] \in Int
                 /\ in_flight'[k] + One(Holds(g, k)) = in_flight[k] + One(Holds(f, k))
                 /\ Holds(f, k) => in_flight[k] < capacity[k]
      BY <1>4, <2>6, <3>1 DEF One
    <3>4. in_flight' \in [Models -> Int]
      BY <3>1, <3>3
    <3> QED BY <2>3, <3>2, <3>3, <3>4 DEF Counts, g
  <2> QED BY <1>1, <2>3, <2>4, <2>5, <2>6, <2>7, ClientMoves DEF g
<1>5. m + 1 \in Nat /\ Len(capacity) + 1 \in Nat
  BY <1>1, Constants
<1>6. \/ \E at \in {m + 1, Len(capacity) + 1} :
           client' = [client EXCEPT ![c].at = at] /\ UNCHANGED <<in_flight, routing_waiters_>>
      \/ Leaves(c, 1) /\ UNCHANGED in_flight
      \/ Generates(c) /\ ~(in_flight[m] >= capacity[m]) /\ Reserve(c)
  BY DEF Scan
<1>7. in_flight[m] \in Nat /\ capacity[m] \in Nat
  BY <1>1, Constants DEF RoutingInv, RoutingTypeOK
<1> QED BY <1>2, <1>3, <1>4, <1>5, <1>6, <1>7

LEMMA NoModelInv ==
  ASSUME RoutingInv, NEW c \in Clients, NoModel(c)
  PROVE  RoutingInv'
<1>1. /\ client \in [Clients -> Frames] /\ client[c].pc = "scan"
      /\ UNCHANGED <<stopping_, queue, serving, running, deferred, in_flight, disconnected, main>>
  BY FrameOf DEF NoModel
<1>2. CASE Leaves(c, 1)
  BY <1>1, <1>2, LeavesInv
<1>3. CASE client' = [client EXCEPT ![c].pc = "register"] /\ UNCHANGED routing_waiters_
  <2> DEFINE g == client[c]
             f == [g EXCEPT !.pc = "register"]
  <2>1. g \in Frames /\ client' = [client EXCEPT ![c] = f]
    BY <1>3, FrameOf
  <2> HIDE DEF g
  <2>2. f \in Frames /\ f.pc = "register" /\ f.waiting = g.waiting /\ f.answers = g.answers
    BY <2>1 DEF Frames
  <2> HIDE DEF f
  <2> QED BY <1>1, <1>3, <2>1, <2>2, RouteMove DEF g
<1> QED BY <1>2, <1>3 DEF NoModel

LEMMA RetryTimeoutInv ==
  ASSUME RoutingInv, NEW c \in Clients, RetryTimeout(c)
  PROVE  RoutingInv'
<1> DEFINE g == client[c]
           f == [g EXCEPT !.pc = "top"]
<1>1. g \in Frames /\ client' = [client EXCEPT ![c] = f] /\ g.pc = "asleep"
  BY FrameOf DEF RetryTimeout
<1> HIDE DEF g
<1>2. f \in Frames /\ f.pc = "top" /\ f.waiting = g.waiting /\ f.answers = g.answers
  BY <1>1 DEF Frames
<1> HIDE DEF f
<1> QED BY <1>1, <1>2, RouteMove DEF RetryTimeout, g

LEMMA WaitForCapacityInv ==
  ASSUME RoutingInv, NEW c \in Clients, WaitForCapacity(c)
  PROVE  RoutingInv'
<1>1. /\ client \in [Clients -> Frames] /\ client[c].pc = "register"
      /\ UNCHANGED <<stopping_, queue, serving, running, deferred, in_flight, disconnected, main>>
  BY FrameOf DEF WaitForCapacity
<1>2. CASE Leaves(c, 1)
  BY <1>1, <1>2, LeavesInv
<1>3. ASSUME client[c].waiting \/ ~(routing_waiters_ >= routing_queue_limit),
             routing_waiters_' = routing_waiters_ + (IF client[c].waiting THEN 0 ELSE 1),
             client' = [client EXCEPT ![c].pc = "asleep", ![c].at = 1, ![c].waiting = TRUE]
      PROVE  RoutingInv'
  <2> DEFINE g == client[c]
             f == [g EXCEPT !.pc = "asleep", !.at = 1, !.waiting = TRUE]
  <2>1. g \in Frames /\ client' = [client EXCEPT ![c] = f] /\ FrameOK(c, g)
    BY <1>3, FrameOf
  <2>2. /\ g.waiting \in BOOLEAN /\ g.pc = "register"
        /\ g.waiting \/ ~(routing_waiters_ >= routing_queue_limit)
        /\ routing_waiters_' = routing_waiters_ + (IF g.waiting THEN 0 ELSE 1)
    BY <1>1, <1>3, <2>1 DEF Frames
  <2> HIDE DEF g
  <2>3. f \in Frames /\ f.pc = "asleep" /\ f.waiting = TRUE /\ f.answers = g.answers
    BY <2>1 DEF Frames
  <2> HIDE DEF f
  <2>4. FrameOK(c, f)
    BY <2>1, <2>2, <2>3 DEF FrameOK
  <2>5. \A m : ~Holds(f, m) /\ ~Pends(f, m) /\ ~Holds(g, m) /\ ~Pends(g, m)
    BY <2>2, <2>3 DEF Holds, Pends
  <2>6. Moves(c, f)
    BY <1>1, <2>1, OwnMove
  <2>7. Counts(c, f)
    <3>1. /\ in_flight \in [Models -> Nat] /\ in_flight' = in_flight
          /\ routing_waiters_ \in Nat /\ routing_queue_limit \in Nat
      BY <1>1, Constants DEF RoutingInv, RoutingTypeOK
    <3>2. /\ routing_waiters_' \in Int
          /\ routing_waiters_' + One(g.waiting) = routing_waiters_ + One(f.waiting)
          /\ g.waiting \/ routing_waiters_ < routing_queue_limit
      BY <2>2, <2>3, <3>1 DEF One
    <3>3. \A m \in Models : in_flight'[m] + One(Holds(g, m)) = in_flight[m] + One(Holds(f, m))
      BY <2>5, <3>1 DEF One
    <3>4. in_flight' \in [Models -> Int]
      BY <3>1
    <3> QED BY <2>5, <3>2, <3>3, <3>4 DEF Counts, g
  <2> QED BY <1>1, <2>3, <2>4, <2>5, <2>6, <2>7, ClientMoves DEF g
<1> QED BY <1>2, <1>3 DEF WaitForCapacity

(* A thread that keeps its reservation, and has no job pending. *)
LEMMA HoldMove ==
  ASSUME RoutingInv, NEW c \in Clients, NEW f \in Frames, client' = [client EXCEPT ![c] = f],
         client[c].pc = "parse" \/ (client[c].pc = "wait" /\ client[c].done),
         f.pc = "release" \/ (f.pc = "wait" /\ f.done),
         f.at = client[c].at, f.req = client[c].req, f.waiting = client[c].waiting,
         IF f.admission = "handled" THEN Settled(c, f) ELSE f.answers = 0,
         UNCHANGED <<stopping_, queue, serving, running, deferred, in_flight, routing_waiters_,
                     disconnected, main>>
  PROVE  RoutingInv'
<1>1. FrameOK(c, client[c])
  BY FrameOf
<1>2. FrameOK(c, f)
  BY <1>1 DEF FrameOK
<1>3. \A m : (Holds(f, m) <=> Holds(client[c], m)) /\ ~Pends(f, m) /\ ~Pends(client[c], m)
  BY DEF Holds, Pends
<1> QED BY <1>2, <1>3, QuietMove

LEMMA JobDoneInv ==
  ASSUME RoutingInv, NEW c \in Clients, JobDone(c)
  PROVE  RoutingInv'
<1> DEFINE g == client[c]
           f == [g EXCEPT !.pc = "release"]
<1>1. /\ g \in Frames /\ client' = [client EXCEPT ![c] = f] /\ g.pc = "wait" /\ g.done
      /\ FrameOK(c, g)
  BY FrameOf DEF JobDone
<1> HIDE DEF g
<1>2. /\ f \in Frames /\ f.pc = "release" /\ f.waiting = g.waiting /\ f.answers = g.answers
      /\ f.at = g.at /\ f.req = g.req /\ f.admission = g.admission
  BY <1>1 DEF Frames
<1> HIDE DEF f
<1>3. IF f.admission = "handled" THEN Settled(c, f) ELSE f.answers = 0
  BY <1>1, <1>2 DEF FrameOK, Settled
<1> QED BY <1>1, <1>2, <1>3, HoldMove DEF JobDone, g

Line(q, run, def) ==
  /\ IsInjective(q) /\ ToSet(q) \cap (run \cup def) = {} /\ run \cap def = {}
  /\ \A c, d \in def : c = d

LEMMA LineForm ==
  ASSUME NEW m
  PROVE  /\ Held(m) = ToSet(queue[m]) \cup running[m] \cup deferred[m]
         /\ Held(m)' = ToSet(queue'[m]) \cup running'[m] \cup deferred'[m]
         /\ LineOK(m) <=> Line(queue[m], running[m], deferred[m])
         /\ LineOK(m)' <=> Line(queue'[m], running'[m], deferred'[m])
<1>1. /\ Held(m) = ToSet(queue[m]) \cup running[m] \cup deferred[m]
      /\ Held(m)' = ToSet(queue'[m]) \cup running'[m] \cup deferred'[m]
  BY DEF Held, ToSet
<1>2. \A q, S : (\A i \in DOMAIN q : q[i] \notin S) <=> ToSet(q) \cap S = {}
  BY DEF ToSet
<1>3. LineOK(m) <=> Line(queue[m], running[m], deferred[m])
  BY <1>2, Zenon DEF LineOK, Line, IsInjective
<1>4. LineOK(m)' <=> Line(queue'[m], running'[m], deferred'[m])
  BY <1>2, Zenon DEF LineOK, Line, IsInjective
<1> QED BY <1>1, <1>3, <1>4

LEMMA NotifyType ==
  ASSUME RoutingInv, NEW m \in Models
  PROVE  notify_queue(serving, m) \in
           [Models -> {"loop", "admit", "checked", "asleep", "teardown", "gone"}]
BY DEF RoutingInv, RoutingTypeOK, notify_queue

LEMMA EnqueueInv ==
  ASSUME RoutingInv, NEW c \in Clients, NEW m \in Models, m = client[c].at,
         client[c].pc = "parse", ~stopping_[m], enqueue(c, m),
         UNCHANGED <<stopping_, running, deferred, in_flight, routing_waiters_, disconnected, main>>
  PROVE  RoutingInv'
<1> DEFINE g == client[c]
           f == [g EXCEPT !.pc = "wait", !.done = FALSE, !.admission = "handled"]
<1>1. /\ client \in [Clients -> Frames] /\ g \in Frames /\ FrameOK(c, g) /\ g.pc = "parse"
      /\ g.at = m /\ client' = [client EXCEPT ![c] = f]
  BY FrameOf DEF enqueue
<1> HIDE DEF g
<1>2. /\ f \in Frames /\ f.pc = "wait" /\ f.done = FALSE /\ f.at = m /\ f.req = g.req
      /\ f.waiting = g.waiting /\ f.answers = g.answers
  BY <1>1 DEF Frames
<1> HIDE DEF f
<1>3. FrameOK(c, f) /\ g.req.kind = "generate"
  BY <1>1, <1>2 DEF FrameOK
<1>4. \A k : /\ Holds(f, k) <=> Holds(g, k)
             /\ ~Pends(g, k) /\ (Pends(f, k) <=> k = m)
  BY <1>1, <1>2, <1>3 DEF Holds, Pends
<1>5. Moves(c, f)
  BY <1>1, OwnMove
<1>6. Counts(c, f)
  <2>1. /\ in_flight' \in [Models -> Int] /\ routing_waiters_' \in Int
        /\ in_flight' = in_flight /\ routing_waiters_' = routing_waiters_
    BY DEF RoutingInv, RoutingTypeOK
  <2>2. One(f.waiting) = One(g.waiting) /\ \A k \in Models : One(Holds(g, k)) = One(Holds(f, k))
    BY <1>2, <1>4 DEF One
  <2> QED BY <1>2, <1>4, <2>1, <2>2 DEF Counts, g
<1>7. /\ queue \in [Models -> Seq(Clients)] /\ queue[m] \in Seq(Clients)
      /\ running \in [Models -> SUBSET Clients] /\ deferred \in [Models -> SUBSET Clients]
      /\ stopping_ \in [Models -> BOOLEAN]
      /\ LineOK(m) /\ Held(m) = Pending(m)
  BY DEF RoutingInv, RoutingTypeOK
<1>8. c \notin Held(m)
  BY <1>1, <1>7 DEF Pending, g
<1>9. queue' = [queue EXCEPT ![m] = Append(@, c)] /\ serving' = notify_queue(serving, m)
  BY DEF enqueue
<1>10. /\ queue' \in [Models -> Seq(Clients)] /\ queue'[m] = Append(queue[m], c)
       /\ \A k \in Models \ {m} : queue'[k] = queue[k]
  BY <1>7, <1>9, AppendNew
<1>11. LineOK(m)' /\ Held(m)' = Held(m) \cup {c}
  <2> DEFINE q == queue[m]
  <2>1. /\ Line(q, running[m], deferred[m])
        /\ Held(m) = ToSet(q) \cup running[m] \cup deferred[m]
        /\ c \notin ToSet(q) /\ c \notin running[m] /\ c \notin deferred[m]
    BY <1>7, <1>8, LineForm
  <2>2. ToSet(Append(q, c)) = ToSet(q) \cup {c} /\ IsInjective(Append(q, c))
    BY <1>7, <2>1, AppendNew DEF Line
  <2> HIDE DEF q
  <2>3. Line(Append(q, c), running[m], deferred[m])
    BY <2>1, <2>2 DEF Line
  <2>4. ToSet(Append(q, c)) \cup running[m] \cup deferred[m] = Held(m) \cup {c}
    BY <2>1, <2>2
  <2>5. queue'[m] = Append(q, c) /\ running' = running /\ deferred' = deferred
    BY <1>10 DEF q
  <2> QED BY <2>3, <2>4, <2>5, LineForm
<1>12. \A k \in Models \ {m} :
         /\ queue'[k] = queue[k] /\ running'[k] = running[k] /\ deferred'[k] = deferred[k]
         /\ Pends(f, k) <=> Pends(client[c], k)
  BY <1>4, <1>10 DEF g
<1>13. Held(m)' = IF Pends(f, m) THEN Held(m) \cup {c} ELSE Held(m) \ {c}
  BY <1>4, <1>11
<1>14. serving' \in [Models -> {"loop", "admit", "checked", "asleep", "teardown", "gone"}]
  BY <1>9, NotifyType
<1> QED
  BY <1>2, <1>3, <1>5, <1>6, <1>7, <1>10, <1>11, <1>12, <1>13, <1>14, WorkMoves

LEMMA ParseForInv ==
  ASSUME RoutingInv, NEW c \in Clients, ParseFor(c)
  PROVE  RoutingInv'
<1> DEFINE g == client[c]
           m == client[c].at
<1>1. /\ client \in [Clients -> Frames] /\ g \in Frames /\ FrameOK(c, g) /\ g.pc = "parse"
      /\ UNCHANGED <<stopping_, running, deferred, in_flight, routing_waiters_, disconnected, main>>
  BY FrameOf DEF ParseFor
<1>2. m \in Models /\ g.answers = 0
  BY <1>1 DEF FrameOK
<1>3. CASE client' = [client EXCEPT ![c].pc = "release", ![c].admission = "handled",
                                    ![c].answers = @ + 1] /\ UNCHANGED <<queue, serving>>
  <2> DEFINE f == [g EXCEPT !.pc = "release", !.admission = "handled", !.answers = @ + 1]
  <2>1. client' = [client EXCEPT ![c] = f]
    BY <1>3
  <2> HIDE DEF g
  <2>2. /\ f \in Frames /\ f.pc = "release" /\ f.admission = "handled" /\ f.answers = 1
        /\ f.at = g.at /\ f.req = g.req /\ f.waiting = g.waiting
    <3> DEFINE n == g.answers + 1
    <3>1. n \in Nat /\ n = 1
      BY <1>2
    <3> HIDE DEF n
    <3>2. f = [g EXCEPT !.pc = "release", !.admission = "handled", !.answers = n]
      BY DEF n
    <3> HIDE DEF f
    <3> QED BY <1>1, <3>1, <3>2 DEF Frames
  <2> HIDE DEF f
  <2>3. Settled(c, f)
    BY <2>2 DEF Settled
  <2> QED BY <1>1, <1>3, <2>1, <2>2, <2>3, HoldMove DEF g
<1>4. CASE client' = [client EXCEPT ![c].pc = "release", ![c].admission = "unfit"]
           /\ UNCHANGED <<queue, serving>>
  <2> DEFINE f == [g EXCEPT !.pc = "release", !.admission = "unfit"]
  <2>1. client' = [client EXCEPT ![c] = f]
    BY <1>4
  <2> HIDE DEF g
  <2>2. /\ f \in Frames /\ f.pc = "release" /\ f.admission = "unfit" /\ f.answers = 0
        /\ f.at = g.at /\ f.req = g.req /\ f.waiting = g.waiting
    BY <1>1, <1>2 DEF Frames
  <2> HIDE DEF f
  <2> QED BY <1>1, <1>4, <2>1, <2>2, HoldMove DEF g
<1>5. CASE enqueue(c, m) /\ stopping_[m]
  <2> DEFINE f == [g EXCEPT !.pc = "wait", !.done = TRUE, !.admission = "busy"]
  <2>1. client' = [client EXCEPT ![c] = f] /\ UNCHANGED <<queue, serving>>
    BY <1>5 DEF enqueue
  <2> HIDE DEF g
  <2>2. /\ f \in Frames /\ f.pc = "wait" /\ f.done /\ f.admission = "busy" /\ f.answers = 0
        /\ f.at = g.at /\ f.req = g.req /\ f.waiting = g.waiting
    BY <1>1, <1>2 DEF Frames
  <2> HIDE DEF f
  <2> QED BY <1>1, <2>1, <2>2, HoldMove DEF g
<1>6. CASE enqueue(c, m) /\ ~stopping_[m]
  BY <1>1, <1>2, <1>6, EnqueueInv
<1> QED BY <1>3, <1>4, <1>5, <1>6 DEF ParseFor

LEMMA ReleaseInv ==
  ASSUME RoutingInv, NEW c \in Clients, Release(c)
  PROVE  RoutingInv'
<1> DEFINE g == client[c]
           m == client[c].at
           u == g.unfit \cup (IF g.admission = "unfit" THEN {m} ELSE {})
           f == IF g.admission = "handled" THEN Closed(g)
                ELSE [g EXCEPT !.pc = "scan", !.at = m + 1, !.done = FALSE,
                               !.admission = "handled", !.unfit = u]
<1>1. /\ client \in [Clients -> Frames] /\ g \in Frames /\ FrameOK(c, g) /\ g.pc = "release"
      /\ UNCHANGED <<stopping_, queue, serving, running, deferred, routing_waiters_, disconnected,
                     main>>
  BY FrameOf DEF Release
<1>2. /\ m \in Models /\ m \in Nat /\ g.req.kind = "generate" /\ g.waiting = FALSE
      /\ g.answers \in Nat
      /\ IF g.admission = "handled" THEN Settled(c, g) ELSE g.answers = 0
  <2>1. m \in Models /\ g.req.kind = "generate"
    BY <1>1 DEF FrameOK
  <2>2. g.waiting = FALSE /\ g.answers \in Nat
    BY <1>1 DEF FrameOK, Frames
  <2>3. IF g.admission = "handled" THEN Settled(c, g) ELSE g.answers = 0
    BY <1>1 DEF FrameOK
  <2> QED BY <2>1, <2>2, <2>3, Constants
<1>3. /\ g.admission = "handled" => client' = notify_routing([client EXCEPT ![c] = f])
      /\ g.admission # "handled" => client' = [client EXCEPT ![c] = f]
  <2>1. CASE g.admission = "handled"
    BY <2>1 DEF Release
  <2>2. CASE g.admission # "handled"
    BY <2>2 DEF Release
  <2> QED BY <2>1, <2>2
<1>4. /\ f \in Frames /\ f.waiting = FALSE /\ f.pc \in {"closed", "scan"}
      /\ f.pc = "closed" => Settled(c, f) /\ f.req.kind # "unread"
      /\ f.pc = "scan" => f.answers = 0
  <2>1. CASE g.admission = "handled"
    <3>1. Over(f, "none", g.answers)
      BY <1>2, <2>1, ClosedFrame
    <3> HIDE DEF f
    <3> QED BY <1>2, <2>1, <3>1 DEF Over, Frames, Settled
  <2>2. CASE g.admission # "handled"
    <3>1. u \in SUBSET Models /\ m + 1 \in Nat
      BY <1>1, <1>2 DEF Frames
    <3> HIDE DEF u, g
    <3> DEFINE h == [g EXCEPT !.pc = "scan", !.at = m + 1, !.done = FALSE,
                              !.admission = "handled", !.unfit = u]
    <3>2. f = h
      BY <2>2
    <3> HIDE DEF f
    <3>3. h \in Frames /\ h.waiting = FALSE /\ h.pc = "scan" /\ h.answers = 0
      BY <1>1, <1>2, <2>2, <3>1 DEF Frames
    <3> QED BY <3>2, <3>3
  <2> QED BY <2>1, <2>2
<1>5. in_flight' = [in_flight EXCEPT ![m] = @ - 1] /\ in_flight \in [Models -> Nat]
  BY DEF Release, RoutingInv, RoutingTypeOK
<1> HIDE DEF f
<1>6. FrameOK(c, f)
  BY <1>4 DEF FrameOK
<1>7. Moves(c, f)
  BY <1>1, <1>3, <1>4, OwnMove
<1>8. \A k : /\ Holds(g, k) <=> k = m
             /\ ~Holds(f, k) /\ ~Pends(f, k) /\ ~Pends(g, k)
  BY <1>1, <1>2, <1>4 DEF Holds, Pends
<1>9. Counts(c, f)
  <2>1. /\ routing_waiters_' \in Int /\ routing_waiters_' = routing_waiters_
        /\ One(f.waiting) = One(g.waiting)
    <3>1. routing_waiters_' = routing_waiters_ /\ routing_waiters_ \in Int
      BY <1>1 DEF RoutingInv, RoutingTypeOK
    <3> QED BY <1>2, <1>4, <3>1 DEF One
  <2>2. ASSUME NEW k \in Models
        PROVE  /\ in_flight'[k] \in Int
               /\ in_flight'[k] + One(Holds(g, k)) = in_flight[k] + One(Holds(f, k))
    BY <1>5, <1>8 DEF One
  <2>3. in_flight' \in [Models -> Int]
    BY <1>5, <2>2
  <2> QED BY <1>4, <1>8, <2>1, <2>2, <2>3 DEF Counts
<1> QED BY <1>1, <1>4, <1>6, <1>7, <1>8, <1>9, ClientMoves

Servings == {"loop", "admit", "checked", "asleep", "teardown", "gone"}
Mains == [pc : {"accept", "stop", "stop_serving", "join", "clients", "returned"}, at : Models]

(* No thread settles or takes anything; some may be woken. *)
LEMMA QuietInv ==
  ASSUME RoutingInv,
         client' = [d \in Clients |-> client'[d]],
         \A d \in Clients : client'[d] \in {client[d], Woken(client[d])},
         UNCHANGED <<in_flight, routing_waiters_>>,
         disconnected \subseteq disconnected', disconnected' \in SUBSET Clients,
         stopping_' \in [Models -> BOOLEAN], queue' \in [Models -> Seq(Clients)],
         serving' \in [Models -> Servings],
         running' \in [Models -> SUBSET Clients], deferred' \in [Models -> SUBSET Clients],
         main' \in Mains,
         \A m \in Models : LineOK(m)' /\ Held(m)' = Held(m)
  PROVE  RoutingInv'
<1>1. \A d \in Clients : client[d] \in Frames /\ FrameOK(d, client[d])
  BY FrameOf
<1>2. ASSUME NEW d \in Clients
      PROVE  /\ client'[d] \in Frames /\ FrameOK(d, client'[d])
             /\ client'[d].waiting = client[d].waiting
             /\ \A m : /\ Holds(client'[d], m) <=> Holds(client[d], m)
                       /\ Pends(client'[d], m) <=> Pends(client[d], m)
  <2>1. client[d] \in Frames /\ FrameOK(d, client[d])
    BY <1>1
  <2>2. client'[d] \in {client[d], Woken(client[d])}
    OBVIOUS
  <2> QED BY <2>1, <2>2, WokenFrame
<1>3. client' \in [Clients -> Frames]
  <2>1. \A d \in Clients : client'[d] \in Frames
    BY <1>2
  <2>2. client' = [d \in Clients |-> client'[d]]
    OBVIOUS
  <2> QED BY <2>1, <2>2
<1>4. \A d \in Clients : FrameOK(d, client[d])'
  BY <1>2 DEF FrameOK, Settled
<1>5. Waiting' = Waiting
  BY <1>2 DEF Waiting
<1>6. ASSUME NEW m \in Models PROVE Holders(m)' = Holders(m) /\ Pending(m)' = Pending(m)
  <2>1. \A d : /\ d \in Holders(m) <=> d \in Clients /\ Holds(client[d], m)
               /\ d \in Holders(m)' <=> d \in Clients /\ Holds(client'[d], m)
               /\ d \in Pending(m) <=> d \in Clients /\ Pends(client[d], m)
               /\ d \in Pending(m)' <=> d \in Clients /\ Pends(client'[d], m)
    BY DEF Holders, Pending, Generates, Holds, Pends
  <2>2. \A d : /\ d \in Holders(m)' <=> d \in Holders(m)
               /\ d \in Pending(m)' <=> d \in Pending(m)
    BY <1>2, <2>1
  <2> QED BY <2>2
<1>7. RoutingTypeOK'
  BY <1>3 DEF RoutingInv, RoutingTypeOK, Servings, Mains
<1>8. ReservationsCounted'
  BY <1>5, <1>6 DEF RoutingInv, ReservationsCounted
<1>9. \A m \in Models : LineOK(m)' /\ Held(m)' = Pending(m)'
  BY <1>6 DEF RoutingInv
<1> QED BY <1>4, <1>7, <1>8, <1>9 DEF RoutingInv

(* A step that only moves the serving threads, the flags or run(). *)
LEMMA ThreadsInv ==
  ASSUME RoutingInv, UNCHANGED <<queue, running, deferred, in_flight, routing_waiters_, client,
                                 disconnected>>,
         stopping_' \in [Models -> BOOLEAN], serving' \in [Models -> Servings], main' \in Mains
  PROVE  RoutingInv'
<1>1. client' = [d \in Clients |-> client'[d]]
  BY DEF RoutingInv, RoutingTypeOK
<1>2. /\ queue' \in [Models -> Seq(Clients)]
      /\ running' \in [Models -> SUBSET Clients] /\ deferred' \in [Models -> SUBSET Clients]
      /\ disconnected' \in SUBSET Clients
  BY DEF RoutingInv, RoutingTypeOK
<1>3. \A m \in Models : LineOK(m)' /\ Held(m)' = Held(m)
  BY DEF RoutingInv, LineOK, Held
<1> QED BY <1>1, <1>2, <1>3, QuietInv

(* What finish_job may say of a job, with k answers sent. *)
Due(j, admission, k) ==
  /\ k \in {0, 1}
  /\ \/ admission = "handled" /\ (k = 1 \/ j \in disconnected)
     \/ admission \in {"unfit", "busy"} /\ k = 0

(* A model gives a job up: its thread is told what became of it. *)
LEMMA FinishInv ==
  ASSUME RoutingInv, NEW m \in Models, NEW j \in Held(m), NEW admission, NEW k,
         Finished(j, admission, k), Due(j, admission, k),
         UNCHANGED <<stopping_, in_flight, routing_waiters_, disconnected, main>>,
         queue' \in [Models -> Seq(Clients)], serving' \in [Models -> Servings],
         running' \in [Models -> SUBSET Clients], deferred' \in [Models -> SUBSET Clients],
         LineOK(m)', Held(m)' = Held(m) \ {j},
         \A i \in Models \ {m} :
           queue'[i] = queue[i] /\ running'[i] = running[i] /\ deferred'[i] = deferred[i]
  PROVE  RoutingInv'
<1> DEFINE g == client[j]
           f == [g EXCEPT !.done = TRUE, !.admission = admission, !.answers = @ + k]
<1>1. /\ j \in Clients /\ g.pc = "wait" /\ g.done = FALSE /\ g.at = m
      /\ g.req.kind = "generate" /\ client \in [Clients -> Frames] /\ g \in Frames
      /\ FrameOK(j, g)
  <2>1. j \in Pending(m)
    BY DEF RoutingInv
  <2>2. j \in Clients /\ g.pc = "wait" /\ ~g.done /\ g.at = m /\ g.req.kind = "generate"
    BY <2>1 DEF Pending, Holders, Generates
  <2>3. client \in [Clients -> Frames] /\ g \in Frames /\ FrameOK(j, g)
    BY <2>2, FrameOf
  <2> QED BY <2>2, <2>3 DEF Frames
<1>2. g.answers = 0 /\ ~g.waiting
  BY <1>1 DEF FrameOK
<1>3. client' = [client EXCEPT ![j] = f]
  BY DEF Finished
<1>4. /\ f \in Frames /\ f.pc = "wait" /\ f.done = TRUE /\ f.admission = admission
      /\ f.answers = k /\ f.at = g.at /\ f.req = g.req /\ f.waiting = g.waiting
  <2> DEFINE n == g.answers + k
  <2>1. n \in Nat /\ n = k /\ admission \in {"handled", "unfit", "busy"}
    BY <1>2 DEF Due
  <2> HIDE DEF n
  <2>2. f = [g EXCEPT !.done = TRUE, !.admission = admission, !.answers = n]
    BY DEF n
  <2> HIDE DEF f, g
  <2> QED BY <1>1, <2>1, <2>2 DEF Frames
<1> HIDE DEF f
<1>5. FrameOK(j, f)
  BY <1>1, <1>2, <1>4 DEF FrameOK, Settled, Due
<1>6. \A i : /\ Holds(f, i) <=> Holds(g, i)
             /\ ~Pends(f, i) /\ (Pends(g, i) <=> i = m)
  BY <1>1, <1>4 DEF Holds, Pends
<1>7. Moves(j, f)
  BY <1>1, <1>3, OwnMove
<1>8. Counts(j, f)
  <2>1. /\ in_flight' \in [Models -> Int] /\ routing_waiters_' \in Int
        /\ in_flight' = in_flight /\ routing_waiters_' = routing_waiters_
    BY DEF RoutingInv, RoutingTypeOK
  <2>2. One(f.waiting) = One(g.waiting) /\ \A i \in Models : One(Holds(g, i)) = One(Holds(f, i))
    BY <1>4, <1>6 DEF One
  <2> QED BY <1>4, <1>6, <2>1, <2>2 DEF Counts
<1>9. \A i \in Models \ {m} :
        /\ queue'[i] = queue[i] /\ running'[i] = running[i] /\ deferred'[i] = deferred[i]
        /\ Pends(f, i) <=> Pends(client[j], i)
  BY <1>6
<1>10. Held(m)' = IF Pends(f, m) THEN Held(m) \cup {j} ELSE Held(m) \ {j}
  BY <1>6
<1>11. /\ stopping_' \in [Models -> BOOLEAN]
       /\ serving' \in [Models -> {"loop", "admit", "checked", "asleep", "teardown", "gone"}]
  BY DEF RoutingInv, RoutingTypeOK, Servings
<1> HIDE DEF g
<1> QED BY <1>1, <1>4, <1>5, <1>7, <1>8, <1>9, <1>10, <1>11, WorkMoves

(* The job that TakeJob takes, and the line it leaves behind. *)
LEMMA TakenLine ==
  ASSUME RoutingInv, NEW m \in Models, deferred[m] # {} \/ queue[m] # <<>>,
         NEW j, j = (IF deferred[m] # {} THEN CHOOSE d \in deferred[m] : TRUE ELSE Head(queue[m])),
         queue' = (IF deferred[m] # {} THEN queue ELSE [queue EXCEPT ![m] = Tail(@)])
  PROVE  /\ queue' \in [Models -> Seq(Clients)]
         /\ \A i \in Models \ {m} : queue'[i] = queue[i]
         /\ j \in Clients /\ j \notin ToSet(queue'[m]) \cup running[m]
         /\ Held(m) = ToSet(queue'[m]) \cup running[m] \cup {j}
         /\ Line(queue'[m], running[m], {})
<1> DEFINE q == queue[m]
           run == running[m]
           def == deferred[m]
<1>1. /\ queue \in [Models -> Seq(Clients)] /\ q \in Seq(Clients)
      /\ def \in SUBSET Clients /\ LineOK(m)
  BY DEF RoutingInv, RoutingTypeOK
<1>2. Line(q, run, def) /\ Held(m) = ToSet(q) \cup run \cup def
  BY <1>1, LineForm
<1> HIDE DEF q, run, def
<1>3. CASE def # {}
  <2>1. queue' = queue /\ j \in def
    BY <1>3 DEF def
  <2>2. def = {j}
    BY <1>2, <2>1 DEF Line
  <2>3. j \in Clients /\ j \notin ToSet(q) \cup run /\ Line(q, run, {})
    BY <1>1, <1>2, <2>2 DEF Line
  <2> QED BY <1>1, <1>2, <2>1, <2>2, <2>3 DEF q, run, def
<1>4. CASE def = {}
  <2>1. queue' = [queue EXCEPT ![m] = Tail(@)] /\ j = Head(q) /\ q # <<>>
    BY <1>4 DEF def, q
  <2>2. /\ Tail(q) \in Seq(Clients) /\ j \in Clients /\ j \in ToSet(q)
        /\ ToSet(Tail(q)) = ToSet(q) \ {j} /\ IsInjective(Tail(q))
    <3>1. q \in Seq(Clients) /\ q # <<>> /\ IsInjective(q)
      BY <1>1, <1>2, <2>1 DEF Line
    <3>2. /\ Tail(q) \in Seq(Clients) /\ Head(q) \in Clients /\ Head(q) \in ToSet(q)
          /\ ToSet(Tail(q)) = ToSet(q) \ {Head(q)} /\ IsInjective(Tail(q))
      BY <3>1, TailRest, Zenon
    <3> QED BY <2>1, <3>2
  <2>3. /\ j \notin ToSet(Tail(q)) \cup run
        /\ ToSet(q) \cup run \cup def = ToSet(Tail(q)) \cup run \cup {j}
        /\ Line(Tail(q), run, {})
    BY <1>2, <1>4, <2>2 DEF Line
  <2>4. /\ queue' \in [Models -> Seq(Clients)] /\ queue'[m] = Tail(q)
        /\ \A i \in Models \ {m} : queue'[i] = queue[i]
    BY <1>1, <2>1, <2>2 DEF q
  <2> QED BY <1>2, <2>2, <2>3, <2>4 DEF run
<1> QED BY <1>3, <1>4

LEMMA ToServeType ==
  ASSUME RoutingInv, NEW m, NEW at \in Servings, UNCHANGED serving \/ ToServe(m, at)
  PROVE  serving' \in [Models -> Servings]
BY DEF RoutingInv, RoutingTypeOK, Servings, ToServe

LEMMA TakeJobInv ==
  ASSUME RoutingInv, NEW m \in Models, TakeJob(m)
  PROVE  RoutingInv'
<1> DEFINE j == IF deferred[m] # {} THEN CHOOSE d \in deferred[m] : TRUE ELSE Head(queue[m])
           q == queue'[m]
           run == running[m]
<1>1. /\ queue' = (IF deferred[m] # {} THEN queue ELSE [queue EXCEPT ![m] = Tail(@)])
      /\ deferred[m] # {} \/ queue[m] # <<>>
      /\ ToServe(m, "loop")
      /\ UNCHANGED <<stopping_, in_flight, routing_waiters_, disconnected, main>>
  BY DEF TakeJob
<1>2. /\ running \in [Models -> SUBSET Clients] /\ deferred \in [Models -> SUBSET Clients]
      /\ stopping_' \in [Models -> BOOLEAN] /\ disconnected' \in SUBSET Clients
      /\ main' \in Mains
      /\ \A i \in Models \ {m} : LineOK(i) /\ Held(i) = Pending(i)
  BY <1>1 DEF RoutingInv, RoutingTypeOK, Mains
<1>3. serving' \in [Models -> Servings]
  BY <1>1, ToServeType DEF Servings
<1>4. \/ /\ running' = [running EXCEPT ![m] = @ \cup {j}]
         /\ deferred' = [deferred EXCEPT ![m] = {}] /\ UNCHANGED client
      \/ \E admission \in {"handled", "unfit", "busy"}, k \in {0, 1} :
           /\ Due(j, admission, k) /\ Finished(j, admission, k)
           /\ deferred' = [deferred EXCEPT ![m] = {}] /\ UNCHANGED running
      \/ deferred' = [deferred EXCEPT ![m] = {j}] /\ UNCHANGED <<running, client>>
  BY DEF TakeJob, Due
<1>5. /\ queue' \in [Models -> Seq(Clients)]
      /\ \A i \in Models \ {m} : queue'[i] = queue[i]
      /\ j \in Clients /\ j \notin ToSet(q) \cup run
      /\ Held(m) = ToSet(q) \cup run \cup {j}
      /\ Line(q, run, {})
  BY <1>1, TakenLine
<1> HIDE DEF j, q, run
<1>6. ASSUME UNCHANGED client, NEW r \in SUBSET Clients, NEW d \in SUBSET Clients,
             running' = [running EXCEPT ![m] = r], deferred' = [deferred EXCEPT ![m] = d],
             Line(q, r, d), r \cup d = run \cup {j}
      PROVE  RoutingInv'
  <2>1. /\ running' \in [Models -> SUBSET Clients] /\ deferred' \in [Models -> SUBSET Clients]
        /\ running'[m] = r /\ deferred'[m] = d
        /\ \A i \in Models \ {m} : running'[i] = running[i] /\ deferred'[i] = deferred[i]
    BY <1>2, <1>6
  <2>2. LineOK(m)' /\ Held(m)' = Held(m)
    <3>1. LineOK(m)' /\ Held(m)' = ToSet(q) \cup r \cup d
      BY <1>6, <2>1, LineForm DEF q
    <3> QED BY <1>5, <1>6, <3>1
  <2>3. \A i \in Models \ {m} : LineOK(i)' /\ Held(i)' = Held(i)
    <3> SUFFICES ASSUME NEW i \in Models \ {m} PROVE LineOK(i)' /\ Held(i)' = Held(i)
      OBVIOUS
    <3>1. /\ queue'[i] = queue[i] /\ running'[i] = running[i] /\ deferred'[i] = deferred[i]
          /\ LineOK(i)
      BY <1>2, <1>5, <2>1
    <3>2. LineOK(i)'
      BY <3>1 DEF LineOK
    <3>3. Held(i)' = Held(i)
      BY <3>1 DEF Held
    <3> QED BY <3>2, <3>3
  <2>4. client' = [d1 \in Clients |-> client'[d1]] /\ \A d1 \in Clients : client'[d1] = client[d1]
    BY <1>6 DEF RoutingInv, RoutingTypeOK
  <2>5. \A i \in Models : LineOK(i)' /\ Held(i)' = Held(i)
    BY <2>2, <2>3
  <2> QED BY <1>1, <1>2, <1>3, <1>5, <2>1, <2>4, <2>5, QuietInv
<1>7. CASE /\ running' = [running EXCEPT ![m] = @ \cup {j}]
           /\ deferred' = [deferred EXCEPT ![m] = {}] /\ UNCHANGED client
  <2> DEFINE r == run \cup {j}
  <2>1. r \in SUBSET Clients /\ Line(q, r, {})
    BY <1>2, <1>5 DEF Line, run
  <2>2. running' = [running EXCEPT ![m] = r] /\ {} \in SUBSET Clients
    BY <1>7 DEF run
  <2> QED BY <1>6, <1>7, <2>1, <2>2
<1>8. CASE deferred' = [deferred EXCEPT ![m] = {j}] /\ UNCHANGED <<running, client>>
  <2>1. {j} \in SUBSET Clients /\ Line(q, run, {j}) /\ run \in SUBSET Clients
    BY <1>2, <1>5 DEF Line, run
  <2>2. running' = [running EXCEPT ![m] = run]
    BY <1>2, <1>8 DEF run
  <2> QED BY <1>6, <1>8, <2>1, <2>2
<1>9. ASSUME NEW admission, NEW k, Due(j, admission, k), Finished(j, admission, k),
             deferred' = [deferred EXCEPT ![m] = {}], UNCHANGED running
      PROVE  RoutingInv'
  <2>1. /\ running' \in [Models -> SUBSET Clients] /\ deferred' \in [Models -> SUBSET Clients]
        /\ running'[m] = run /\ deferred'[m] = {}
        /\ \A i \in Models \ {m} : running'[i] = running[i] /\ deferred'[i] = deferred[i]
    BY <1>2, <1>9 DEF run
  <2>2. LineOK(m)' /\ Held(m)' = ToSet(q) \cup run \cup {}
    BY <1>5, <2>1, LineForm DEF q
  <2>3. Held(m)' = Held(m) \ {j} /\ j \in Held(m)
    BY <1>5, <2>2
  <2>4. UNCHANGED <<stopping_, in_flight, routing_waiters_, disconnected, main>>
    BY <1>1
  <2>5. \A i \in Models \ {m} :
          queue'[i] = queue[i] /\ running'[i] = running[i] /\ deferred'[i] = deferred[i]
    BY <1>5, <2>1
  <2>6. queue' \in [Models -> Seq(Clients)] /\ LineOK(m)' /\ Held(m)' = Held(m) \ {j}
    BY <1>5, <2>2, <2>3
  <2> QED BY <1>3, <1>9, <2>1, <2>3, <2>4, <2>5, <2>6, FinishInv
<1> QED BY <1>4, <1>7, <1>8, <1>9

(* A job leaves its slot, its place after the slots, or the queue. *)
LEMMA DropInv ==
  ASSUME RoutingInv, NEW m \in Models, NEW j \in Held(m), NEW k, Due(j, "handled", k),
         Finished(j, "handled", k), serving' \in [Models -> Servings],
         \/ running' = [running EXCEPT ![m] = @ \ {j}] /\ UNCHANGED <<queue, deferred>>
            /\ j \in running[m]
         \/ deferred' = [deferred EXCEPT ![m] = {}] /\ UNCHANGED <<queue, running>>
            /\ j \in deferred[m]
         \/ queue' = [queue EXCEPT ![m] = Tail(@)] /\ UNCHANGED <<running, deferred>>
            /\ j = Head(queue[m]) /\ queue[m] # <<>>,
         UNCHANGED <<stopping_, in_flight, routing_waiters_, disconnected, main>>
  PROVE  RoutingInv'
<1> DEFINE q == queue[m]
           run == running[m]
           def == deferred[m]
<1>1. /\ queue \in [Models -> Seq(Clients)] /\ q \in Seq(Clients)
      /\ running \in [Models -> SUBSET Clients] /\ deferred \in [Models -> SUBSET Clients]
  BY DEF RoutingInv, RoutingTypeOK
<1>2. Line(q, run, def) /\ Held(m) = ToSet(q) \cup run \cup def
  BY LineForm DEF RoutingInv
<1>3. /\ queue' \in [Models -> Seq(Clients)]
      /\ running' \in [Models -> SUBSET Clients] /\ deferred' \in [Models -> SUBSET Clients]
      /\ \A i \in Models \ {m} :
           queue'[i] = queue[i] /\ running'[i] = running[i] /\ deferred'[i] = deferred[i]
      /\ Line(queue'[m], running'[m], deferred'[m])
      /\ ToSet(queue'[m]) \cup running'[m] \cup deferred'[m] = Held(m) \ {j}
  <2>1. CASE running' = [running EXCEPT ![m] = @ \ {j}] /\ UNCHANGED <<queue, deferred>>
             /\ j \in run
    <3>1. running'[m] = run \ {j} /\ queue'[m] = q /\ deferred'[m] = def
      BY <1>1, <2>1
    <3> HIDE DEF q, run, def
    <3>2. /\ Line(q, run \ {j}, def)
          /\ ToSet(q) \cup (run \ {j}) \cup def = Held(m) \ {j}
      BY <1>2, <2>1 DEF Line
    <3> QED BY <1>1, <2>1, <3>1, <3>2
  <2>2. CASE deferred' = [deferred EXCEPT ![m] = {}] /\ UNCHANGED <<queue, running>> /\ j \in def
    <3>1. running'[m] = run /\ queue'[m] = q /\ deferred'[m] = {}
      BY <1>1, <2>2
    <3> HIDE DEF q, run, def
    <3>2. Line(q, run, {}) /\ ToSet(q) \cup run \cup {} = Held(m) \ {j}
      BY <1>2, <2>2 DEF Line
    <3> QED BY <1>1, <2>2, <3>1, <3>2
  <2>3. CASE queue' = [queue EXCEPT ![m] = Tail(@)] /\ UNCHANGED <<running, deferred>>
             /\ j = Head(q) /\ q # <<>>
    <3>1. /\ Tail(q) \in Seq(Clients) /\ Head(q) \in Clients /\ Head(q) \in ToSet(q)
          /\ ToSet(Tail(q)) = ToSet(q) \ {Head(q)} /\ IsInjective(Tail(q))
      <4>1. q \in Seq(Clients) /\ q # <<>> /\ IsInjective(q)
        BY <1>1, <1>2, <2>3 DEF Line
      <4> QED BY <4>1, TailRest, Zenon
    <3>2. /\ running'[m] = run /\ deferred'[m] = def /\ queue'[m] = Tail(q)
          /\ queue' \in [Models -> Seq(Clients)]
          /\ \A i \in Models \ {m} : queue'[i] = queue[i]
      BY <1>1, <2>3, <3>1
    <3> HIDE DEF q, run, def
    <3>3. Line(Tail(q), run, def) /\ ToSet(Tail(q)) \cup run \cup def = Held(m) \ {j}
      BY <1>2, <2>3, <3>1 DEF Line
    <3> QED BY <1>1, <2>3, <3>2, <3>3
  <2> QED BY <2>1, <2>2, <2>3
<1> HIDE DEF q, run, def
<1>4. LineOK(m)' /\ Held(m)' = Held(m) \ {j}
  BY <1>3, LineForm
<1> QED BY <1>3, <1>4, FinishInv

LEMMA RetireInv ==
  ASSUME RoutingInv, NEW m \in Models, Retire(m)
  PROVE  RoutingInv'
<1>1. PICK j \in running[m] :
        /\ running' = [running EXCEPT ![m] = @ \ {j}]
        /\ Finished(j, "handled", IF j \in disconnected THEN 0 ELSE 1)
  BY DEF Retire
<1>2. Due(j, "handled", IF j \in disconnected THEN 0 ELSE 1) /\ j \in Held(m)
  BY DEF Due, Held
<1>3. serving' \in [Models -> Servings]
  BY ToServeType DEF Servings, Retire
<1> QED BY <1>1, <1>2, <1>3, DropInv DEF Retire

LEMMA TeardownInv ==
  ASSUME RoutingInv, NEW m \in Models, Teardown(m)
  PROVE  RoutingInv'
<1>1. serving' \in [Models -> Servings]
  BY ToServeType DEF Servings, Teardown
<1>2. \A j : Due(j, "handled", 1)
  BY DEF Due
<1>3. UNCHANGED <<stopping_, in_flight, routing_waiters_, disconnected, main>>
  BY DEF Teardown
<1>4. Held(m) = ToSet(queue[m]) \cup running[m] \cup deferred[m]
  BY LineForm
<1>5. ASSUME NEW j \in running[m], running' = [running EXCEPT ![m] = @ \ {j}],
             Finished(j, "handled", 1), UNCHANGED <<queue, deferred>>
      PROVE  RoutingInv'
  BY <1>1, <1>2, <1>3, <1>4, <1>5, DropInv
<1>6. ASSUME NEW j \in deferred[m], deferred' = [deferred EXCEPT ![m] = {}],
             Finished(j, "handled", 1), UNCHANGED <<queue, running>>
      PROVE  RoutingInv'
  BY <1>1, <1>2, <1>3, <1>4, <1>6, DropInv
<1>7. ASSUME queue[m] # <<>>, queue' = [queue EXCEPT ![m] = Tail(@)],
             Finished(Head(queue[m]), "handled", 1), UNCHANGED <<running, deferred>>
      PROVE  RoutingInv'
  <2>1. Head(queue[m]) \in ToSet(queue[m])
    <3>1. queue[m] \in Seq(Clients) /\ IsInjective(queue[m])
      BY LineForm DEF RoutingInv, RoutingTypeOK, Line
    <3> QED BY <1>7, <3>1, TailRest, Zenon
  <2> DEFINE j == Head(queue[m])
  <2>2. j \in Held(m) /\ j = Head(queue[m]) /\ Finished(j, "handled", 1)
    BY <1>4, <1>7, <2>1
  <2> HIDE DEF j
  <2> QED BY <1>1, <1>2, <1>3, <1>7, <2>2, DropInv
<1> QED BY <1>5, <1>6, <1>7 DEF Teardown

LEMMA ServeStepInv ==
  ASSUME RoutingInv, NEW m \in Models, ServeStep(m)
  PROVE  RoutingInv'
<1>1. CASE TakeJob(m)
  BY <1>1, TakeJobInv
<1>2. CASE Retire(m)
  BY <1>2, RetireInv
<1>3. CASE Teardown(m)
  BY <1>3, TeardownInv
<1>4. CASE \/ BeginAdmission(m) \/ FoundEmpty(m) \/ DequeueSleeps(m) \/ DequeueTimeout(m)
           \/ LeaveLoop(m) \/ ServingEnds(m)
  <2>1. /\ \E at \in Servings : ToServe(m, at)
        /\ UNCHANGED <<stopping_, queue, running, deferred, in_flight, routing_waiters_, client,
                       disconnected, main>>
    BY <1>4 DEF BeginAdmission, FoundEmpty, DequeueSleeps, DequeueTimeout, LeaveLoop, ServingEnds,
                Servings
  <2>2. serving' \in [Models -> Servings]
    BY <2>1, ToServeType
  <2>3. stopping_' \in [Models -> BOOLEAN] /\ main' \in Mains
    BY <2>1 DEF RoutingInv, RoutingTypeOK, Mains
  <2> QED BY <2>1, <2>2, <2>3, ThreadsInv
<1> QED BY <1>1, <1>2, <1>3, <1>4 DEF ServeStep

LEMMA ClientStepInv ==
  ASSUME RoutingInv, NEW c \in Clients, ClientStep(c)
  PROVE  RoutingInv'
BY ReadRequestInv, CheckPeerInv, ScanInv, NoModelInv, WaitForCapacityInv, RetryTimeoutInv,
   ParseForInv, JobDoneInv, ReleaseInv DEF ClientStep

LEMMA DisconnectInv ==
  ASSUME RoutingInv, NEW c \in Clients, Disconnect(c)
  PROVE  RoutingInv'
<1>1. /\ disconnected' = disconnected \cup {c}
      /\ UNCHANGED <<stopping_, queue, serving, running, deferred, in_flight, routing_waiters_,
                     client, main>>
  BY DEF Disconnect
<1>2. /\ stopping_' \in [Models -> BOOLEAN] /\ queue' \in [Models -> Seq(Clients)]
      /\ serving' \in [Models -> Servings]
      /\ running' \in [Models -> SUBSET Clients] /\ deferred' \in [Models -> SUBSET Clients]
      /\ main' \in Mains
      /\ disconnected' \in SUBSET Clients /\ disconnected \subseteq disconnected'
      /\ client' = [d \in Clients |-> client'[d]]
  BY <1>1 DEF RoutingInv, RoutingTypeOK, Servings, Mains
<1>3. \A m \in Models : LineOK(m)' /\ Held(m)' = Held(m)
  BY <1>1 DEF RoutingInv, LineOK, Held
<1> QED BY <1>1, <1>2, <1>3, QuietInv

LEMMA EndAcceptInv ==
  ASSUME RoutingInv, EndAccept
  PROVE  RoutingInv'
<1>1. /\ client' = notify_routing(client) /\ main' = [pc |-> "stop", at |-> 1]
      /\ UNCHANGED <<stopping_, queue, serving, running, deferred, in_flight, routing_waiters_,
                     disconnected>>
  BY DEF EndAccept
<1>2. /\ stopping_' \in [Models -> BOOLEAN] /\ queue' \in [Models -> Seq(Clients)]
      /\ serving' \in [Models -> Servings]
      /\ running' \in [Models -> SUBSET Clients] /\ deferred' \in [Models -> SUBSET Clients]
      /\ main' \in Mains /\ disconnected' \in SUBSET Clients
  BY <1>1, Constants DEF RoutingInv, RoutingTypeOK, Servings, Mains
<1>3. client' = [d \in Clients |-> client'[d]] /\ \A d \in Clients : client'[d] = Woken(client[d])
  BY <1>1 DEF notify_routing, Woken
<1>4. \A m \in Models : LineOK(m)' /\ Held(m)' = Held(m)
  BY <1>1 DEF RoutingInv, LineOK, Held
<1> QED BY <1>1, <1>2, <1>3, <1>4, QuietInv

LEMMA MainStepInv ==
  ASSUME RoutingInv, MainStep \/ request_stop
  PROVE  RoutingInv'
<1>1. /\ main \in Mains /\ main.at \in Models /\ stopping_ \in [Models -> BOOLEAN]
      /\ serving \in [Models -> Servings] /\ 1 \in Models
  BY Constants DEF RoutingInv, RoutingTypeOK, Servings, Mains
<1>2. CASE EndAccept
  BY <1>2, EndAcceptInv
<1>3. CASE StopWorker
  <2> DEFINE m == main.at
  <2>1. /\ stopping_' = [stopping_ EXCEPT ![m] = TRUE] /\ serving' = notify_queue(serving, m)
        /\ UNCHANGED <<queue, running, deferred, in_flight, routing_waiters_, client, disconnected>>
    BY <1>3 DEF StopWorker
  <2>2. m < Len(capacity) => m + 1 \in Models
    BY <1>1, Constants
  <2>3. main' \in Mains
    <3>1. \/ main' = [main EXCEPT !.pc = "join"]
          \/ m + 1 \in Models /\ main' = [main EXCEPT !.at = m + 1]
          \/ main' = [pc |-> "stop_serving", at |-> 1]
      BY <1>3, <2>2 DEF StopWorker
    <3> QED BY <1>1, <3>1 DEF Mains
  <2>4. serving' \in [Models -> Servings]
    BY <1>1, <2>1, NotifyType DEF Servings
  <2>5. stopping_' \in [Models -> BOOLEAN]
    BY <1>1, <2>1
  <2> QED BY <2>1, <2>3, <2>4, <2>5, ThreadsInv
<1>4. CASE Join
  <2>1. main.at < Len(capacity) => main.at + 1 \in Models
    BY <1>1, Constants
  <2>2. main' \in Mains
    BY <1>1, <1>4, <2>1 DEF Join, Mains
  <2> QED BY <1>1, <1>4, <2>2, ThreadsInv DEF Join
<1>5. CASE RunReturns
  <2>1. main' \in Mains
    BY <1>1, <1>5 DEF RunReturns, Mains
  <2> QED BY <1>1, <1>5, <2>1, ThreadsInv DEF RunReturns
<1>6. CASE request_stop
  <2>1. stopping_' \in [Models -> BOOLEAN]
    BY <1>1, <1>6 DEF request_stop
  <2> QED BY <1>1, <1>6, <2>1, ThreadsInv DEF request_stop
<1> QED BY <1>2, <1>3, <1>4, <1>5, <1>6 DEF MainStep

LEMMA RoutingInit == Init => RoutingInv
<1> SUFFICES ASSUME Init PROVE RoutingInv
  OBVIOUS
<1>1. /\ client = [c \in Clients |-> Frame] /\ Frame \in Frames
      /\ Frame.pc = "away" /\ Frame.waiting = FALSE /\ Frame.answers = 0
  BY BlankFrame DEF Init, Frame
<1> HIDE DEF Frame
<1>2. RoutingTypeOK
  <2>1. main \in [pc : {"accept", "stop", "stop_serving", "join", "clients", "returned"},
                  at : Models]
    BY Constants DEF Init
  <2> QED BY <1>1, <2>1 DEF Init, RoutingTypeOK
<1>3. \A c \in Clients : FrameOK(c, client[c])
  BY <1>1 DEF FrameOK
<1>4. \A m \in Models : Holders(m) = {} /\ Pending(m) = {}
  BY <1>1 DEF Holders, Pending
<1>5. Waiting = {}
  BY <1>1 DEF Waiting
<1>6. \A m \in Models : LineOK(m) /\ Held(m) = Pending(m)
  BY <1>4 DEF Init, LineOK, Held
<1>7. ReservationsCounted
  <2>1. \A m \in Models : in_flight[m] = 0 /\ capacity[m] \in Nat
    BY Constants DEF Init
  <2>2. routing_waiters_ = 0 /\ routing_queue_limit \in Nat
    BY Constants DEF Init
  <2> QED BY <1>4, <1>5, <2>1, <2>2, FS_EmptySet DEF ReservationsCounted
<1> QED BY <1>2, <1>3, <1>6, <1>7 DEF RoutingInv

LEMMA RoutingNext == RoutingInv /\ [Next]_vars => RoutingInv'
<1> SUFFICES ASSUME RoutingInv, [Next]_vars PROVE RoutingInv'
  OBVIOUS
<1>1. CASE UNCHANGED vars
  <2>1. stopping_' \in [Models -> BOOLEAN] /\ serving' \in [Models -> Servings] /\ main' \in Mains
    BY <1>1 DEF RoutingInv, RoutingTypeOK, vars, Servings, Mains
  <2> QED BY <1>1, <2>1, ThreadsInv DEF vars
<1>2. ASSUME NEW c \in Clients, NEW r \in Requests[c], Accept(c, r) PROVE RoutingInv'
  BY <1>2, AcceptInv
<1>3. ASSUME NEW c \in Clients, Disconnect(c) \/ ClientStep(c) PROVE RoutingInv'
  BY <1>3, DisconnectInv, ClientStepInv
<1>4. ASSUME NEW m \in Models, ServeStep(m) PROVE RoutingInv'
  BY <1>4, ServeStepInv
<1>5. CASE request_stop \/ MainStep
  BY <1>5, MainStepInv
<1>6. CASE Done
  BY <1>1, <1>6 DEF Done
<1> QED BY <1>1, <1>2, <1>3, <1>4, <1>5, <1>6 DEF Next

-----------------------------------------------------------------------------
(* What run() promises its clients.                                        *)

(* A client thread holds at most one answer and gives its reservation and  *)
(* its place in the waiting line back on every path out of                 *)
(* route_model_request, and a model holds exactly the jobs whose threads   *)
(* wait, whatever the connections, the models and their slots.             *)
THEOREM RoutingInvariant == Spec => []RoutingInv
BY RoutingInit, RoutingNext, PTL DEF Spec

(* Every job that a model queues, runs or defers is covered by the one     *)
(* reservation of the thread that waits for it, in_flight counts those     *)
(* reservations and stays within capacity, and routing_waiters_ counts the *)
(* threads in the waiting line: a Reservation spans parsing through job    *)
(* retirement, a disconnect included.                                      *)
THEOREM ReservationsCoverTheWork == Spec => []ReservationsCoverWork
<1>1. RoutingInv => ReservationsCoverWork
  <2> SUFFICES ASSUME RoutingInv PROVE ReservationsCoverWork
    OBVIOUS
  <2>1. ReservationsCounted /\ \A m \in Models : Held(m) = Pending(m)
    BY DEF RoutingInv
  <2>2. ASSUME NEW m \in Models
        PROVE  Cardinality(Held(m)) =
                 Len(queue[m]) + Cardinality(running[m]) + Cardinality(deferred[m])
    <3> DEFINE q == queue[m]
               run == running[m]
               def == deferred[m]
    <3>1. q \in Seq(Clients) /\ run \in SUBSET Clients /\ def \in SUBSET Clients
      BY DEF RoutingInv, RoutingTypeOK
    <3>2. Line(q, run, def) /\ Held(m) = ToSet(q) \cup run \cup def
      BY LineForm DEF RoutingInv
    <3> HIDE DEF q, run, def
    <3>3. IsInjective(q) /\ ToSet(q) \cap (run \cup def) = {} /\ run \cap def = {}
      BY <3>2 DEF Line
    <3>4. IsFiniteSet(ToSet(q)) /\ Cardinality(ToSet(q)) = Len(q)
      BY <3>1, <3>3, LengthIsCardinality
    <3>5. IsFiniteSet(run) /\ IsFiniteSet(def)
      BY <3>1, Constants, FS_Subset
    <3>6. /\ IsFiniteSet(run \cup def)
          /\ Cardinality(run \cup def) = Cardinality(run) + Cardinality(def)
      BY <3>3, <3>5, DisjointCardinality
    <3>7. Cardinality(ToSet(q) \cup (run \cup def)) =
            Cardinality(ToSet(q)) + Cardinality(run \cup def)
      BY <3>3, <3>4, <3>6, DisjointCardinality
    <3>8. Len(q) \in Nat /\ Cardinality(run) \in Nat /\ Cardinality(def) \in Nat
      BY <3>1, <3>5, FS_CardinalityType
    <3>9. Held(m) = ToSet(q) \cup (run \cup def)
      BY <3>2
    <3>10. Cardinality(Held(m)) = Len(q) + Cardinality(run) + Cardinality(def)
      BY <3>4, <3>6, <3>7, <3>8, <3>9
    <3> QED BY <3>10 DEF q, run, def
  <2> QED BY <2>1, <2>2 DEF ReservationsCounted, ReservationsCoverWork
<1> QED BY <1>1, RoutingInvariant, PTL

(* A request that was read gets exactly one answer, from the parser, from  *)
(* the listener or from one model, however many models hand it back and    *)
(* whenever the server stops; only a peer that left may get none.          *)
THEOREM EveryoneAnsweredOnce == Spec => []AnsweredOnce
<1>1. RoutingInv => AnsweredOnce
  <2> SUFFICES ASSUME RoutingInv, NEW c \in Clients
               PROVE  /\ client[c].answers <= 1
                      /\ (client[c].pc = "closed" /\ client[c].req.kind /= "unread"
                          /\ c \notin disconnected) => client[c].answers = 1
    BY DEF AnsweredOnce
  <2> DEFINE f == client[c]
  <2>1. f \in Frames /\ FrameOK(c, f)
    BY FrameOf
  <2>2. f.answers \in Nat /\ f.admission \in {"handled", "unfit", "busy"} /\ f.done \in BOOLEAN
    BY <2>1 DEF Frames
  <2> HIDE DEF f
  <2>3. f.answers <= 1
    BY <2>1, <2>2 DEF FrameOK, Settled
  <2>4. (f.pc = "closed" /\ f.req.kind /= "unread" /\ c \notin disconnected) => f.answers = 1
    BY <2>1 DEF FrameOK, Settled
  <2> QED BY <2>3, <2>4 DEF f
<1> QED BY <1>1, RoutingInvariant, PTL

=============================================================================
