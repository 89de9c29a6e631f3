------------------------------- MODULE Cluster -------------------------------
(***************************************************************************)
(* Requests on a cluster: rank 0 decides, every rank follows               *)
(* (server/src/cluster/cluster_head_backend.cpp, cluster_worker_main.cpp,  *)
(* cluster_decision_hooks.cpp, the channel of cluster_control.cpp, and the *)
(* places of deepseek4_backend.cpp and deepseek4_dspark_spec.cpp that call *)
(* the hooks).  All ranks run the same generate call; each forward is a    *)
(* collective that returns only when every rank has entered it; the head   *)
(* ships tokens, drafts and accepts as frames.  A rank may die, freeze,    *)
(* fail, or merely be late.                                                *)
(*                                                                         *)
(* A prompt is one item of the history in the KV cache (minus the request, *)
(* so that it is no token), fed by the last of its Chunks.  A frame that a *)
(* worker's hook does not want stays at the front of its queue: there the  *)
(* end of the request finds it, as it finds the frame that recv_expected   *)
(* parked.                                                                 *)
(***************************************************************************)
EXTENDS Integers, FiniteSets, SequencesExt

CONSTANTS
  Workers,         \* ranks 1..N-1
  Slots,           \* snapshot slots
  Tokens, Eos,     \* the vocabulary and its end-of-sequence token
  Chunks,          \* forwards of a prefill
  Block,           \* most tokens a speculative step keeps
  NGen,            \* n_gen
  NumRequests,     \* bound on requests
  NumOps,          \* bound on snapshot operations between requests
  Modes,           \* of TRUE (speculative) and FALSE: the decode modes used
  SaveTurns,       \* whether generated turns are snapshotted
  Leaves,          \* of "prefill", "decode": when a client may leave
  MaxFaults,       \* bound on faults
  Faults           \* of "dies", "freezes", "fails", "late", "slow"

Ranks == {0} \cup Workers
None == <<>>
ASSUME ClusterAssumption ==
  /\ Workers \subseteq Nat \ {0} /\ IsFiniteSet(Workers)
  /\ Tokens \subseteq Nat /\ Eos \in Tokens
  /\ {Chunks, NGen, Block} \subseteq Nat \ {0} /\ MaxFaults \in Nat
  /\ Modes \subseteq BOOLEAN /\ SaveTurns \in BOOLEAN /\ Leaves \subseteq {"prefill", "decode"}
  /\ Faults \subseteq {"dies", "freezes", "fails", "late", "slow"}

VARIABLES
  rank,            \* [Ranks -> where it is in its request, and its answer so far]
  kv,              \* [Ranks -> history the live cache holds]
  saveable,        \* [Ranks -> last_logits_pos_ = cur_pos]
  snaps,           \* [Ranks -> [Slots -> saved history, None when unused]]
  proc,            \* [Ranks -> "up", "frozen" or "exited"]
  entered,         \* [Ranks -> collectives entered beyond the last rank's]
  aborted,         \* [Ranks -> its communicator is aborted]
  chan, back,      \* [Workers -> frames from, to the head]
  fresh,           \* [Workers -> heartbeats between it and the head are in time]
  exiting,         \* exit_scheduled_ and fatal_
  cancelled,       \* the client of the head's request has gone
  requests, ops,   \* counts for the bounds; a request's number is its id
  faults           \* how many faults have happened (not a variable of the code)

data == <<kv, saveable, snaps>>
links == <<chan, back, fresh>>
counts == <<requests, ops>>
vars == <<rank, data, proc, entered, aborted, links, exiting, cancelled, counts, faults>>

------------------------------------------------------------------------------
(* A rank's request; `inside': in a collective; `gathered': reports read. *)
Idle == [pc |-> "idle", req |-> 0, chunk |-> 0, inside |-> FALSE, ok |-> TRUE,
         snap |-> None, spec |-> FALSE, tokens |-> <<>>, gathered |-> {}]

Init ==
  /\ rank = [i \in Ranks |-> Idle]
  /\ kv = [i \in Ranks |-> <<>>] /\ saveable = [i \in Ranks |-> FALSE]
  /\ snaps = [i \in Ranks |-> [s \in Slots |-> None]]
  /\ proc = [i \in Ranks |-> "up"] /\ entered = [i \in Ranks |-> 0]
  /\ aborted = [i \in Ranks |-> FALSE]
  /\ chan = [w \in Workers |-> <<>>] /\ back = [w \in Workers |-> <<>>]
  /\ fresh = [w \in Workers |-> TRUE]
  /\ exiting = FALSE /\ cancelled = FALSE
  /\ requests = 0 /\ ops = 0 /\ faults = 0

Up(i) == proc[i] = "up"
MayFail(kind) == kind \in Faults /\ faults < MaxFaults
Fault(happens) == faults' = faults + (IF happens THEN 1 ELSE 0)
SaveResults == IF MayFail("fails") THEN BOOLEAN ELSE {TRUE}
Forwards == {"prefill", "forward", "verify"}

(* A socket is closed once the process at either end is gone; alive() also *)
(* fails while heartbeats are overdue. *)
closed(w) == proc[0] = "exited" \/ proc[w] = "exited"
alive(w) == ~ closed(w) /\ fresh[w]
all_alive == \A w \in Workers : alive(w)

(* broadcast: a frame for every open socket.  It fails when one is closed, *)
(* unless the kernel took the bytes before it knew. *)
Sent(frames) == [w \in Workers |-> IF closed(w) THEN chan[w] ELSE chan[w] \o frames]
SendResults == {TRUE} \cup {~ closed(w) : w \in Workers}

(* async_error: a communicator may, but need not, notice that a peer is    *)
(* gone or has aborted. *)
async_error(i) == \E j \in Ranks \ {i} : aborted[j] \/ proc[j] = "exited"

(* A receive deadline is long: it passes on a peer that has nothing more   *)
(* to send or is stuck, and on a working one only if that is "slow". *)
Silent(i) ==
  \/ ~ Up(i)
  \/ rank[i].pc \in {"idle", "gather"} /\ (i # 0 => chan[i] = <<>>)
  \/ rank[i].inside /\ \E j \in Ranks : entered[j] < entered[i]
DeadlinePasses(i) == MayFail("slow") \/ Silent(i)

(* A process goes; what it had sent may be cut off on the way. *)
CutTo(s, n) == SubSeq(s, 1, IF n < Len(s) THEN n ELSE Len(s))
WorkerGone(w, sent) ==
  /\ proc' = [proc EXCEPT ![w] = "exited"]
  /\ chan' = [chan EXCEPT ![w] = <<>>]
  /\ \E n \in {0, 1} : back' = [back EXCEPT ![w] = CutTo(@ \o sent, n)]
HeadGone(lossy) ==
  /\ proc' = [proc EXCEPT ![0] = "exited"]
  /\ back' = [w \in Workers |-> <<>>]
  /\ IF lossy THEN \E n \in [Workers -> 0..3] : chan' = [w \in Workers |-> CutTo(chan[w], n[w])]
     ELSE UNCHANGED chan

------------------------------------------------------------------------------
(* generate, as every rank runs it. *)

(* Where a rank goes after its decision, draft or accept. *)
After(r, last) ==
  [r EXCEPT !.pc =
     IF last THEN "end"
     ELSE CASE r.pc = "decide" -> IF r.spec THEN "draft" ELSE "forward"
            [] r.pc = "draft"  -> "verify"
            [] r.pc = "accept" -> "draft"]

Failed(i) == rank' = [rank EXCEPT ![i].pc = "end", ![i].ok = FALSE, ![i].inside = FALSE]

(* generate or restore_and_generate begins. *)
Begin(i, m) ==
  LET restored == m.restore # None
      old == IF restored THEN snaps[i][m.restore[1]] ELSE <<>>
      r == [Idle EXCEPT !.pc = "prefill", !.req = m.req, !.snap = m.snap, !.spec = m.spec]
  IN
  IF restored /\ old = None
  THEN /\ rank' = [rank EXCEPT ![i] = [r EXCEPT !.pc = "end", !.ok = FALSE]]
       /\ UNCHANGED <<kv, saveable>>
  ELSE /\ rank' = [rank EXCEPT ![i] = r]
       /\ kv' = [kv EXCEPT ![i] = old]
       /\ saveable' = [saveable EXCEPT ![i] = restored]

(* Collectives are matched by their order: only who is ahead matters. *)
Relative(n) == LET behind == CHOOSE j \in Ranks : \A k \in Ranks : n[j] <= n[k]
               IN  [j \in Ranks |-> n[j] - n[behind]]

EnterForward(i) ==
  /\ Up(i) /\ rank[i].pc \in Forwards /\ ~ rank[i].inside
  /\ rank[i].pc = "prefill" => rank[i].chunk < Chunks /\ ~ (i = 0 /\ cancelled)
  /\ IF aborted[i] THEN Failed(i) /\ UNCHANGED entered
     ELSE /\ rank' = [rank EXCEPT ![i].inside = TRUE]
          /\ entered' = Relative([entered EXCEPT ![i] = @ + 1])
  /\ UNCHANGED <<data, proc, aborted, links, exiting, cancelled, counts, faults>>

(* The collective returns.  A prefill's last chunk saves the inline        *)
(* snapshot; a save that fails has freed the slot.  A verified block       *)
(* enters the history when its accept is known. *)
LeaveForward(i) ==
  LET r == rank[i]
      last == r.pc = "prefill" /\ r.chunk + 1 = Chunks
      fed == IF last THEN Append(kv[i], - r.req)
             ELSE IF r.pc = "forward" THEN Append(kv[i], Last(r.tokens)) ELSE kv[i]
      next == CASE r.pc = "prefill" -> "prefill" [] r.pc = "forward" -> "decide" [] r.pc = "verify" -> "accept"
  IN
  /\ Up(i) /\ r.inside /\ \A j \in Ranks : entered[j] >= entered[i]
  /\ kv' = [kv EXCEPT ![i] = fed]
  /\ saveable' = [saveable EXCEPT ![i] = IF r.pc = "prefill" THEN TRUE
                                         ELSE IF r.pc = "forward" THEN FALSE ELSE @]
  /\ rank' = [rank EXCEPT ![i] = [r EXCEPT !.inside = FALSE, !.pc = next,
                                           !.chunk = IF r.pc = "prefill" THEN @ + 1 ELSE @]]
  /\ IF last /\ r.snap # None
     THEN \E saved \in SaveResults :
            /\ snaps' = [snaps EXCEPT ![i][r.snap[1]] = IF saved THEN fed ELSE None]
            /\ Fault(~ saved)
     ELSE UNCHANGED <<snaps, faults>>
  /\ UNCHANGED <<proc, entered, aborted, links, exiting, cancelled, counts>>

(* A pending collective of an aborted communicator returns an error. *)
BreakForward(i) ==
  /\ Up(i) /\ rank[i].inside /\ aborted[i]
  /\ Failed(i)
  /\ UNCHANGED <<data, proc, entered, aborted, links, exiting, cancelled, counts, faults>>

(* The rank's own part of a forward, or the way to it, fails. *)
LocalFailure(i) ==
  /\ MayFail("fails") /\ Up(i) /\ ~ rank[i].inside /\ rank[i].pc \in Forwards \cup {"draft"}
  /\ Failed(i) /\ Fault(TRUE)
  /\ UNCHANGED <<data, proc, entered, aborted, links, exiting, cancelled, counts>>

(* The prompt is in.  A worker's io never cancels. *)
StartDecode(i) ==
  /\ Up(i) /\ rank[i].pc = "prefill" /\ ~ rank[i].inside /\ rank[i].chunk = Chunks
  /\ ~ (i = 0 /\ cancelled)
  /\ rank' = [rank EXCEPT ![i].pc = "decide"]
  /\ UNCHANGED <<data, proc, entered, aborted, links, exiting, cancelled, counts, faults>>

(* A rank ends at the head's stop, or when its own count reaches n_gen. *)
EndsAt(i, m, tokens) == m.stop \/ Len(tokens) >= NGen

(* The tokens of a decision or an accept join the answer.  An accept leaves  *)
(* in the cache the token before the block and all but its last; the first *)
(* draft gives up last_logits_pos_. *)
Adopt(i, m, kept) ==
  LET r == rank[i]
      keep == [r EXCEPT !.tokens = @ \o kept]
      last == EndsAt(i, m, keep.tokens) IN
  /\ rank' = [rank EXCEPT ![i] = After(keep, last)]
  /\ kv' = IF m.type = "Accept"
           THEN [kv EXCEPT ![i] = (@ \o <<Last(r.tokens)>>) \o Front(m.tokens)] ELSE kv
  /\ saveable' = [saveable EXCEPT ![i] = IF m.type = "Decision" THEN last \/ ~ r.spec ELSE @]

------------------------------------------------------------------------------
(* The head. *)

(* request_fatal_exit: it happens once; the process goes when its grace    *)
(* period is over. *)
FatalExit ==
  IF exiting THEN UNCHANGED <<exiting, aborted, chan>>
  ELSE /\ exiting' = TRUE
       /\ aborted' = [aborted EXCEPT ![0] = TRUE]
       /\ chan' = Sent(<<[type |-> "Abort"]>>)
Return(ok) == rank' = [rank EXCEPT ![0].pc = "idle", ![0].ok = ok]

(* run_request, up to generate.  A prompt's snapshot goes into a slot that *)
(* was cleared for it; a slot to restore from is one the head holds. *)
HeadStart(restore, snap, spec) ==
  LET m == [type |-> "Request", req |-> requests + 1, restore |-> restore, snap |-> snap, spec |-> spec] IN
  /\ Up(0) /\ rank[0].pc = "idle" /\ ~ exiting /\ requests < NumRequests
  /\ restore # None => snaps[0][restore[1]] # None
  /\ snap # None => snaps[0][snap[1]] = None
  /\ requests' = requests + 1 /\ cancelled' = FALSE
  /\ \E sent \in SendResults :
       IF sent
       THEN /\ Begin(0, m) /\ chan' = Sent(<<m>>) /\ UNCHANGED <<exiting, aborted>>
       ELSE /\ rank' = [rank EXCEPT ![0] = [Idle EXCEPT !.req = m.req, !.ok = FALSE]]
            /\ exiting' = TRUE /\ aborted' = [aborted EXCEPT ![0] = TRUE]
            /\ chan' = Sent(<<m, [type |-> "Abort"]>>)
            /\ UNCHANGED <<kv, saveable>>
  /\ UNCHANGED <<snaps, proc, entered, back, fresh, ops, faults>>

(* The client leaves: is_cancelled from now on. *)
ClientLeaves ==
  /\ ~ cancelled
  /\ \/ "prefill" \in Leaves /\ rank[0].pc = "prefill"
     \/ "decode" \in Leaves /\ rank[0].pc \in {"decide", "forward", "draft", "verify", "accept"}
  /\ cancelled' = TRUE
  /\ UNCHANGED <<rank, data, proc, entered, aborted, links, exiting, counts, faults>>

(* do_prefill returns between two chunks, and generate_from_state succeeds *)
(* without a token. *)
CancelPrefill ==
  /\ Up(0) /\ cancelled /\ rank[0].pc = "prefill" /\ ~ rank[0].inside
  /\ rank' = [rank EXCEPT ![0].pc = "end"]
  /\ UNCHANGED <<data, proc, entered, aborted, links, exiting, cancelled, counts, faults>>

HeadFrame(type, tokens, stop) ==
  [type |-> type, req |-> rank[0].req, step |-> Len(rank[0].tokens), tokens |-> tokens, stop |-> stop]

(* The head samples a token and ships it with its stop flags. *)
HeadDecideLocally(t) ==
  LET m == HeadFrame("Decision", <<t>>, t = Eos) IN
  /\ Up(0) /\ rank[0].pc = "decide"
  /\ IF cancelled THEN rank' = [rank EXCEPT ![0].pc = "end"] /\ UNCHANGED <<kv, saveable, chan>>
     ELSE chan' = Sent(<<m>>) /\ Adopt(0, m, <<t>>)
  /\ UNCHANGED <<snaps, proc, entered, aborted, back, fresh, exiting, cancelled, counts, faults>>
HeadDecide(t) ==
  LET m == HeadFrame("Decision", <<t>>, t = Eos \/ cancelled) IN
  /\ Up(0) /\ rank[0].pc = "decide"
  /\ chan' = Sent(<<m>>)
  /\ \E sent \in SendResults : IF sent THEN Adopt(0, m, <<t>>) ELSE Failed(0) /\ UNCHANGED <<kv, saveable>>
  /\ UNCHANGED <<snaps, proc, entered, aborted, back, fresh, exiting, cancelled, counts, faults>>

HeadDraft ==
  LET m == HeadFrame("Draft", <<>>, FALSE) IN
  /\ Up(0) /\ rank[0].pc = "draft"
  /\ chan' = Sent(<<m>>)
  /\ \E sent \in SendResults :
       IF sent THEN rank' = [rank EXCEPT ![0] = After(@, FALSE)] ELSE Failed(0)
  /\ UNCHANGED <<data, proc, entered, aborted, back, fresh, exiting, cancelled, counts, faults>>

(* The head keeps a block, up to an end of sequence.  When its client has  *)
(* gone it stops after some token of the block, and sends an empty draft   *)
(* for the next step unless it thinks that every rank is done. *)
EndMarker(kept) == [HeadFrame("Draft", <<>>, TRUE) EXCEPT !.step = @ + Len(kept)]
HeadAccept(block) ==
  LET m == HeadFrame("Accept", block, Last(block) = Eos)
      n == Len(rank[0].tokens) IN
  /\ Up(0) /\ rank[0].pc = "accept" /\ n + Len(block) <= NGen
  /\ \E sent \in SendResults, cut \in (IF cancelled THEN 1..Len(block) ELSE {Len(block)}) :
       LET stopped == cancelled /\ ~ (cut = Len(block) /\ m.stop) IN
       IF ~ sent THEN Failed(0) /\ chan' = Sent(<<m>>) /\ UNCHANGED <<kv, saveable>>
       ELSE /\ Adopt(0, [m EXCEPT !.stop = @ \/ stopped], CutTo(block, cut))
            /\ chan' = Sent(IF stopped /\ n + cut < NGen THEN <<m, EndMarker(block)>> ELSE <<m>>)
  /\ UNCHANGED <<snaps, proc, entered, aborted, back, fresh, exiting, cancelled, counts, faults>>

(* run_request, after generate. *)
HeadEnd ==
  LET r == rank[0]
      end == [type |-> "RequestEnd", req |-> r.req, ok |-> r.ok, steps |-> Len(r.tokens)]
      failing == IF aborted[0] \/ ~ all_alive THEN {TRUE} ELSE {FALSE, async_error(0)} IN
  /\ Up(0) /\ r.pc = "end"
  /\ \E sent \in SendResults, broken \in (IF r.ok THEN {FALSE} ELSE failing) :
       IF broken THEN Return(FALSE) /\ FatalExit
       ELSE IF sent
       THEN /\ rank' = [rank EXCEPT ![0].pc = "gather", ![0].gathered = {}]
            /\ chan' = Sent(<<end>>) /\ UNCHANGED <<exiting, aborted>>
       ELSE /\ Return(FALSE)
            /\ exiting' = TRUE /\ aborted' = [aborted EXCEPT ![0] = TRUE]
            /\ chan' = Sent(IF exiting THEN <<end>> ELSE <<end, [type |-> "Abort"]>>)
  /\ UNCHANGED <<data, proc, entered, back, fresh, cancelled, counts, faults>>

(* gather reads the workers' frames in rank order; anything but the        *)
(* report of this request ends the cluster. *)
HeadGather(w) ==
  LET r == rank[0]
      good == Head(back[w]).type = "Report" /\ Head(back[w]).req = r.req
      all == r.gathered \cup {w} IN
  /\ Up(0) /\ r.pc = "gather" /\ w \notin r.gathered
  /\ \A v \in Workers : v < w => v \in r.gathered
  /\ back[w] # <<>>
  /\ back' = [back EXCEPT ![w] = Tail(@)]
  /\ IF good
     THEN /\ rank' = [rank EXCEPT ![0].gathered = IF all = Workers THEN {} ELSE all,
                                  ![0].pc = IF all = Workers THEN "idle" ELSE @]
          /\ UNCHANGED <<exiting, aborted, chan>>
     ELSE Return(FALSE) /\ FatalExit
  /\ UNCHANGED <<data, proc, entered, fresh, cancelled, counts, faults>>
HeadGatherFails(w) ==
  /\ Up(0) /\ rank[0].pc = "gather" /\ w \notin rank[0].gathered
  /\ \A v \in Workers : v < w => v \in rank[0].gathered
  /\ back[w] = <<>> /\ (closed(w) \/ DeadlinePasses(w))
  /\ Return(FALSE) /\ FatalExit
  /\ Fault(~ (closed(w) \/ Silent(w)))
  /\ UNCHANGED <<data, proc, entered, back, fresh, cancelled, counts>>

(* watchdog_loop, while generate runs. *)
HeadWatchdogOfComm ==
  /\ Up(0) /\ rank[0].pc \notin {"idle", "gather"} /\ ~ exiting
  /\ async_error(0)
  /\ FatalExit
  /\ UNCHANGED <<rank, data, proc, entered, back, fresh, cancelled, counts, faults>>
HeadWatchdog ==
  /\ Up(0) /\ rank[0].pc \notin {"idle", "gather"} /\ ~ exiting
  /\ ~ all_alive \/ async_error(0)
  /\ FatalExit
  /\ UNCHANGED <<rank, data, proc, entered, back, fresh, cancelled, counts, faults>>

HeadExit ==
  /\ Up(0) /\ exiting /\ HeadGone(TRUE)
  /\ UNCHANGED <<rank, data, entered, aborted, fresh, exiting, cancelled, counts, faults>>

(* A generated turn is saved, in a slot cleared for it.  A save that fails *)
(* here is freed everywhere, and then once more by the caller. *)
Op(save, s) == [type |-> "Op", save |-> save, slot |-> s]
SaveTurn(s) ==
  /\ SaveTurns /\ Up(0) /\ rank[0].pc = "idle" /\ ~ exiting /\ ~ cancelled
  /\ ops < NumOps /\ rank[0].ok /\ rank[0].tokens # <<>> /\ snaps[0][s] = None
  /\ ops' = ops + 1
  /\ \E sent \in SendResults, saved \in SaveResults :
       IF ~ sent
       THEN /\ exiting' = TRUE /\ aborted' = [aborted EXCEPT ![0] = TRUE]
            /\ chan' = Sent(<<Op(TRUE, s), [type |-> "Abort"]>>) /\ UNCHANGED <<snaps, faults>>
       ELSE /\ IF saved /\ saveable[0]
               THEN chan' = Sent(<<Op(TRUE, s)>>) /\ snaps' = [snaps EXCEPT ![0][s] = kv[0]]
               ELSE chan' = Sent(<<Op(TRUE, s), Op(FALSE, s), Op(FALSE, s)>>) /\ UNCHANGED snaps
            /\ Fault(~ saved) /\ UNCHANGED <<exiting, aborted>>
  /\ UNCHANGED <<rank, kv, saveable, proc, entered, back, fresh, cancelled, requests>>
FreeSlot(s) ==
  /\ Up(0) /\ rank[0].pc = "idle" /\ ~ exiting /\ ops < NumOps /\ snaps[0][s] # None
  /\ ops' = ops + 1
  /\ snaps' = [snaps EXCEPT ![0][s] = None]
  /\ \E sent \in SendResults :
       IF sent THEN chan' = Sent(<<Op(FALSE, s)>>) /\ UNCHANGED <<exiting, aborted>>
       ELSE /\ exiting' = TRUE /\ aborted' = [aborted EXCEPT ![0] = TRUE]
            /\ chan' = Sent(<<Op(FALSE, s), [type |-> "Abort"]>>)
  /\ UNCHANGED <<rank, kv, saveable, proc, entered, back, fresh, cancelled, requests, faults>>

(* shutdown. *)
HeadShutdown ==
  /\ Up(0) /\ rank[0].pc = "idle" /\ ~ exiting /\ requests = NumRequests
  /\ proc' = [proc EXCEPT ![0] = "exited"]
  /\ chan' = Sent(<<[type |-> "Shutdown"]>>) /\ back' = [w \in Workers |-> <<>>]
  /\ UNCHANGED <<rank, data, entered, aborted, fresh, exiting, cancelled, counts, faults>>

------------------------------------------------------------------------------
(* A worker. *)

(* send_abort, or only an exit; either way its process goes. *)
WorkerAborts(w) ==
  /\ aborted' = [aborted EXCEPT ![w] = TRUE]
  /\ WorkerGone(w, <<[type |-> "Abort"]>>)
WorkerQuits(w) == UNCHANGED aborted /\ WorkerGone(w, <<>>)

Reads(w) == Up(w) /\ ~ rank[w].inside /\ chan[w] # <<>>
Consumes(w) == chan' = [chan EXCEPT ![w] = Tail(@)]

(* The main loop's request. *)
WorkerStart(w) ==
  /\ Reads(w) /\ rank[w].pc = "idle" /\ Head(chan[w]).type = "Request"
  /\ Begin(w, Head(chan[w])) /\ Consumes(w)
  /\ UNCHANGED <<snaps, proc, entered, aborted, back, fresh, exiting, cancelled, counts, faults>>

(* apply_backend_op: a snapshot that cannot be saved fails the run. *)
WorkerOp(w) ==
  LET m == Head(chan[w]) IN
  /\ Reads(w) /\ rank[w].pc = "idle" /\ m.type = "Op"
  /\ \E saved \in (IF m.save THEN SaveResults ELSE {TRUE}) :
       /\ IF m.save /\ ~ (saved /\ saveable[w])
          THEN WorkerAborts(w) /\ snaps' = [snaps EXCEPT ![w][m.slot] = IF saved THEN @ ELSE None]
          ELSE /\ snaps' = [snaps EXCEPT ![w][m.slot] = IF m.save THEN kv[w] ELSE None]
               /\ Consumes(w) /\ UNCHANGED <<proc, aborted, back>>
       /\ Fault(~ saved)
  /\ UNCHANGED <<rank, kv, saveable, entered, fresh, exiting, cancelled, counts>>

(* The main loop's other frames: a late RequestEnd is skipped, Shutdown    *)
(* and Abort end the process, and so does anything unexpected. *)
WorkerOther(w) ==
  LET type == Head(chan[w]).type IN
  /\ Reads(w) /\ rank[w].pc = "idle" /\ type \notin {"Request", "Op"}
  /\ IF type = "RequestEnd" THEN Consumes(w) /\ UNCHANGED <<proc, aborted, back>>
     ELSE IF type = "Shutdown" THEN WorkerQuits(w)
     ELSE IF type = "Abort" THEN aborted' = [aborted EXCEPT ![w] = TRUE] /\ WorkerGone(w, <<>>)
     ELSE WorkerAborts(w)
  /\ UNCHANGED <<rank, data, entered, fresh, exiting, cancelled, counts, faults>>

(* decide_next_token, decide_draft and decide_accept on a worker: it       *)
(* adopts the head's frame for this request and step, and fails on any     *)
(* other, which it leaves for the end of the request. *)
FrameOf == [decide |-> "Decision", draft |-> "Draft", accept |-> "Accept"]
WorkerFollows(w) ==
  LET m == Head(chan[w])
      r == rank[w]
      wanted == m.type = FrameOf[r.pc]
      right == m.req = r.req /\ m.step = Len(r.tokens) IN
  /\ Reads(w) /\ r.pc \in DOMAIN FrameOf
  /\ IF ~ wanted THEN Failed(w) /\ UNCHANGED <<kv, saveable, chan>>
     ELSE /\ Consumes(w)
          /\ IF right THEN Adopt(w, m, m.tokens) ELSE Failed(w) /\ UNCHANGED <<kv, saveable>>
  /\ UNCHANGED <<snaps, proc, entered, aborted, back, fresh, exiting, cancelled, counts, faults>>

(* A hook's wait ends: the head is gone or silent. *)
WorkerMisses(w) ==
  /\ Up(w) /\ rank[w].pc \in DOMAIN FrameOf /\ chan[w] = <<>>
  /\ closed(w) \/ DeadlinePasses(0)
  /\ Failed(w) /\ Fault(~ (closed(w) \/ Silent(0)))
  /\ UNCHANGED <<data, proc, entered, aborted, links, exiting, cancelled, counts>>

(* The head succeeded and this rank did not, or their counts differ. *)
DivergedByCount(r, m) == r.ok /\ Len(r.tokens) # m.steps
Diverged(r, m) == (~ r.ok /\ m.ok) \/ (r.ok /\ Len(r.tokens) # m.steps)

(* handle_request, after generate: RequestEnd must agree with the answer   *)
(* this rank has. *)
WorkerEnd(w) ==
  LET m == Head(chan[w])
      r == rank[w] IN
  /\ Reads(w) /\ r.pc = "end"
  /\ IF m.type \in {"Abort", "Shutdown"} THEN WorkerQuits(w) /\ UNCHANGED rank
     ELSE IF m.type # "RequestEnd" \/ m.req # r.req \/ Diverged(r, m) THEN WorkerAborts(w) /\ UNCHANGED rank
     ELSE /\ rank' = [rank EXCEPT ![w].pc = "idle"]
          /\ Consumes(w)
          /\ back' = [back EXCEPT ![w] = IF closed(w) THEN @ ELSE Append(@, [type |-> "Report", req |-> r.req])]
          /\ UNCHANGED <<proc, aborted>>
  /\ UNCHANGED <<data, entered, fresh, exiting, cancelled, counts, faults>>
WorkerEndMissing(w) ==
  /\ Up(w) /\ rank[w].pc = "end" /\ chan[w] = <<>>
  /\ closed(w) \/ DeadlinePasses(0)
  /\ WorkerAborts(w) /\ Fault(~ (closed(w) \/ Silent(0)))
  /\ UNCHANGED <<rank, data, entered, fresh, exiting, cancelled, counts>>

(* Idle, only the heartbeat tells that the head is gone. *)
WorkerAlone(w) ==
  /\ Up(w) /\ rank[w].pc = "idle" /\ chan[w] = <<>> /\ ~ alive(w)
  /\ aborted' = [aborted EXCEPT ![w] = TRUE] /\ WorkerGone(w, <<>>)
  /\ UNCHANGED <<rank, data, entered, fresh, exiting, cancelled, counts, faults>>

(* worker_watchdog_loop, during a request. *)
WorkerWatchdogOfComm(w) ==
  /\ Up(w) /\ rank[w].pc # "idle" /\ ~ aborted[w]
  /\ async_error(w)
  /\ aborted' = [aborted EXCEPT ![w] = TRUE]
  /\ UNCHANGED <<rank, data, proc, entered, links, exiting, cancelled, counts, faults>>
WorkerWatchdog(w) ==
  /\ Up(w) /\ rank[w].pc # "idle" /\ ~ aborted[w]
  /\ ~ alive(w) \/ async_error(w)
  /\ aborted' = [aborted EXCEPT ![w] = TRUE]
  /\ UNCHANGED <<rank, data, proc, entered, links, exiting, cancelled, counts, faults>>

------------------------------------------------------------------------------
(* What may go wrong. *)
Dies(i) ==
  /\ MayFail("dies") /\ proc[i] # "exited" /\ Fault(TRUE)
  /\ IF i = 0 THEN HeadGone(TRUE) ELSE WorkerGone(i, <<>>)
  /\ UNCHANGED <<rank, data, entered, aborted, fresh, exiting, cancelled, counts>>
Freezes(i) ==
  /\ MayFail("freezes") /\ Up(i) /\ Fault(TRUE)
  /\ proc' = [proc EXCEPT ![i] = "frozen"]
  /\ UNCHANGED <<rank, data, entered, aborted, links, exiting, cancelled, counts>>

(* Heartbeats stop coming, or come again. *)
frozen(w) == "frozen" \in {proc[0], proc[w]}
HeartbeatOverdue(w) ==
  /\ fresh[w] /\ ~ closed(w) /\ (frozen(w) \/ MayFail("late"))
  /\ fresh' = [fresh EXCEPT ![w] = FALSE] /\ Fault(~ frozen(w))
  /\ UNCHANGED <<rank, data, proc, entered, aborted, chan, back, exiting, cancelled, counts>>
HeartbeatHeard(w) ==
  /\ ~ fresh[w] /\ Up(0) /\ Up(w)
  /\ fresh' = [fresh EXCEPT ![w] = TRUE]
  /\ UNCHANGED <<rank, data, proc, entered, aborted, chan, back, exiting, cancelled, counts, faults>>

Blocks == UNION {[1..n -> Tokens] : n \in 1..Block}
KeptBlocks == {b \in Blocks : \A k \in 1..Len(b) - 1 : b[k] # Eos}
SlotOrNone == {None} \cup {<<s>> : s \in Slots}

HeadStep ==
  \/ \E restore, snap \in SlotOrNone, spec \in Modes : HeadStart(restore, snap, spec)
  \/ CancelPrefill \/ (\E t \in Tokens : HeadDecide(t)) \/ HeadDraft
  \/ (\E b \in KeptBlocks : HeadAccept(b)) \/ HeadEnd \/ HeadWatchdog \/ HeadExit \/ HeadShutdown
  \/ \E w \in Workers : HeadGather(w) \/ HeadGatherFails(w)
  \/ \E s \in Slots : SaveTurn(s) \/ FreeSlot(s)
WorkerStep(w) ==
  \/ WorkerStart(w) \/ WorkerOp(w) \/ WorkerOther(w) \/ WorkerFollows(w) \/ WorkerMisses(w)
  \/ WorkerEnd(w) \/ WorkerEndMissing(w) \/ WorkerAlone(w) \/ WorkerWatchdog(w)
Compute(i) == EnterForward(i) \/ LeaveForward(i) \/ BreakForward(i) \/ LocalFailure(i) \/ StartDecode(i)

Next ==
  \/ HeadStep \/ ClientLeaves
  \/ \E w \in Workers : WorkerStep(w) \/ HeartbeatOverdue(w) \/ HeartbeatHeard(w)
  \/ \E i \in Ranks : Compute(i) \/ Dies(i) \/ Freezes(i)

(* Threads that can run do; deadlines pass; a frozen peer's heartbeats     *)
(* become overdue.  Nothing obliges a communicator to notice an error, a   *)
(* client to leave, or a request or an operation to come. *)
Fairness ==
  /\ WF_vars(CancelPrefill \/ (\E t \in Tokens : HeadDecide(t)) \/ HeadDraft
             \/ (\E b \in KeptBlocks : HeadAccept(b)) \/ HeadEnd)
  /\ WF_vars(\E w \in Workers : HeadGather(w) \/ HeadGatherFails(w))
  /\ WF_vars(~ all_alive /\ HeadWatchdog) /\ WF_vars(HeadExit)
  /\ \A i \in Ranks : WF_vars(EnterForward(i) \/ LeaveForward(i) \/ BreakForward(i) \/ StartDecode(i))
  /\ \A w \in Workers :
       /\ WF_vars(WorkerStart(w) \/ WorkerOp(w) \/ WorkerOther(w) \/ WorkerFollows(w)
                  \/ WorkerMisses(w) \/ WorkerEnd(w) \/ WorkerEndMissing(w) \/ WorkerAlone(w))
       /\ WF_vars(~ alive(w) /\ WorkerWatchdog(w))
       /\ WF_vars(frozen(w) /\ HeartbeatOverdue(w))

Spec == Init /\ [][Next]_vars
FairSpec == Spec /\ Fairness

------------------------------------------------------------------------------
(* A request that the head answers with success has left every rank with   *)
(* the same tokens and the same history in its cache (run_request returns  *)
(* ok only after gather_reports; handle_request reports only an answer     *)
(* that agrees), whichever ranks failed, died, froze or were late.         *)
ReplicasAgree ==
  rank[0].pc = "idle" /\ rank[0].ok /\ ~ exiting =>
    \A w \in Workers : kv[w] = kv[0] /\ rank[w].tokens = rank[0].tokens

(* While nothing has failed, a worker that reads the end of its request    *)
(* has the answer the head has: every rank runs generate in lockstep, and  *)
(* what ends it is decided on the head and shipped (decision hooks).  A    *)
(* client that left during the prefill or a speculative block is left out: *)
(* the head then stops on its own. *)
StoppedAlone == cancelled /\ (rank[0].spec \/ rank[0].tokens = <<>>)
SameEnding ==
  faults = 0 /\ ~ StoppedAlone => \A w \in Workers :
    rank[w].pc = "end" /\ Reads(w) =>
      /\ Head(chan[w]).type = "RequestEnd"
      /\ rank[w].ok = Head(chan[w]).ok
      /\ rank[w].req = Head(chan[w]).req /\ Len(rank[w].tokens) = Head(chan[w]).steps

(* Whatever rank dies, freezes or fails, the head's request returns (or    *)
(* its process is down): no collective, gather or broadcast holds it for   *)
(* ever.                                                                   *)
RequestReturns == (rank[0].pc # "idle") ~> (rank[0].pc = "idle" \/ ~ Up(0))

(* When the head is lost or gives up, every worker process ends, so that   *)
(* the supervisor can restart all the ranks.                               *)
GoesDownTogether == (~ Up(0) \/ exiting) ~> (\A w \in Workers : ~ Up(w))
------------------------------------------------------------------------------
(* What makes ReplicasAgree inductive.  It is said of each frame and each  *)
(* rank by itself, and of nothing once the head gives up (exiting), so     *)
(* that it survives frames that are cut off and ranks that go.             *)

Decisions ==
  [type : {"Decision"}, req : Nat, step : Nat, tokens : {<<t>> : t \in Tokens}, stop : BOOLEAN]
  \cup [type : {"Draft"}, req : Nat, step : Nat, tokens : {<<>>}, stop : BOOLEAN]
  \cup [type : {"Accept"}, req : Nat, step : Nat, tokens : Seq(Tokens) \ {<<>>}, stop : BOOLEAN]
Starts == [type : {"Request"}, req : Nat, restore : SlotOrNone, snap : SlotOrNone, spec : BOOLEAN]
Ends == [type : {"RequestEnd"}, req : Nat, ok : BOOLEAN, steps : Nat]
SnapshotOps == [type : {"Op"}, save : BOOLEAN, slot : Slots]
Signals == [type : {"Abort", "Shutdown"}]
Frames == Decisions \cup Starts \cup Ends \cup SnapshotOps \cup Signals
Reports == [type : {"Report"}, req : Nat] \cup [type : {"Abort"}]

Places == Forwards \cup {"idle", "decide", "draft", "accept", "end", "gather"}
Generations == [pc : Places, req : Nat, chunk : 0..Chunks, inside : BOOLEAN, ok : BOOLEAN,
                snap : SlotOrNone, spec : BOOLEAN, tokens : Seq(Tokens), gathered : SUBSET Workers]

WellFormed(r) ==
  /\ r.pc \in {"forward", "draft", "verify", "accept"} => r.tokens # <<>>
  /\ r.inside => r.pc \in Forwards
  /\ r.pc = "prefill" => r.tokens = <<>> /\ (r.inside => r.chunk < Chunks)
  /\ ~ r.ok => r.pc \in {"idle", "end", "gather"}

TypeOK ==
  /\ rank \in [Ranks -> Generations] /\ \A i \in Ranks : WellFormed(rank[i])
  /\ kv \in [Ranks -> Seq(Int)] /\ saveable \in [Ranks -> BOOLEAN]
  /\ snaps \in [Ranks -> [Slots -> Seq(Int)]]
  /\ proc \in [Ranks -> {"up", "frozen", "exited"}]
  /\ aborted \in [Ranks -> BOOLEAN]
  /\ chan \in [Workers -> Seq(Frames)] /\ back \in [Workers -> Seq(Reports)]
  /\ exiting \in BOOLEAN /\ requests \in Nat

Busy == rank[0].pc # "idle"
Serving == ~ exiting /\ proc[0] # "exited"
Runs(w) == rank[w].req = requests

(* The collectives.  Someone is last; who is in none is not ahead, unless  *)
(* an abort took it out of one. *)
Lockstep ==
  /\ entered \in [Ranks -> {0, 1}] /\ \E i \in Ranks : entered[i] = 0
  /\ \A i \in Ranks : ~ rank[i].inside /\ ~ aborted[i] => entered[i] = 0
HeadServes == ~ aborted[0] /\ (rank[0].pc # "gather" => rank[0].gathered = {})

(* Frames and reports are of requests so far; operations on snapshots wait *)
(* in front of the next request. *)
Known(w) ==
  /\ rank[w].req <= requests
  /\ \A m \in Range(back[w]) : m.type = "Report" => m.req <= requests
  /\ \A m \in Range(chan[w]) :
       /\ m.type \in {"Decision", "Draft", "Accept", "RequestEnd"} => m.req <= requests
       /\ m.type = "Op" => rank[w].pc = "idle" /\ (Busy => ~ Runs(w))

(* A slot the head can restore from holds the same on a worker once its    *)
(* frames are read and its inline snapshot is saved, or nothing. *)
OpOn(m, s) == m.type = "Op" /\ m.slot = s
Saving(w, s) ==
  /\ Busy /\ Runs(w) /\ rank[w].pc = "prefill" /\ rank[w].inside
  /\ rank[w].snap = <<s>> /\ rank[w].chunk + 1 = Chunks
SlotAgrees(w, s) ==
  \/ \E k \in DOMAIN chan[w] :
       /\ OpOn(chan[w][k], s) /\ \A l \in DOMAIN chan[w] : k < l => ~ OpOn(chan[w][l], s)
       /\ chan[w][k].save => kv[w] = snaps[0][s]
  \/ /\ \A k \in DOMAIN chan[w] : ~ OpOn(chan[w][k], s)
     /\ snaps[w][s] \in {None, snaps[0][s]} \/ Saving(w, s)
SnapsAgree(w) ==
  ~ aborted[w] /\ proc[w] # "exited" =>
    \A s \in Slots : snaps[0][s] # None => SlotAgrees(w, s)

(* Between requests. *)
Agrees(w) ==
  /\ rank[w].pc = "idle"
  /\ rank[0].ok => kv[w] = kv[0] /\ rank[w].tokens = rank[0].tokens
  /\ \A m \in Range(chan[w]) : m.type # "Request"

(* During a request: a rank's cache, where `begun' is the history it began *)
(* with and the prompt. *)
Holds(i, begun) ==
  /\ rank[i].pc = "prefill" =>
       begun = IF rank[i].chunk = Chunks THEN kv[i] ELSE Append(kv[i], - requests)
  /\ rank[i].pc = "decide" => kv[i] = begun \o rank[i].tokens
  /\ rank[i].pc \notin {"prefill", "decide"} =>
       rank[i].tokens # <<>> /\ kv[i] = begun \o Front(rank[i].tokens)

(* A client that left made the head stop inside a block: no worker can end *)
(* with as many tokens. *)
Unmatched ==
  \A w \in Workers :
    /\ Runs(w) => Len(rank[w].tokens) # Len(rank[0].tokens)
    /\ \A m \in Range(chan[w]) :
         m.type \in {"Decision", "Draft", "Accept"} /\ m.req = requests =>
           m.step + Len(m.tokens) # Len(rank[0].tokens)

HeadHolds(begun) ==
  /\ rank[0].req = requests
  /\ rank[0].pc \notin {"end", "gather"} => Holds(0, begun)
  /\ rank[0].pc \in {"end", "gather"} /\ rank[0].ok =>
       rank[0].tokens = <<>> \/ Holds(0, begun) \/ Unmatched
  /\ rank[0].snap # None => snaps[0][rank[0].snap[1]] \in {None, begun}

(* Tokens that a worker adopts after `step' others are the head's, as far  *)
(* as it has them; it has them all unless it is at the end. *)
HeadsOwn(step, tokens) ==
  /\ \A k \in 1..Len(tokens) :
       step + k <= Len(rank[0].tokens) => rank[0].tokens[step + k] = tokens[k]
  /\ step + Len(tokens) > Len(rank[0].tokens) => rank[0].pc \in {"end", "gather"}

(* A worker's answer and cache so far.  One whose communicator is aborted  *)
(* gets through no other prefill. *)
StuckAtStart(w) ==
  aborted[w] /\ rank[w].pc = "prefill" /\ rank[w].chunk = 0 /\ ~ rank[w].inside
Copies(w, begun) ==
  LET r == rank[w] IN
  /\ ~ Runs(w) => r.pc = "idle"
  /\ Runs(w) => HeadsOwn(0, r.tokens) /\ (r.pc = "idle" => rank[0].pc = "gather")
  /\ Runs(w) /\ r.pc # "idle" =>
       r.snap = rank[0].snap /\ (r.snap # None /\ r.chunk = Chunks => snaps[w][r.snap[1]] \in {None, begun})
  /\ Runs(w) /\ r.ok /\ ~ StuckAtStart(w) => Holds(w, begun)

(* Collectives of the prefill, entered and matched. *)
Matched(i) == rank[i].chunk + (IF rank[i].inside THEN 1 ELSE 0) - entered[i]
Paced(w) ==
  rank[0].pc = "prefill" /\ ~ aborted[w] => Matched(0) = IF Runs(w) THEN Matched(w) ELSE 0

FrameRight(m, w, begun) ==
  /\ m.type \in {"Decision", "Draft", "Accept"} /\ m.req = requests =>
       HeadsOwn(m.step, m.tokens)
  /\ m.type = "RequestEnd" /\ m.req = requests =>
       rank[0].pc = "gather" /\ m.ok = rank[0].ok /\ m.steps = Len(rank[0].tokens)
  /\ m.type = "Request" =>
       /\ m.req = requests /\ ~ Runs(w) /\ m.snap = rank[0].snap
       /\ m.restore = None => begun = <<- requests>>
       /\ m.restore # None =>
            m.restore # m.snap /\ snaps[0][m.restore[1]] # None /\ begun = Append(snaps[0][m.restore[1]], - requests)
FramesRight(w, begun) ==
  /\ \A m \in Range(chan[w]) : FrameRight(m, w, begun)
  /\ \A k, l \in DOMAIN chan[w] :
       chan[w][k].type = "Request" /\ k < l => chan[w][l].type \notin {"Request", "Op"}

Reported(w) == w \in rank[0].gathered \/ [type |-> "Report", req |-> requests] \in Range(back[w])
ReportRight(w) ==
  Reported(w) =>
    /\ rank[0].pc = "gather" /\ Runs(w) /\ rank[w].pc = "idle"
    /\ rank[0].ok => rank[w].ok /\ Len(rank[w].tokens) = Len(rank[0].tokens)

Follows(w, begun) ==
  Copies(w, begun) /\ Paced(w) /\ FramesRight(w, begun) /\ ReportRight(w)
Together == \E begun \in Seq(Int) : HeadHolds(begun) /\ \A w \in Workers : Follows(w, begun)

ClusterInv ==
  /\ TypeOK /\ Lockstep
  /\ ~ exiting /\ ~ Busy => \A w \in Workers : Agrees(w)
  /\ Serving => HeadServes /\ \A w \in Workers : Known(w) /\ SnapsAgree(w)
  /\ Serving /\ Busy => Together
------------------------------------------------------------------------------
(* What makes SameEnding inductive.  While nothing has failed, the cluster *)
(* is in order, or its workers are done with requests (told to save what   *)
(* cannot be saved, or shut down), or the head has stopped alone and       *)
(* nobody can end as it did.                                               *)

(* The frame a rank takes next, and how many tokens come before it; the    *)
(* same for what a frame takes and what it leads to. *)
Due(r) ==
  CASE r.pc \in {"prefill", "forward", "decide"} -> <<"Decision", Len(r.tokens)>>
    [] r.pc = "draft" -> <<"Draft", Len(r.tokens)>>
    [] r.pc \in {"verify", "accept"} -> <<"Accept", Len(r.tokens)>>
    [] r.pc = "end" -> <<"RequestEnd", Len(r.tokens)>>
    [] r.pc \in {"idle", "gather"} -> <<"Request", 0>>
Takes(m) ==
  CASE m.type \in {"Decision", "Draft", "Accept"} -> <<m.type, m.step>>
    [] m.type = "RequestEnd" -> <<"RequestEnd", m.steps>>
    [] OTHER -> <<"Request", 0>>
LeadsTo(m, spec) ==
  CASE m.type = "Request" -> <<"Decision", 0>>
    [] m.type \in {"Decision", "Accept"} ->
         LET n == m.step + Len(m.tokens) IN
         <<IF m.stop \/ n >= NGen THEN "RequestEnd"
           ELSE IF m.type = "Accept" \/ spec THEN "Draft" ELSE "Decision", n>>
    [] m.type = "Draft" -> <<IF m.stop THEN "RequestEnd" ELSE "Accept", m.step>>
    [] OTHER -> <<"Request", 0>>

(* Frames that lead from what is due on one rank to what is due on another. *)
Lead(from, frames, spec, to) ==
  \A k \in 0..Len(frames) :
    (IF k = 0 THEN from ELSE LeadsTo(frames[k], spec))
      = (IF k = Len(frames) THEN to ELSE Takes(frames[k + 1]))

(* The collectives a rank has entered since its last frame; it needs all   *)
(* of them for the next. *)
Passed(r) ==
  CASE r.pc \in Forwards -> (IF r.pc = "prefill" THEN r.chunk ELSE 0) + (IF r.inside THEN 1 ELSE 0)
    [] r.pc \in {"decide", "accept"} -> IF r.tokens = <<>> THEN Chunks ELSE 1
    [] OTHER -> 0
Through(r) == r.pc \in Forwards => Passed(r) = IF r.pc = "prefill" THEN Chunks ELSE 1

(* A worker r with frames to read is at most in the collective before      *)
(* them, and the head h, `lead' collectives ahead, in the one after. *)
InPace(frames, h, r, lead) ==
  /\ frames = <<>> => lead = Passed(h) - Passed(r)
  /\ frames # <<>> =>
       /\ lead = Passed(h) /\ Through(r)
       /\ h.pc \notin {"decide", "accept"} /\ (h.pc = "prefill" => h.chunk = 0)
       /\ \A k \in DOMAIN frames : k > 1 => frames[k].type \notin {"Decision", "Accept"}

(* What a worker still has to read is of this request; operations on       *)
(* snapshots come before it. *)
Current(w) ==
  /\ Runs(w) <=> \A m \in Range(chan[w]) : m.type # "Request"
  /\ Runs(w) => rank[w].spec = rank[0].spec
  /\ rank[0].pc = "gather" /\ Runs(w) /\ rank[w].pc = "idle" => Reported(w)
  /\ back[w] # <<>> =>
       rank[0].pc = "gather" /\ w \notin rank[0].gathered /\ back[w] = <<[type |-> "Report", req |-> requests]>>
  /\ \A m \in Range(chan[w]) :
       /\ m.type \notin {"Abort", "Shutdown"} /\ (~ Busy => m.type = "Op")
       /\ m.type \in {"Decision", "Draft", "Accept", "RequestEnd"} => m.req = requests
       /\ m.type = "Op" /\ m.save => saveable[w]
       /\ m.type = "Request" => m.spec = rank[0].spec
       /\ m.type = "Draft" /\ m.stop => m.step > 1
       /\ m.type = "RequestEnd" => m.ok

(* Whether slot s is used once the frames are read. *)
WillHave(frames, used, s, there) ==
  \/ \E k \in DOMAIN frames :
       /\ OpOn(frames[k], s) /\ \A l \in DOMAIN frames : k < l => ~ OpOn(frames[l], s)
       /\ frames[k].save = there
  \/ (\A k \in DOMAIN frames : ~ OpOn(frames[k], s)) /\ used = there
There(w, s) ==
  IF Busy /\ rank[0].snap = <<s>> THEN Runs(w) /\ rank[w].chunk = Chunks ELSE snaps[0][s] # None
SlotsAlike(w) == \A s \in Slots : WillHave(chan[w], snaps[w][s] # None, s, There(w, s))

(* One rank's request.  A speculative step leaves nothing to save. *)
Normal(r, may_save) ==
  LET over == r.pc \in {"end", "gather", "idle"} IN
  /\ r.ok
  /\ r.pc # "idle" => r.req > 0
  /\ ~ over => Len(r.tokens) < NGen
  /\ r.spec /\ r.pc \in {"prefill", "forward", "decide"} => r.tokens = <<>>
  /\ r.pc \in {"draft", "verify", "accept"} => r.spec /\ ~ may_save
  /\ over => may_save = (Len(r.tokens) = 1 \/ (r.tokens # <<>> /\ ~ r.spec))
  /\ over /\ r.req > 0 => r.tokens # <<>>
  /\ r.pc = "decide" \/ r.tokens # <<>> => r.chunk = Chunks
Ordinary(i) ==
  /\ Up(i) /\ ~ aborted[i] /\ Normal(rank[i], saveable[i])
  /\ rank[i].chunk = Chunks => kv[i] # <<>>

(* A worker goes the way of the head. *)
Script(w) == Lead(Due(rank[w]), chan[w], rank[0].spec, Due(rank[0]))
Pace(w) == InPace(chan[w], rank[0], rank[w], entered[0] - entered[w])
InStride(w) == fresh[w] /\ rank[w].pc # "gather" /\ Script(w) /\ Pace(w) /\ Current(w) /\ SlotsAlike(w)

InOrder ==
  /\ ~ exiting
  /\ Busy /\ rank[0].snap # None => (snaps[0][rank[0].snap[1]] # None) = (rank[0].chunk = Chunks)
  /\ \A i \in Ranks : Ordinary(i)
  /\ \A w \in Workers : InStride(w)

(* A worker that will begin no other request. *)
Done(w) ==
  \/ proc[w] = "exited"
  \/ /\ rank[w].pc = "idle"
     /\ \/ proc[0] = "exited" /\ \A k \in DOMAIN chan[w] : chan[w][k].type # "Request"
        \/ ~ saveable[w] /\ \E k \in DOMAIN chan[w] :
             /\ chan[w][k].type = "Op" /\ chan[w][k].save
             /\ \A l \in 1..k : chan[w][l].type # "Request"

(* The head is at the end of a request that no worker will report. *)
Alone ==
  /\ StoppedAlone /\ rank[0].pc \in {"end", "gather", "idle"}
  /\ \/ exiting \/ proc[0] = "exited"
     \/ /\ rank[0].pc # "idle" /\ rank[0].ok
        /\ \/ Unmatched /\ rank[0].tokens # <<>>
           \/ /\ rank[0].tokens = <<>>
              /\ \A w \in Workers : Runs(w) /\ rank[w].ok /\ rank[w].pc \in {"end", "idle"} => rank[w].tokens # <<>>

EndingInv ==
  /\ faults \in Nat
  /\ faults = 0 => InOrder \/ (\A w \in Workers : Done(w)) \/ Alone
==============================================================================
