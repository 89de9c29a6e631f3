---------------------------- MODULE ClusterProofs ----------------------------
(***************************************************************************)
(* A request the head answers with success has left every rank with the    *)
(* same tokens and the same cache: for any number of workers, any          *)
(* vocabulary, and any number of failures.  While nothing has failed, a    *)
(* worker ends its request with the answer the head has.                   *)
(***************************************************************************)
EXTENDS Cluster, SequenceTheorems, TLAPS

-----------------------------------------------------------------------------
(* Sequences.                                                              *)

(* What a queue is without its first frame. *)
LEMMA TailProps ==
  ASSUME NEW S, NEW q \in Seq(S), q # <<>>
  PROVE  /\ Tail(q) \in Seq(S) /\ Head(q) \in S /\ Head(q) = q[1] /\ 1 \in DOMAIN q
         /\ Head(q) \in Range(q) /\ Range(Tail(q)) \subseteq Range(q)
         /\ \A k \in DOMAIN Tail(q) : k + 1 \in DOMAIN q /\ Tail(q)[k] = q[k + 1]
         /\ \A k \in DOMAIN q : k = 1 \/ (k - 1 \in DOMAIN Tail(q) /\ q[k] = Tail(q)[k - 1])
<1>1. Len(q) \in Nat /\ Len(q) > 0 /\ DOMAIN q = 1..Len(q)
  OBVIOUS
<1>2. /\ Tail(q) \in Seq(S) /\ Head(q) = q[1] /\ Len(Tail(q)) = Len(q) - 1
      /\ \A k \in 1..Len(q) - 1 : Tail(q)[k] = q[k + 1]
  OBVIOUS
<1>3. DOMAIN Tail(q) = 1..Len(q) - 1
  BY <1>2
<1>4. \A k \in DOMAIN Tail(q) : k + 1 \in DOMAIN q /\ Tail(q)[k] = q[k + 1]
  BY <1>1, <1>2, <1>3
<1>5. \A k \in DOMAIN q : k = 1 \/ (k - 1 \in DOMAIN Tail(q) /\ q[k] = Tail(q)[k - 1])
  BY <1>1, <1>2, <1>3
<1>6. Range(Tail(q)) \subseteq Range(q)
  BY <1>4 DEF Range
<1>7. 1 \in DOMAIN q /\ Head(q) \in Range(q) /\ Head(q) \in S
  BY <1>1, <1>2 DEF Range
<1> QED BY <1>2, <1>4, <1>5, <1>6, <1>7

(* What a queue is with frames at its end. *)
LEMMA ConcatProps ==
  ASSUME NEW S, NEW q \in Seq(S), NEW r \in Seq(S)
  PROVE  /\ q \o r \in Seq(S) /\ Len(q \o r) = Len(q) + Len(r)
         /\ Range(q \o r) = Range(q) \cup Range(r)
         /\ \A k \in DOMAIN q : k \in DOMAIN (q \o r) /\ (q \o r)[k] = q[k]
         /\ \A k \in DOMAIN r : Len(q) + k \in DOMAIN (q \o r) /\ (q \o r)[Len(q) + k] = r[k]
         /\ \A k \in DOMAIN (q \o r) : k \in DOMAIN q \/ k - Len(q) \in DOMAIN r
<1>1. Len(q) \in Nat /\ DOMAIN q = 1..Len(q) /\ Len(r) \in Nat /\ DOMAIN r = 1..Len(r)
  OBVIOUS
<1>2. /\ q \o r \in Seq(S) /\ Len(q \o r) = Len(q) + Len(r)
      /\ \A k \in 1..Len(q) + Len(r) : (q \o r)[k] = IF k <= Len(q) THEN q[k] ELSE r[k - Len(q)]
  OBVIOUS
<1>3. DOMAIN (q \o r) = 1..Len(q) + Len(r)
  BY <1>2
<1>4. \A k \in DOMAIN q : k \in DOMAIN (q \o r) /\ (q \o r)[k] = q[k]
  BY <1>1, <1>2, <1>3
<1>5. \A k \in DOMAIN r : Len(q) + k \in DOMAIN (q \o r) /\ (q \o r)[Len(q) + k] = r[k]
  <2> SUFFICES ASSUME NEW k \in DOMAIN r
               PROVE  Len(q) + k \in DOMAIN (q \o r) /\ (q \o r)[Len(q) + k] = r[k]
    OBVIOUS
  <2>1. k \in 1..Len(r) /\ Len(q) + k \in 1..Len(q) + Len(r) /\ ~(Len(q) + k <= Len(q))
        /\ Len(q) + k - Len(q) = k
    BY <1>1
  <2> QED BY <2>1, <1>2, <1>3
<1>6. \A k \in DOMAIN (q \o r) : k \in DOMAIN q \/ k - Len(q) \in DOMAIN r
  BY <1>1, <1>3
<1>7. Range(q \o r) = Range(q) \cup Range(r)
  <2>1. ASSUME NEW x \in Range(q \o r) PROVE x \in Range(q) \cup Range(r)
    <3>1. PICK k \in DOMAIN (q \o r) : x = (q \o r)[k]
      BY <2>1 DEF Range
    <3>2. CASE k \in DOMAIN q
      BY <3>1, <3>2, <1>4 DEF Range
    <3>3. CASE k - Len(q) \in DOMAIN r
      <4>1. Len(q) + (k - Len(q)) = k
        BY <1>1, <1>3
      <4> QED BY <3>1, <3>3, <4>1, <1>5 DEF Range
    <3> QED BY <3>2, <3>3, <1>6
  <2>2. Range(q) \cup Range(r) \subseteq Range(q \o r)
    <3>1. Range(q) \subseteq Range(q \o r)
      BY <1>4 DEF Range
    <3>2. Range(r) \subseteq Range(q \o r)
      BY <1>5 DEF Range
    <3> QED BY <3>1, <3>2
  <2> QED BY <2>1, <2>2
<1> QED BY <1>2, <1>4, <1>5, <1>6, <1>7

LEMMA AppendRange ==
  ASSUME NEW S, NEW q \in Seq(S), NEW e \in S
  PROVE  Append(q, e) \in Seq(S) /\ Range(Append(q, e)) = Range(q) \cup {e}
<1>1. /\ Append(q, e) \in Seq(S) /\ Len(q) \in Nat /\ DOMAIN q = 1..Len(q)
      /\ DOMAIN Append(q, e) = 1..Len(q) + 1
      /\ \A k \in 1..Len(q) + 1 : Append(q, e)[k] = IF k <= Len(q) THEN q[k] ELSE e
  OBVIOUS
<1>2. Range(Append(q, e)) \subseteq Range(q) \cup {e}
  BY <1>1 DEF Range
<1>3. \A k \in DOMAIN q : k \in DOMAIN Append(q, e) /\ Append(q, e)[k] = q[k]
  BY <1>1
<1>4. Len(q) + 1 \in DOMAIN Append(q, e) /\ Append(q, e)[Len(q) + 1] = e
  BY <1>1
<1>5. Range(q) \cup {e} \subseteq Range(Append(q, e))
  BY <1>3, <1>4 DEF Range
<1> QED BY <1>1, <1>2, <1>5

(* What is left of frames that are cut off. *)
LEMMA CutProps ==
  ASSUME NEW S, NEW q \in Seq(S), NEW n \in Nat
  PROVE  /\ CutTo(q, n) \in Seq(S) /\ Len(CutTo(q, n)) = (IF n < Len(q) THEN n ELSE Len(q))
         /\ \A k \in 1..Len(CutTo(q, n)) : k \in DOMAIN q /\ CutTo(q, n)[k] = q[k]
         /\ Range(CutTo(q, n)) \subseteq Range(q)
         /\ n >= Len(q) => CutTo(q, n) = q
<1> DEFINE m == IF n < Len(q) THEN n ELSE Len(q)
<1>1. Len(q) \in Nat /\ DOMAIN q = 1..Len(q) /\ m \in 0..Len(q)
  OBVIOUS
<1>2. CutTo(q, n) = SubSeq(q, 1, m)
  BY DEF CutTo
<1>3. SubSeq(q, 1, m) \in Seq(S) /\ Len(SubSeq(q, 1, m)) = m
      /\ \A k \in 1..m : SubSeq(q, 1, m)[k] = q[k]
  BY <1>1
<1>4. \A k \in 1..m : k \in DOMAIN q
  BY <1>1
<1>5. Range(SubSeq(q, 1, m)) \subseteq Range(q)
  <2>1. DOMAIN SubSeq(q, 1, m) = 1..m
    BY <1>3
  <2> QED BY <2>1, <1>3, <1>4 DEF Range
<1>6. n >= Len(q) => SubSeq(q, 1, m) = q
  <2> SUFFICES ASSUME n >= Len(q) PROVE SubSeq(q, 1, m) = q
    OBVIOUS
  <2>1. ~(n < Len(q))
    BY <1>1
  <2>2. m = Len(q)
    BY <2>1, Zenon
  <2>3. \A k \in 1..Len(q) : SubSeq(q, 1, m)[k] = q[k]
    BY <2>2, <1>3
  <2>4. Len(SubSeq(q, 1, m)) = Len(q)
    BY <2>2, <1>3
  <2> QED BY <2>3, <2>4, <1>3, SeqEqual
<1>7. m = IF n < Len(q) THEN n ELSE Len(q)
  OBVIOUS
<1> HIDE DEF m
<1>8. Len(CutTo(q, n)) = m
  BY <1>2, <1>3
<1> QED BY <1>2, <1>3, <1>4, <1>5, <1>6, <1>7, <1>8

LEMMA SeqWidens ==
  ASSUME NEW S, NEW T, S \subseteq T
  PROVE  /\ \A q \in Seq(S) : q \in Seq(T)
         /\ \A e \in S : <<e>> \in Seq(T)
<1>1. ASSUME NEW q \in Seq(S) PROVE q \in Seq(T)
  <2>1. Len(q) \in Nat /\ q \in [1..Len(q) -> T]
    OBVIOUS
  <2> QED BY <2>1, SeqDef
<1> QED BY <1>1

(* A cache that lacks the last token of an answer, and what joins it. *)
LEMMA FrontLast ==
  ASSUME NEW S, NEW u \in Seq(S), u # <<>>
  PROVE  /\ Front(u) \in Seq(S) /\ Last(u) \in S /\ u = Front(u) \o <<Last(u)>>
<1>1. Len(u) \in Nat /\ Len(u) > 0
  OBVIOUS
<1>2. /\ Front(u) \in Seq(S) /\ Len(Front(u)) = Len(u) - 1 /\ Last(u) = u[Len(u)] /\ Last(u) \in S
      /\ \A k \in 1..Len(u) - 1 : Front(u)[k] = u[k]
  <2>1. Last(u) = u[Len(u)] /\ u[Len(u)] \in S
    BY <1>1 DEF Last
  <2>2. /\ SubSeq(u, 1, Len(u) - 1) \in Seq(S) /\ Len(SubSeq(u, 1, Len(u) - 1)) = Len(u) - 1
        /\ \A k \in 1..Len(u) - 1 : SubSeq(u, 1, Len(u) - 1)[k] = u[k]
    <3>1. PICK n \in Nat : n = Len(u) - 1
      BY <1>1
    <3>2. SubSeq(u, 1, n) \in Seq(S) /\ Len(SubSeq(u, 1, n)) = n
      BY <3>1, <1>1
    <3>3. \A k \in 1..n : SubSeq(u, 1, n)[k] = u[k]
      BY <3>1, <1>1
    <3> QED BY <3>1, <3>2, <3>3
  <2> QED BY <2>1, <2>2 DEF Front
<1>3. Append(Front(u), Last(u)) \in Seq(S) /\ Len(Append(Front(u), Last(u))) = Len(u)
  BY <1>1, <1>2
<1>4. \A k \in 1..Len(u) : Append(Front(u), Last(u))[k] = u[k]
  BY <1>1, <1>2
<1>5. Append(Front(u), Last(u)) = u
  BY <1>3, <1>4, SeqEqual
<1> QED BY <1>2, <1>5, AppendIsConcat

LEMMA FrontConcat ==
  ASSUME NEW S, NEW t \in Seq(S), NEW u \in Seq(S), u # <<>>
  PROVE  Front(t \o u) = t \o Front(u) /\ t \o u \in Seq(S) /\ t \o u # <<>>
<1>1. Front(u) \in Seq(S) /\ Last(u) \in S /\ u = Front(u) \o <<Last(u)>>
  BY FrontLast
<1> DEFINE v == t \o Front(u)
<1>2. v \in Seq(S) /\ t \o u = v \o <<Last(u)>>
  <2>1. <<Last(u)>> \in Seq(S)
    BY <1>1
  <2>2. v \in Seq(S)
    BY <1>1, ConcatProperties
  <2>3. t \o (Front(u) \o <<Last(u)>>) = v \o <<Last(u)>>
    BY <2>1, <1>1, ConcatAssociative
  <2> QED BY <2>2, <2>3, <1>1
<1> HIDE DEF v
<1>3. v \o <<Last(u)>> = Append(v, Last(u))
  BY <1>1, <1>2, AppendIsConcat
<1>4. Front(Append(v, Last(u))) = v
  <2> DEFINE w == Append(v, Last(u))
  <2>1. w \in Seq(S) /\ Len(w) = Len(v) + 1 /\ \A k \in 1..Len(v) : w[k] = v[k]
    BY <1>1, <1>2
  <2> HIDE DEF w
  <2>2. /\ SubSeq(w, 1, Len(w) - 1) \in Seq(S) /\ Len(SubSeq(w, 1, Len(w) - 1)) = Len(v)
        /\ \A k \in 1..Len(v) : SubSeq(w, 1, Len(w) - 1)[k] = v[k]
    BY <2>1, <1>2
  <2>3. SubSeq(w, 1, Len(w) - 1) = v
    BY <2>2, <1>2, SeqEqual
  <2>4. Front(w) = v
    BY <2>3 DEF Front
  <2> QED BY <2>4 DEF w
<1>5. t \o u \in Seq(S) /\ t \o u # <<>>
  BY ConcatProperties, ConcatEqualIffEmpty
<1> QED BY <1>2, <1>3, <1>4, <1>5 DEF v

(* A forward completes what the decision before it left, and a block joins *)
(* what its first token left. *)
LEMMA CacheGrows ==
  ASSUME NEW S, NEW b \in Seq(S), NEW t \in Seq(S), t # <<>>
  PROVE  /\ Append(b \o Front(t), Last(t)) = b \o t
         /\ (b \o Front(t)) \o <<Last(t)>> = b \o t
         /\ \A u \in Seq(S) : u # <<>> =>
              ((b \o Front(t)) \o <<Last(t)>>) \o Front(u) = b \o Front(t \o u)
<1>1. Front(t) \in Seq(S) /\ Last(t) \in S /\ t = Front(t) \o <<Last(t)>> /\ b \o Front(t) \in Seq(S)
  BY FrontLast, ConcatProperties
<1>2. (b \o Front(t)) \o <<Last(t)>> = b \o t
  <2>1. <<Last(t)>> \in Seq(S)
    BY <1>1
  <2>2. (b \o Front(t)) \o <<Last(t)>> = b \o (Front(t) \o <<Last(t)>>)
    <3>1. PICK x \in Seq(S), y \in Seq(S) : x = Front(t) /\ y = <<Last(t)>>
      BY <2>1, <1>1
    <3>2. (b \o x) \o y = b \o (x \o y)
      BY ConcatAssociative
    <3> QED BY <3>1, <3>2
  <2> QED BY <2>2, <1>1
<1>3. Append(b \o Front(t), Last(t)) = b \o t
  BY <1>1, <1>2, AppendIsConcat
<1>4. ASSUME NEW u \in Seq(S), u # <<>>
      PROVE  (b \o t) \o Front(u) = b \o Front(t \o u)
  <2>1. Front(u) \in Seq(S) /\ Front(t \o u) = t \o Front(u)
    BY <1>4, FrontLast, FrontConcat
  <2> QED BY <2>1, ConcatAssociative
<1> QED BY <1>2, <1>3, <1>4

LEMMA HistoryGrows ==
  /\ \A t, u \in Seq(Int) : u # <<>> => Front(t \o u) = t \o Front(u)
  /\ \A b, t, u \in Seq(Int) : t # <<>> /\ u # <<>> =>
       ((b \o Front(t)) \o <<Last(t)>>) \o Front(u) = b \o Front(t \o u)
<1> DEFINE Grows(S) ==
      /\ \A t, u \in Seq(S) : u # <<>> => Front(t \o u) = t \o Front(u)
      /\ \A b, t, u \in Seq(S) : t # <<>> /\ u # <<>> =>
           ((b \o Front(t)) \o <<Last(t)>>) \o Front(u) = b \o Front(t \o u)
<1>1. ASSUME NEW S PROVE Grows(S)
  <2>1. ASSUME NEW t \in Seq(S), NEW u \in Seq(S), u # <<>> PROVE Front(t \o u) = t \o Front(u)
    BY <2>1, FrontConcat
  <2>2. ASSUME NEW b \in Seq(S), NEW t \in Seq(S), NEW u \in Seq(S), t # <<>>, u # <<>>
        PROVE  ((b \o Front(t)) \o <<Last(t)>>) \o Front(u) = b \o Front(t \o u)
    <3>1. (b \o Front(t)) \o <<Last(t)>> = b \o t
      BY <2>2, CacheGrows
    <3>2. (b \o t) \o Front(u) = b \o Front(t \o u)
      <4>1. Front(u) \in Seq(S) /\ Front(t \o u) = t \o Front(u)
        BY <2>2, FrontLast, FrontConcat
      <4> QED BY <4>1, ConcatAssociative
    <3> QED BY <3>1, <3>2
  <2> QED BY <2>1, <2>2
<1> HIDE DEF Grows
<1>2. Grows(Int)
  BY <1>1
<1> QED BY <1>2 DEF Grows

-----------------------------------------------------------------------------
(* The types.                                                              *)

LEMMA RankZero == 0 \in Ranks /\ 0 \notin Workers /\ Workers \subseteq Ranks
  BY ClusterAssumption DEF Ranks

LEMMA TokensInt == Tokens \subseteq Int /\ \A t \in Tokens : t \in Int
<1>1. Tokens \subseteq Nat
  BY ClusterAssumption
<1> QED BY <1>1

LEMMA BlockType ==
  ASSUME NEW b \in KeptBlocks
  PROVE  b \in Seq(Tokens) \ {<<>>} /\ Len(b) \in Nat \ {0}
<1>1. Block \in Nat
  BY ClusterAssumption
<1>2. PICK n \in 1..Block : b \in [1..n -> Tokens]
  BY DEF KeptBlocks, Blocks
<1>3. n \in Nat /\ n > 0
  BY <1>1, <1>2
<1>4. b \in Seq(Tokens)
  BY <1>2, <1>3
<1>5. Len(b) = n
  BY <1>2, <1>3
<1> QED BY <1>3, <1>4, <1>5

(* What the head sends is well-formed. *)
LEMMA FrameTypes ==
  ASSUME TypeOK
  PROVE  /\ \A t \in Tokens, stop \in BOOLEAN : HeadFrame("Decision", <<t>>, stop) \in Frames
         /\ HeadFrame("Draft", <<>>, FALSE) \in Frames
         /\ \A b \in KeptBlocks, stop \in BOOLEAN : HeadFrame("Accept", b, stop) \in Frames
         /\ \A b \in KeptBlocks : EndMarker(b) \in Frames
         /\ \A s \in Slots, save \in BOOLEAN : Op(save, s) \in Frames
         /\ [type |-> "Abort"] \in Frames /\ [type |-> "Shutdown"] \in Frames
         /\ [type |-> "RequestEnd", req |-> rank[0].req, ok |-> rank[0].ok,
             steps |-> Len(rank[0].tokens)] \in Frames
<1>1. rank[0] \in Generations
  BY RankZero DEF TypeOK
<1>2. rank[0].req \in Nat /\ Len(rank[0].tokens) \in Nat /\ rank[0].ok \in BOOLEAN
  BY <1>1 DEF Generations
<1>3. \A t \in Tokens, stop \in BOOLEAN : HeadFrame("Decision", <<t>>, stop) \in Decisions
  BY <1>2 DEF HeadFrame, Decisions
<1>4. HeadFrame("Draft", <<>>, FALSE) \in Decisions
  BY <1>2 DEF HeadFrame, Decisions
<1>5. \A b \in KeptBlocks, stop \in BOOLEAN : HeadFrame("Accept", b, stop) \in Decisions
  BY <1>2, BlockType DEF HeadFrame, Decisions
<1>6. ASSUME NEW b \in KeptBlocks PROVE EndMarker(b) \in Decisions
  <2>1. Len(b) \in Nat
    BY BlockType
  <2> DEFINE h == HeadFrame("Draft", <<>>, TRUE)
             D == [type : {"Draft"}, req : Nat, step : Nat, tokens : {<<>>}, stop : BOOLEAN]
  <2>2. h \in D
    BY <1>2 DEF HeadFrame
  <2> HIDE DEF h
  <2>3. [h EXCEPT !.step = @ + Len(b)] \in D
    BY <2>1, <2>2
  <2> QED BY <2>3 DEF EndMarker, h, Decisions
<1>7. \A s \in Slots, save \in BOOLEAN : Op(save, s) \in SnapshotOps
  BY DEF Op, SnapshotOps
<1>8. [type |-> "Abort"] \in Signals /\ [type |-> "Shutdown"] \in Signals
  BY DEF Signals
<1>9. [type |-> "RequestEnd", req |-> rank[0].req, ok |-> rank[0].ok,
       steps |-> Len(rank[0].tokens)] \in Ends
  BY <1>2 DEF Ends
<1> QED BY <1>3, <1>4, <1>5, <1>6, <1>7, <1>8, <1>9 DEF Frames

(* A broadcast reaches a worker's queue whole or, when its socket is       *)
(* closed, not at all. *)
LEMMA SentProps ==
  ASSUME TypeOK, NEW f \in Seq(Frames)
  PROVE  /\ Sent(f) \in [Workers -> Seq(Frames)]
         /\ \A w \in Workers : /\ closed(w) => Sent(f)[w] = chan[w]
                              /\ ~closed(w) => Sent(f)[w] = chan[w] \o f
<1>1. \A w \in Workers : chan[w] \in Seq(Frames) /\ chan[w] \o f \in Seq(Frames)
  BY DEF TypeOK
<1> QED BY <1>1 DEF Sent

(* A decision, draft or accept adopted. *)
LEMMA AdoptMoves ==
  ASSUME TypeOK, NEW i \in Ranks, NEW m \in Decisions, NEW kept \in Seq(Tokens),
         rank[i].pc \in {"decide", "draft", "accept"},
         rank[i].pc # "draft" => kept # <<>>, m.type = "Accept" => rank[i].pc = "accept",
         Adopt(i, m, kept)
  PROVE  /\ rank' \in [Ranks -> Generations] /\ \A j \in Ranks : WellFormed(rank'[j])
         /\ \A j \in Ranks \ {i} : rank'[j] = rank[j]
         /\ rank'[i].tokens = rank[i].tokens \o kept
         /\ rank'[i].req = rank[i].req /\ rank'[i].chunk = rank[i].chunk
         /\ rank'[i].inside = rank[i].inside /\ rank'[i].ok = rank[i].ok
         /\ rank'[i].snap = rank[i].snap /\ rank'[i].gathered = rank[i].gathered
         /\ rank'[i].pc \in {"forward", "draft", "verify", "end"}
         /\ m.stop => rank'[i].pc = "end"
         /\ rank'[i].tokens # <<>> /\ rank'[i].spec = rank[i].spec
         /\ rank'[i].pc = IF EndsAt(i, m, rank'[i].tokens) THEN "end"
                          ELSE IF rank[i].pc = "decide" THEN IF rank[i].spec THEN "draft" ELSE "forward"
                          ELSE IF rank[i].pc = "draft" THEN "verify" ELSE "draft"
<1> DEFINE r == rank[i]
           keep == [r EXCEPT !.tokens = @ \o kept]
           last == EndsAt(i, m, keep.tokens)
           next == After(keep, last)
<1>1. r \in Generations /\ r.tokens \in Seq(Tokens) /\ kv[i] \in Seq(Int)
  BY DEF TypeOK, Generations
<1>2. r.tokens \o kept \in Seq(Tokens)
  BY <1>1
<1>3. keep \in Generations /\ keep.tokens = r.tokens \o kept /\ keep.pc = r.pc
      /\ keep.req = r.req /\ keep.chunk = r.chunk /\ keep.inside = r.inside /\ keep.ok = r.ok
      /\ keep.snap = r.snap /\ keep.gathered = r.gathered /\ keep.spec = r.spec
  BY <1>1, <1>2 DEF Generations
<1>4. PICK p \in {"forward", "draft", "verify", "end"} :
         /\ next = [keep EXCEPT !.pc = p] /\ (last => p = "end")
         /\ ~last => p = IF r.pc = "decide" THEN IF r.spec THEN "draft" ELSE "forward"
                         ELSE IF r.pc = "draft" THEN "verify" ELSE "draft"
  BY <1>3 DEF After
<1>5. rank' = [rank EXCEPT ![i] = next]
  BY DEF Adopt
<1>6. p \in Places
  BY DEF Places, Forwards
<1>7. next \in Generations /\ next.tokens = r.tokens \o kept /\ next.pc = p
      /\ next.req = r.req /\ next.chunk = r.chunk /\ next.inside = r.inside /\ next.ok = r.ok
      /\ next.snap = r.snap /\ next.gathered = r.gathered /\ next.spec = r.spec
  BY <1>3, <1>4, <1>6 DEF Generations
<1>8. m.stop => last
  BY DEF EndsAt
<1>9. r.tokens \o kept # <<>>
  <2>1. kept = <<>> => r.tokens # <<>>
    BY DEF TypeOK, WellFormed
  <2> QED BY <2>1, <1>1, ConcatEqualIffEmpty
<1> HIDE DEF next, last, keep
<1>10. rank' \in [Ranks -> Generations] /\ rank'[i] = next /\ \A j \in Ranks \ {i} : rank'[j] = rank[j]
  BY <1>5, <1>7 DEF TypeOK
<1>11. last = EndsAt(i, m, rank'[i].tokens)
  BY <1>3, <1>7, <1>10 DEF last, EndsAt
<1>12. WellFormed(next)
  <2>1. ~r.inside /\ r.ok
    BY DEF TypeOK, WellFormed, Forwards
  <2> QED BY <2>1, <1>4, <1>7, <1>9 DEF WellFormed
<1>13. \A j \in Ranks : WellFormed(rank'[j])
  BY <1>10, <1>12 DEF TypeOK
<1> QED BY <1>4, <1>7, <1>8, <1>9, <1>10, <1>11, <1>13

(* Its cache, and whether it can be saved. *)
LEMMA AdoptProps ==
  ASSUME TypeOK, NEW i \in Ranks, NEW m \in Decisions, NEW kept \in Seq(Tokens),
         rank[i].pc \in {"decide", "draft", "accept"},
         rank[i].pc # "draft" => kept # <<>>, m.type = "Accept" => rank[i].pc = "accept",
         Adopt(i, m, kept)
  PROVE  /\ rank' \in [Ranks -> Generations] /\ kv' \in [Ranks -> Seq(Int)]
         /\ saveable' \in [Ranks -> BOOLEAN] /\ \A j \in Ranks : WellFormed(rank'[j])
         /\ \A j \in Ranks \ {i} : rank'[j] = rank[j] /\ kv'[j] = kv[j]
         /\ rank'[i].tokens = rank[i].tokens \o kept
         /\ rank'[i].req = rank[i].req /\ rank'[i].chunk = rank[i].chunk
         /\ rank'[i].inside = rank[i].inside /\ rank'[i].ok = rank[i].ok
         /\ rank'[i].snap = rank[i].snap /\ rank'[i].gathered = rank[i].gathered
         /\ rank'[i].pc \in {"forward", "draft", "verify", "end"}
         /\ m.stop => rank'[i].pc = "end"
         /\ kv'[i] = IF m.type = "Accept" THEN (kv[i] \o <<Last(rank[i].tokens)>>) \o Front(m.tokens)
                     ELSE kv[i]
         /\ rank'[i].tokens # <<>> /\ rank'[i].spec = rank[i].spec
         /\ rank'[i].pc = IF EndsAt(i, m, rank'[i].tokens) THEN "end"
                          ELSE IF rank[i].pc = "decide" THEN IF rank[i].spec THEN "draft" ELSE "forward"
                          ELSE IF rank[i].pc = "draft" THEN "verify" ELSE "draft"
         /\ saveable'[i] = IF m.type = "Decision" THEN EndsAt(i, m, rank'[i].tokens) \/ ~rank[i].spec ELSE saveable[i]
<1>1. rank[i] \in Generations /\ rank[i].tokens \in Seq(Tokens) /\ kv[i] \in Seq(Int)
  BY DEF TypeOK, Generations
<1>2. m.type = "Accept" => (kv[i] \o <<Last(rank[i].tokens)>>) \o Front(m.tokens) \in Seq(Int)
  <2> SUFFICES ASSUME m.type = "Accept"
               PROVE  (kv[i] \o <<Last(rank[i].tokens)>>) \o Front(m.tokens) \in Seq(Int)
    OBVIOUS
  <2>1. rank[i].tokens # <<>>
    BY DEF TypeOK, WellFormed
  <2>2. Last(rank[i].tokens) \in Tokens
    BY <2>1, <1>1, FrontLast
  <2>3. m.tokens \in Seq(Tokens) /\ m.tokens # <<>>
    BY DEF Decisions
  <2>4. Front(m.tokens) \in Seq(Tokens)
    BY <2>3, FrontLast
  <2>5. Tokens \subseteq Int
    BY TokensInt
  <2>6. <<Last(rank[i].tokens)>> \in Seq(Int) /\ Front(m.tokens) \in Seq(Int)
    BY <2>2, <2>4, <2>5, SeqWidens
  <2>7. kv[i] \o <<Last(rank[i].tokens)>> \in Seq(Int)
    BY <2>6, <1>1, ConcatProperties
  <2> QED BY <2>6, <2>7, ConcatProperties
<1>3. /\ kv' \in [Ranks -> Seq(Int)] /\ \A j \in Ranks \ {i} : kv'[j] = kv[j]
      /\ kv'[i] = IF m.type = "Accept" THEN (kv[i] \o <<Last(rank[i].tokens)>>) \o Front(m.tokens)
                  ELSE kv[i]
  <2>1. CASE m.type = "Accept"
    <3>1. kv' = [kv EXCEPT ![i] = (@ \o <<Last(rank[i].tokens)>>) \o Front(m.tokens)]
      BY <2>1 DEF Adopt
    <3> QED BY <3>1, <2>1, <1>2 DEF TypeOK
  <2>2. CASE m.type # "Accept"
    <3>1. kv' = kv
      BY <2>2 DEF Adopt
    <3> QED BY <3>1, <2>2 DEF TypeOK
  <2> QED BY <2>1, <2>2
<1>4. /\ rank' \in [Ranks -> Generations] /\ \A j \in Ranks : WellFormed(rank'[j])
      /\ \A j \in Ranks \ {i} : rank'[j] = rank[j]
      /\ rank'[i].tokens = rank[i].tokens \o kept
      /\ rank'[i].req = rank[i].req /\ rank'[i].chunk = rank[i].chunk
      /\ rank'[i].inside = rank[i].inside /\ rank'[i].ok = rank[i].ok
      /\ rank'[i].snap = rank[i].snap /\ rank'[i].gathered = rank[i].gathered
      /\ rank'[i].pc \in {"forward", "draft", "verify", "end"}
      /\ m.stop => rank'[i].pc = "end"
      /\ rank'[i].tokens # <<>> /\ rank'[i].spec = rank[i].spec
      /\ rank'[i].pc = IF EndsAt(i, m, rank'[i].tokens) THEN "end"
                       ELSE IF rank[i].pc = "decide" THEN IF rank[i].spec THEN "draft" ELSE "forward"
                       ELSE IF rank[i].pc = "draft" THEN "verify" ELSE "draft"
  BY AdoptMoves
<1>5. /\ saveable' \in [Ranks -> BOOLEAN]
      /\ saveable'[i] = IF m.type = "Decision" THEN EndsAt(i, m, rank'[i].tokens) \/ ~rank[i].spec ELSE saveable[i]
  <2> DEFINE keep == [rank[i] EXCEPT !.tokens = @ \o kept]
             last == EndsAt(i, m, keep.tokens)
  <2>1. saveable' = [saveable EXCEPT ![i] = IF m.type = "Decision" THEN last \/ ~rank[i].spec ELSE @]
    BY DEF Adopt
  <2>2. keep.tokens = rank'[i].tokens
    BY <1>1, <1>4 DEF Generations
  <2> HIDE DEF keep, last
  <2>3. last = EndsAt(i, m, rank'[i].tokens) /\ last \in BOOLEAN
    BY <2>2 DEF last, EndsAt
  <2>4. rank[i].spec \in BOOLEAN
    BY <1>1 DEF Generations
  <2>5. PICK x \in BOOLEAN : x = IF m.type = "Decision" THEN last \/ ~rank[i].spec ELSE saveable[i]
    BY <2>3, <2>4 DEF TypeOK
  <2>6. saveable' = [saveable EXCEPT ![i] = x]
    BY <2>1, <2>5
  <2>7. saveable' \in [Ranks -> BOOLEAN] /\ saveable'[i] = x
    BY <2>6 DEF TypeOK
  <2> QED BY <2>3, <2>5, <2>7
<1> QED BY <1>3, <1>4, <1>5

(* A rank's request changes, and no other's. *)
LEMMA RankMoves ==
  ASSUME TypeOK, NEW i \in Ranks, NEW r \in Generations, WellFormed(r), rank' = [rank EXCEPT ![i] = r]
  PROVE  /\ rank' \in [Ranks -> Generations] /\ \A j \in Ranks : WellFormed(rank'[j])
         /\ rank'[i] = r /\ \A j \in Ranks \ {i} : rank'[j] = rank[j]
<1>1. /\ rank' \in [Ranks -> Generations] /\ rank'[i] = r
      /\ \A j \in Ranks \ {i} : rank'[j] = rank[j]
  BY DEF TypeOK
<1> QED BY <1>1 DEF TypeOK

LEMMA RankTypes ==
  ASSUME TypeOK, NEW i \in Ranks
  PROVE  /\ rank[i] \in Generations /\ WellFormed(rank[i])
         /\ rank[i].pc \in Places /\ rank[i].req \in Nat /\ rank[i].chunk \in 0..Chunks
         /\ rank[i].inside \in BOOLEAN /\ rank[i].ok \in BOOLEAN /\ rank[i].snap \in SlotOrNone
         /\ rank[i].tokens \in Seq(Tokens) /\ rank[i].gathered \in SUBSET Workers
         /\ kv[i] \in Seq(Int) /\ snaps[i] \in [Slots -> Seq(Int)] /\ aborted[i] \in BOOLEAN
  BY DEF TypeOK, Generations

(* A rank's request fails. *)
LEMMA FailedProps ==
  ASSUME TypeOK, NEW i \in Ranks, Failed(i)
  PROVE  /\ rank' \in [Ranks -> Generations] /\ \A j \in Ranks : WellFormed(rank'[j])
         /\ \A j \in Ranks \ {i} : rank'[j] = rank[j]
         /\ rank'[i].pc = "end" /\ rank'[i].ok = FALSE /\ rank'[i].inside = FALSE
         /\ rank'[i].req = rank[i].req /\ rank'[i].chunk = rank[i].chunk
         /\ rank'[i].snap = rank[i].snap /\ rank'[i].tokens = rank[i].tokens
         /\ rank'[i].gathered = rank[i].gathered /\ rank'[i].spec = rank[i].spec
<1> DEFINE r == [rank[i] EXCEPT !.pc = "end", !.ok = FALSE, !.inside = FALSE]
<1>1. r \in Generations /\ r.pc = "end" /\ r.ok = FALSE /\ r.inside = FALSE
      /\ r.req = rank[i].req /\ r.chunk = rank[i].chunk
      /\ r.snap = rank[i].snap /\ r.tokens = rank[i].tokens /\ r.gathered = rank[i].gathered
      /\ r.spec = rank[i].spec
  BY RankTypes DEF Generations, Places
<1>2. rank' = [rank EXCEPT ![i] = r]
  BY DEF Failed
<1> HIDE DEF r
<1>3. WellFormed(r)
  BY <1>1 DEF WellFormed
<1> QED BY <1>1, <1>2, <1>3, RankMoves

(* The head returns. *)
LEMMA ReturnProps ==
  ASSUME TypeOK, NEW ok \in BOOLEAN, rank[0].pc \in {"end", "gather"}, Return(ok)
  PROVE  /\ rank' \in [Ranks -> Generations] /\ \A j \in Ranks : WellFormed(rank'[j])
         /\ \A j \in Ranks \ {0} : rank'[j] = rank[j]
         /\ rank'[0].pc = "idle" /\ rank'[0].inside = rank[0].inside
<1> DEFINE r == [rank[0] EXCEPT !.pc = "idle", !.ok = ok]
<1>0. rank[0] \in Generations
  BY RankTypes, RankZero
<1>1. r \in Generations /\ r.pc = "idle" /\ r.ok = ok /\ r.inside = rank[0].inside
  BY <1>0 DEF Generations, Places
<1>2. rank' = [rank EXCEPT ![0] = r]
  BY DEF Return
<1> HIDE DEF r
<1>3. WellFormed(r)
  <2>1. ~rank[0].inside
    BY RankTypes, RankZero DEF WellFormed, Forwards
  <2> QED BY <2>1, <1>1 DEF WellFormed
<1> QED BY <1>1, <1>2, <1>3, RankMoves, RankZero

(* A request begins on a rank. *)
LEMMA BeginProps ==
  ASSUME TypeOK, NEW i \in Ranks, NEW m \in Starts, Begin(i, m)
  PROVE  /\ rank' \in [Ranks -> Generations] /\ \A j \in Ranks : WellFormed(rank'[j])
         /\ kv' \in [Ranks -> Seq(Int)] /\ saveable' \in [Ranks -> BOOLEAN]
         /\ \A j \in Ranks \ {i} : rank'[j] = rank[j] /\ kv'[j] = kv[j]
         /\ rank'[i].req = m.req /\ rank'[i].chunk = 0 /\ rank'[i].inside = FALSE
         /\ rank'[i].snap = m.snap /\ rank'[i].tokens = <<>> /\ rank'[i].gathered = {}
         /\ rank'[i].spec = m.spec
         /\ \/ /\ m.restore # None /\ m.restore[1] \in Slots /\ snaps[i][m.restore[1]] = None
               /\ rank'[i].pc = "end" /\ rank'[i].ok = FALSE
            \/ /\ rank'[i].pc = "prefill" /\ rank'[i].ok = TRUE
               /\ m.restore = None => kv'[i] = <<>>
               /\ m.restore # None =>
                    /\ m.restore[1] \in Slots /\ snaps[i][m.restore[1]] # None
                    /\ kv'[i] = snaps[i][m.restore[1]]
<1> DEFINE r == [Idle EXCEPT !.pc = "prefill", !.req = m.req, !.snap = m.snap, !.spec = m.spec]
           f == [r EXCEPT !.pc = "end", !.ok = FALSE]
           old == IF m.restore # None THEN snaps[i][m.restore[1]] ELSE <<>>
<1>1. m.req \in Nat /\ m.snap \in SlotOrNone /\ m.restore \in SlotOrNone /\ m.spec \in BOOLEAN
  BY DEF Starts
<1>2. m.restore # None => m.restore[1] \in Slots
  BY <1>1 DEF SlotOrNone
<1>3. old \in Seq(Int)
  BY <1>2, RankTypes
<1>4. Idle \in Generations
  BY ClusterAssumption DEF Idle, Generations, Places, SlotOrNone
<1>5. r \in Generations /\ r.pc = "prefill" /\ r.req = m.req /\ r.snap = m.snap /\ r.chunk = 0
      /\ r.inside = FALSE /\ r.ok = TRUE /\ r.tokens = <<>> /\ r.gathered = {} /\ r.spec = m.spec
  BY <1>1, <1>4 DEF Idle, Generations, Places, Forwards
<1>6. f \in Generations /\ f.pc = "end" /\ f.req = m.req /\ f.snap = m.snap /\ f.chunk = 0
      /\ f.inside = FALSE /\ f.ok = FALSE /\ f.tokens = <<>> /\ f.gathered = {} /\ f.spec = m.spec
  BY <1>5 DEF Generations, Places
<1>7. WellFormed(r) /\ WellFormed(f)
  BY <1>5, <1>6 DEF WellFormed
<1>8. CASE m.restore # None /\ old = None
  <2>1. rank' = [rank EXCEPT ![i] = f] /\ kv' = kv /\ saveable' = saveable
    BY <1>8 DEF Begin
  <2>2. snaps[i][m.restore[1]] = None
    BY <1>8
  <2> HIDE DEF r, f, old
  <2> QED BY <2>1, <2>2, <1>2, <1>6, <1>7, <1>8, RankMoves DEF TypeOK
<1>9. CASE ~(m.restore # None /\ old = None)
  <2>1. /\ rank' = [rank EXCEPT ![i] = r] /\ kv' = [kv EXCEPT ![i] = old]
        /\ saveable' = [saveable EXCEPT ![i] = (m.restore # None)]
    BY <1>9 DEF Begin
  <2>2. /\ m.restore = None => old = <<>>
        /\ m.restore # None => snaps[i][m.restore[1]] # None /\ old = snaps[i][m.restore[1]]
    BY <1>9
  <2> HIDE DEF r, f, old
  <2>3. /\ kv' \in [Ranks -> Seq(Int)] /\ saveable' \in [Ranks -> BOOLEAN] /\ kv'[i] = old
        /\ \A j \in Ranks \ {i} : kv'[j] = kv[j]
    BY <2>1, <1>3 DEF TypeOK
  <2>4. /\ rank' \in [Ranks -> Generations] /\ \A j \in Ranks : WellFormed(rank'[j])
        /\ rank'[i] = r /\ \A j \in Ranks \ {i} : rank'[j] = rank[j]
    BY <2>1, <1>5, <1>7, RankMoves
  <2> QED BY <2>2, <2>3, <2>4, <1>2, <1>5
<1> QED BY <1>8, <1>9

(* A process goes. *)
LEMMA WorkerGoneProps ==
  ASSUME TypeOK, NEW w \in Workers, NEW sent \in Seq(Reports), WorkerGone(w, sent)
  PROVE  /\ proc' \in [Ranks -> {"up", "frozen", "exited"}]
         /\ chan' \in [Workers -> Seq(Frames)] /\ back' \in [Workers -> Seq(Reports)]
         /\ proc'[w] = "exited" /\ chan'[w] = <<>>
         /\ Range(back'[w]) \subseteq Range(back[w]) \cup Range(sent)
         /\ \A v \in Workers \ {w} : chan'[v] = chan[v] /\ back'[v] = back[v]
         /\ \A i \in Ranks \ {w} : proc'[i] = proc[i]
<1>1. back[w] \in Seq(Reports) /\ back[w] \o sent \in Seq(Reports)
      /\ Range(back[w] \o sent) = Range(back[w]) \cup Range(sent)
  <2>1. back[w] \in Seq(Reports)
    BY DEF TypeOK
  <2> QED BY <2>1, ConcatProps
<1>2. PICK n \in {0, 1} : back' = [back EXCEPT ![w] = CutTo(@ \o sent, n)]
  BY DEF WorkerGone
<1>3. /\ CutTo(back[w] \o sent, n) \in Seq(Reports)
      /\ Range(CutTo(back[w] \o sent, n)) \subseteq Range(back[w]) \cup Range(sent)
  <2>1. n \in Nat
    BY <1>2
  <2> QED BY <2>1, <1>1, CutProps
<1>4. w \in Ranks
  BY RankZero
<1>5. /\ proc' \in [Ranks -> {"up", "frozen", "exited"}] /\ proc'[w] = "exited"
      /\ \A i \in Ranks \ {w} : proc'[i] = proc[i]
  BY <1>4 DEF TypeOK, WorkerGone
<1>6. /\ chan' \in [Workers -> Seq(Frames)] /\ chan'[w] = <<>>
      /\ \A v \in Workers \ {w} : chan'[v] = chan[v]
  BY DEF TypeOK, WorkerGone
<1>7. /\ back' \in [Workers -> Seq(Reports)] /\ back'[w] = CutTo(back[w] \o sent, n)
      /\ \A v \in Workers \ {w} : back'[v] = back[v]
  BY <1>2, <1>3 DEF TypeOK
<1> QED BY <1>3, <1>5, <1>6, <1>7

LEMMA HeadGoneProps ==
  ASSUME TypeOK, NEW lossy \in BOOLEAN, HeadGone(lossy)
  PROVE  /\ proc' \in [Ranks -> {"up", "frozen", "exited"}]
         /\ chan' \in [Workers -> Seq(Frames)] /\ back' \in [Workers -> Seq(Reports)]
         /\ proc'[0] = "exited"
         /\ \A w \in Workers : Range(chan'[w]) \subseteq Range(chan[w])
<1>1. /\ proc' \in [Ranks -> {"up", "frozen", "exited"}] /\ proc'[0] = "exited"
      /\ back' \in [Workers -> Seq(Reports)]
  BY RankZero DEF TypeOK, HeadGone
<1>2. CASE lossy
  <2>1. PICK n \in [Workers -> 0..3] : chan' = [w \in Workers |-> CutTo(chan[w], n[w])]
    BY <1>2 DEF HeadGone
  <2>2. ASSUME NEW w \in Workers
        PROVE  CutTo(chan[w], n[w]) \in Seq(Frames) /\ Range(CutTo(chan[w], n[w])) \subseteq Range(chan[w])
    <3>1. chan[w] \in Seq(Frames)
      BY DEF TypeOK
    <3>2. n[w] \in Nat
      OBVIOUS
    <3> QED BY <3>1, <3>2, CutProps
  <2> QED BY <1>1, <2>1, <2>2
<1>3. CASE ~lossy
  BY <1>1, <1>3 DEF HeadGone, TypeOK
<1> QED BY <1>2, <1>3

(* The head gives up. *)
LEMMA FatalExitProps ==
  ASSUME TypeOK, FatalExit
  PROVE  exiting' = TRUE /\ aborted' \in [Ranks -> BOOLEAN] /\ chan' \in [Workers -> Seq(Frames)]
         /\ \A i \in Ranks : aborted[i] => aborted'[i]
<1>1. CASE exiting
  BY <1>1 DEF FatalExit, TypeOK
<1>2. CASE ~exiting
  <2>1. <<[type |-> "Abort"]>> \in Seq(Frames)
    BY FrameTypes
  <2>2. Sent(<<[type |-> "Abort"]>>) \in [Workers -> Seq(Frames)]
    BY <2>1, SentProps
  <2> QED BY <2>2, <1>2, RankZero DEF FatalExit, TypeOK
<1> QED BY <1>1, <1>2

(* A worker takes the first frame of its queue. *)
LEMMA ConsumesProps ==
  ASSUME TypeOK, NEW w \in Workers, chan[w] # <<>>, Consumes(w)
  PROVE  /\ chan' \in [Workers -> Seq(Frames)] /\ chan'[w] = Tail(chan[w])
         /\ \A v \in Workers \ {w} : chan'[v] = chan[v]
<1>1. chan[w] \in Seq(Frames)
  BY DEF TypeOK
<1>2. Tail(chan[w]) \in Seq(Frames)
  BY <1>1, TailProps
<1> QED BY <1>2 DEF Consumes, TypeOK
-----------------------------------------------------------------------------
(* The forwards.                                                           *)

(* Counting from the last rank takes the same from every count. *)
LEMMA RelativeProps ==
  ASSUME NEW n \in [Ranks -> {0, 1}]
  PROVE  \E c \in {0, 1} : /\ Relative(n) = [j \in Ranks |-> n[j] - c]
                           /\ \A j \in Ranks : c <= n[j]
                           /\ \E j \in Ranks : n[j] = c
<1> DEFINE Behind(j) == \A k \in Ranks : n[j] <= n[k]
           behind == CHOOSE j \in Ranks : Behind(j)
<1>1. \E j \in Ranks : Behind(j)
  <2>1. CASE \E j \in Ranks : n[j] = 0
    BY <2>1
  <2>2. CASE \A j \in Ranks : n[j] # 0
    <3>1. \A j \in Ranks : n[j] = 1
      BY <2>2
    <3> QED BY <3>1, RankZero
  <2> QED BY <2>1, <2>2
<1>2. behind \in Ranks /\ Behind(behind)
  BY <1>1
<1>3. Relative(n) = [j \in Ranks |-> n[j] - n[behind]]
  BY DEF Relative
<1> HIDE DEF behind
<1>4. n[behind] \in {0, 1}
  BY <1>2
<1> QED BY <1>2, <1>3, <1>4

LEMMA EnterForwardDoes ==
  ASSUME TypeOK, Lockstep, NEW i \in Ranks, EnterForward(i)
  PROVE  /\ TypeOK' /\ Lockstep'
         /\ \A j \in Ranks \ {i} : rank'[j] = rank[j]
         /\ rank'[i].req = rank[i].req /\ rank'[i].tokens = rank[i].tokens
         /\ rank'[i].snap = rank[i].snap /\ rank'[i].chunk = rank[i].chunk
         /\ rank'[i].gathered = rank[i].gathered /\ rank'[i].spec = rank[i].spec
         /\ rank[i].pc \in Forwards /\ ~rank[i].inside
         /\ \/ aborted[i] /\ rank'[i].pc = "end" /\ rank'[i].ok = FALSE /\ entered' = entered
            \/ /\ ~aborted[i] /\ rank'[i].pc = rank[i].pc /\ rank'[i].ok = rank[i].ok
               /\ rank'[i].inside = TRUE /\ entered[i] = 0
               /\ \E c \in {0, 1} : /\ entered'[i] = 1 - c
                                    /\ \A j \in Ranks \ {i} : entered'[j] = entered[j] - c
<1> DEFINE r == [rank[i] EXCEPT !.inside = TRUE]
           n == [entered EXCEPT ![i] = @ + 1]
<1>1. /\ rank[i].pc \in Forwards /\ ~rank[i].inside
      /\ rank[i].pc = "prefill" => rank[i].chunk < Chunks
      /\ UNCHANGED <<kv, saveable, snaps, proc, aborted, chan, back, exiting, requests>>
  BY DEF EnterForward, data, links, counts
<1>2. CASE aborted[i]
  <2>1. Failed(i) /\ entered' = entered
    BY <1>2 DEF EnterForward
  <2>2. TypeOK'
    BY <2>1, <1>1, FailedProps DEF TypeOK
  <2>3. Lockstep'
    <3>1. \A j \in Ranks : ~rank'[j].inside /\ ~aborted[j] => ~rank[j].inside
      BY <2>1, <1>2, FailedProps
    <3> QED BY <3>1, <2>1, <1>1 DEF Lockstep
  <2> QED BY <2>1, <2>2, <2>3, <1>1, <1>2, FailedProps
<1>3. CASE ~aborted[i]
  <2>1. rank' = [rank EXCEPT ![i] = r] /\ entered' = Relative(n)
    BY <1>3 DEF EnterForward
  <2>2. rank[i] \in Generations /\ WellFormed(rank[i])
    BY RankTypes
  <2>3. r \in Generations /\ r.pc = rank[i].pc /\ r.inside = TRUE /\ r.ok = rank[i].ok
        /\ r.req = rank[i].req /\ r.chunk = rank[i].chunk
        /\ r.snap = rank[i].snap /\ r.tokens = rank[i].tokens /\ r.gathered = rank[i].gathered
        /\ r.spec = rank[i].spec
    BY <2>2 DEF Generations
  <2> HIDE DEF r
  <2>4. WellFormed(r)
    BY <2>2, <2>3, <1>1 DEF WellFormed
  <2>5. /\ rank' \in [Ranks -> Generations] /\ \A j \in Ranks : WellFormed(rank'[j])
        /\ rank'[i] = r /\ \A j \in Ranks \ {i} : rank'[j] = rank[j]
    BY <2>1, <2>3, <2>4, RankMoves
  <2>6. entered[i] = 0
    BY <1>1, <1>3 DEF Lockstep
  <2>7. n \in [Ranks -> {0, 1}] /\ n[i] = 1 /\ \A j \in Ranks \ {i} : n[j] = entered[j]
    BY <2>6 DEF Lockstep
  <2> HIDE DEF n
  <2>8. PICK c \in {0, 1} : /\ Relative(n) = [j \in Ranks |-> n[j] - c]
                            /\ \A j \in Ranks : c <= n[j]
                            /\ \E j \in Ranks : n[j] = c
    BY <2>7, RelativeProps
  <2>9. /\ entered' \in [Ranks -> {0, 1}] /\ \E j \in Ranks : entered'[j] = 0
        /\ \A j \in Ranks : entered'[j] = n[j] - c
    <3>1. \A j \in Ranks : n[j] \in {0, 1} /\ c <= n[j]
      BY <2>7, <2>8
    <3>2. \A j \in Ranks : n[j] - c \in {0, 1}
      BY <3>1, <2>8
    <3>3. PICK k \in Ranks : n[k] = c
      BY <2>8
    <3>4. entered' = [j \in Ranks |-> n[j] - c]
      BY <2>1, <2>8
    <3>5. entered'[k] = 0
      BY <3>3, <3>4, <2>8
    <3> QED BY <3>2, <3>4, <3>5
  <2>10. ASSUME NEW j \in Ranks, ~rank'[j].inside, ~aborted'[j]
         PROVE  entered'[j] = 0
    <3>1. j # i
      BY <2>10, <2>3, <2>5
    <3>2. n[j] = 0
      BY <3>1, <2>10, <2>5, <2>7, <1>1 DEF Lockstep
    <3>3. c = 0
      BY <3>2, <2>8
    <3> QED BY <3>2, <3>3, <2>9
  <2>11. Lockstep'
    BY <2>9, <2>10 DEF Lockstep
  <2>12. TypeOK'
    BY <2>5, <1>1 DEF TypeOK
  <2>13. entered'[i] = 1 - c /\ \A j \in Ranks \ {i} : entered'[j] = entered[j] - c
    BY <2>7, <2>9
  <2> QED BY <2>3, <2>5, <2>6, <2>11, <2>12, <2>13, <1>1, <1>3
<1> QED BY <1>2, <1>3

LEMMA LeaveForwardDoes ==
  ASSUME TypeOK, Lockstep, NEW i \in Ranks, LeaveForward(i)
  PROVE  /\ TypeOK' /\ Lockstep' /\ entered[i] = 0
         /\ \A j \in Ranks \ {i} : rank'[j] = rank[j] /\ kv'[j] = kv[j] /\ snaps'[j] = snaps[j]
         /\ rank'[i].req = rank[i].req /\ rank'[i].tokens = rank[i].tokens
         /\ rank'[i].snap = rank[i].snap /\ rank'[i].gathered = rank[i].gathered
         /\ rank'[i].spec = rank[i].spec
         /\ rank'[i].ok = rank[i].ok /\ rank[i].ok /\ rank[i].inside /\ rank'[i].inside = FALSE
         /\ \/ /\ rank[i].pc = "prefill" /\ rank'[i].pc = "prefill" /\ rank[i].chunk < Chunks
               /\ rank'[i].chunk = rank[i].chunk + 1 /\ saveable'[i] = TRUE
               /\ IF rank[i].chunk + 1 = Chunks
                  THEN /\ kv'[i] = Append(kv[i], - rank[i].req)
                       /\ rank[i].snap = None => snaps' = snaps
                       /\ rank[i].snap # None =>
                            /\ snaps'[i][rank[i].snap[1]] \in {None, kv'[i]}
                            /\ \A s \in Slots : s # rank[i].snap[1] => snaps'[i][s] = snaps[i][s]
                  ELSE kv' = kv /\ snaps' = snaps
            \/ /\ rank[i].pc = "forward" /\ rank'[i].pc = "decide" /\ rank'[i].chunk = rank[i].chunk
               /\ kv'[i] = Append(kv[i], Last(rank[i].tokens)) /\ snaps' = snaps /\ saveable'[i] = FALSE
            \/ /\ rank[i].pc = "verify" /\ rank'[i].pc = "accept" /\ rank'[i].chunk = rank[i].chunk
               /\ kv' = kv /\ snaps' = snaps /\ saveable'[i] = saveable[i]
<1> DEFINE r == rank[i]
           last == r.pc = "prefill" /\ r.chunk + 1 = Chunks
           fed == IF last THEN Append(kv[i], - r.req)
                  ELSE IF r.pc = "forward" THEN Append(kv[i], Last(r.tokens)) ELSE kv[i]
           next == CASE r.pc = "prefill" -> "prefill" [] r.pc = "forward" -> "decide"
                     [] r.pc = "verify" -> "accept"
           q == [r EXCEPT !.inside = FALSE, !.pc = next,
                          !.chunk = IF r.pc = "prefill" THEN @ + 1 ELSE @]
<1>1. /\ r.inside /\ \A j \in Ranks : entered[j] >= entered[i]
      /\ kv' = [kv EXCEPT ![i] = fed] /\ rank' = [rank EXCEPT ![i] = q]
      /\ saveable' = [saveable EXCEPT ![i] = IF r.pc = "prefill" THEN TRUE
                                             ELSE IF r.pc = "forward" THEN FALSE ELSE @]
      /\ UNCHANGED <<proc, entered, aborted, chan, back, exiting, requests>>
  BY DEF LeaveForward, links, counts
<1>2. /\ last /\ r.snap # None =>
            \E saved \in BOOLEAN :
               snaps' = [snaps EXCEPT ![i][r.snap[1]] = IF saved THEN fed ELSE None]
      /\ ~(last /\ r.snap # None) => snaps' = snaps
  BY DEF LeaveForward, SaveResults
<1>3. r \in Generations /\ WellFormed(r) /\ kv[i] \in Seq(Int) /\ r.tokens \in Seq(Tokens)
      /\ r.req \in Nat /\ r.chunk \in 0..Chunks /\ r.snap \in SlotOrNone /\ r.pc \in Places
  BY RankTypes
<1>4. /\ r.pc \in Forwards /\ r.ok /\ (r.pc = "prefill" => r.chunk < Chunks)
      /\ r.pc \in {"forward", "verify"} => r.tokens # <<>>
  BY <1>1, <1>3 DEF WellFormed, Forwards
<1>5. entered[i] = 0
  BY <1>1 DEF Lockstep
<1>6. fed \in Seq(Int)
  <2>1. - r.req \in Int
    BY <1>3
  <2>2. Append(kv[i], - r.req) \in Seq(Int)
    BY <2>1, <1>3
  <2>3. r.pc = "forward" => Append(kv[i], Last(r.tokens)) \in Seq(Int)
    <3> SUFFICES ASSUME r.pc = "forward" PROVE Append(kv[i], Last(r.tokens)) \in Seq(Int)
      OBVIOUS
    <3>1. Last(r.tokens) \in Tokens
      BY <1>3, <1>4, FrontLast
    <3>2. Last(r.tokens) \in Int
      BY <3>1, TokensInt
    <3> QED BY <3>2, <1>3
  <2> QED BY <2>2, <2>3, <1>3
<1>7. Chunks \in Nat \ {0}
  BY ClusterAssumption
<1>8. /\ q \in Generations /\ q.inside = FALSE /\ q.req = r.req /\ q.tokens = r.tokens
      /\ q.snap = r.snap /\ q.gathered = r.gathered /\ q.ok = r.ok /\ q.spec = r.spec
      /\ r.pc = "prefill" => q.pc = "prefill" /\ q.chunk = r.chunk + 1
      /\ r.pc = "forward" => q.pc = "decide" /\ q.chunk = r.chunk
      /\ r.pc = "verify" => q.pc = "accept" /\ q.chunk = r.chunk
  <2>1. CASE r.pc = "prefill"
    <3>1. r.chunk + 1 \in 0..Chunks
      BY <2>1, <1>3, <1>4, <1>7
    <3>2. q = [r EXCEPT !.inside = FALSE, !.pc = "prefill", !.chunk = r.chunk + 1]
      BY <2>1
    <3> HIDE DEF q
    <3> QED BY <3>1, <3>2, <2>1, <1>3 DEF Generations, Places, Forwards
  <2>2. CASE r.pc = "forward"
    <3>1. q = [r EXCEPT !.inside = FALSE, !.pc = "decide", !.chunk = r.chunk]
      BY <2>2
    <3> HIDE DEF q
    <3> QED BY <3>1, <2>2, <1>3 DEF Generations, Places, Forwards
  <2>3. CASE r.pc = "verify"
    <3>1. q = [r EXCEPT !.inside = FALSE, !.pc = "accept", !.chunk = r.chunk]
      BY <2>3
    <3> HIDE DEF q
    <3> QED BY <3>1, <2>3, <1>3 DEF Generations, Places, Forwards
  <2> QED BY <2>1, <2>2, <2>3, <1>4 DEF Forwards
<1> HIDE DEF q, next
<1>9. WellFormed(q)
  BY <1>3, <1>4, <1>8 DEF WellFormed, Forwards
<1>10. /\ rank' \in [Ranks -> Generations] /\ \A j \in Ranks : WellFormed(rank'[j])
       /\ rank'[i] = q /\ \A j \in Ranks \ {i} : rank'[j] = rank[j]
  BY <1>1, <1>8, <1>9, RankMoves
<1>11. kv' \in [Ranks -> Seq(Int)] /\ kv'[i] = fed /\ \A j \in Ranks \ {i} : kv'[j] = kv[j]
  BY <1>1, <1>6 DEF TypeOK
<1>12. /\ saveable' \in [Ranks -> BOOLEAN]
       /\ saveable'[i] = IF r.pc = "prefill" THEN TRUE ELSE IF r.pc = "forward" THEN FALSE ELSE saveable[i]
  BY <1>1 DEF TypeOK
<1>13. /\ snaps' \in [Ranks -> [Slots -> Seq(Int)]] /\ \A j \in Ranks \ {i} : snaps'[j] = snaps[j]
       /\ last /\ r.snap # None =>
            /\ snaps'[i][r.snap[1]] \in {None, fed}
            /\ \A s \in Slots : s # r.snap[1] => snaps'[i][s] = snaps[i][s]
  <2>1. CASE last /\ r.snap # None
    <3>1. PICK saved \in BOOLEAN :
            snaps' = [snaps EXCEPT ![i][r.snap[1]] = IF saved THEN fed ELSE None]
      BY <2>1, <1>2
    <3>2. r.snap[1] \in Slots
      BY <2>1, <1>3 DEF SlotOrNone
    <3>3. PICK x \in Seq(Int) : x \in {None, fed} /\ snaps' = [snaps EXCEPT ![i][r.snap[1]] = x]
      <4>1. None \in Seq(Int)
        BY DEF None
      <4> QED BY <3>1, <4>1, <1>6
    <3> HIDE DEF fed, last
    <3>4. snaps \in [Ranks -> [Slots -> Seq(Int)]]
      BY DEF TypeOK
    <3> QED BY <3>2, <3>3, <3>4
  <2>2. CASE ~(last /\ r.snap # None)
    BY <2>2, <1>2 DEF TypeOK
  <2> QED BY <2>1, <2>2
<1>14. TypeOK'
  BY <1>1, <1>10, <1>11, <1>12, <1>13 DEF TypeOK
<1>15. Lockstep'
  <2>1. \A j \in Ranks : ~rank'[j].inside /\ ~aborted[j] => entered[j] = 0
    BY <1>5, <1>10 DEF Lockstep
  <2> QED BY <2>1, <1>1 DEF Lockstep
<1>16. CASE r.pc = "prefill"
  <2>1. /\ last => fed = Append(kv[i], - r.req)
        /\ ~last => fed = kv[i]
    BY <1>16
  <2>2. ~last => kv' = kv
    <3>1. ~last => kv' = [kv EXCEPT ![i] = kv[i]]
      BY <2>1, <1>1
    <3> QED BY <3>1 DEF TypeOK
  <2>3. last <=> r.chunk + 1 = Chunks
    BY <1>16
  <2> HIDE DEF last, fed
  <2> QED BY <2>1, <2>2, <2>3, <1>1, <1>2, <1>4, <1>5, <1>8, <1>10, <1>11, <1>12, <1>13, <1>14, <1>15, <1>16
<1>17. CASE r.pc = "forward"
  <2>1. fed = Append(kv[i], Last(r.tokens)) /\ ~last
    BY <1>17
  <2> HIDE DEF last, fed
  <2> QED BY <2>1, <1>1, <1>2, <1>4, <1>5, <1>8, <1>10, <1>11, <1>12, <1>13, <1>14, <1>15, <1>17
<1>18. CASE r.pc = "verify"
  <2>1. fed = kv[i] /\ ~last
    BY <1>18
  <2>2. kv' = kv
    <3>1. kv' = [kv EXCEPT ![i] = kv[i]]
      BY <2>1, <1>1
    <3> QED BY <3>1 DEF TypeOK
  <2> HIDE DEF last, fed
  <2> QED BY <2>1, <2>2, <1>1, <1>2, <1>4, <1>5, <1>8, <1>10, <1>11, <1>12, <1>13, <1>14, <1>15, <1>18
<1> QED BY <1>4, <1>16, <1>17, <1>18 DEF Forwards
(* Nobody is late for a collective because of a step that is no forward. *)
LEMMA LockstepKept ==
  ASSUME Lockstep, entered' = entered,
         \A j \in Ranks : ~rank'[j].inside /\ ~aborted'[j] => ~rank[j].inside /\ ~aborted[j]
  PROVE  Lockstep'
  BY DEF Lockstep

(* A rank that fails outside of a forward, or in one that is aborted. *)
LEMMA FailureDoes ==
  ASSUME TypeOK, Lockstep, NEW i \in Ranks, Failed(i), ~rank[i].inside \/ aborted[i],
         UNCHANGED <<kv, saveable, snaps, proc, entered, aborted, back, exiting, requests>>,
         chan' \in [Workers -> Seq(Frames)]
  PROVE  TypeOK' /\ Lockstep'
<1>1. TypeOK'
  BY FailedProps DEF TypeOK
<1>2. \A j \in Ranks : ~rank'[j].inside /\ ~aborted'[j] => ~rank[j].inside /\ ~aborted[j]
  <2>1. \A j \in Ranks \ {i} : rank'[j] = rank[j]
    BY FailedProps
  <2> QED BY <2>1
<1> QED BY <1>1, <1>2, LockstepKept

(* The prompt is in. *)
LEMMA StartDecodeDoes ==
  ASSUME TypeOK, Lockstep, NEW i \in Ranks, StartDecode(i)
  PROVE  /\ TypeOK' /\ Lockstep'
         /\ UNCHANGED <<kv, saveable, snaps, proc, entered, aborted, chan, back, exiting, requests>>
         /\ \A j \in Ranks \ {i} : rank'[j] = rank[j]
         /\ rank[i].pc = "prefill" /\ rank'[i].pc = "decide" /\ rank[i].chunk = Chunks
         /\ ~rank[i].inside /\ rank'[i].inside = FALSE
         /\ rank'[i].req = rank[i].req /\ rank'[i].tokens = rank[i].tokens
         /\ rank'[i].snap = rank[i].snap /\ rank'[i].chunk = rank[i].chunk
         /\ rank'[i].gathered = rank[i].gathered /\ rank'[i].ok = rank[i].ok
         /\ rank'[i].spec = rank[i].spec
<1> DEFINE r == [rank[i] EXCEPT !.pc = "decide"]
<1>1. /\ UNCHANGED <<kv, saveable, snaps, proc, entered, aborted, chan, back, exiting, requests>>
      /\ rank[i].pc = "prefill" /\ rank[i].chunk = Chunks /\ ~rank[i].inside
      /\ rank' = [rank EXCEPT ![i] = r]
  BY DEF StartDecode, data, links, counts
<1>2. rank[i] \in Generations /\ WellFormed(rank[i]) /\ rank[i].inside \in BOOLEAN
  BY RankTypes
<1>3. r \in Generations /\ r.pc = "decide" /\ r.inside = rank[i].inside /\ r.req = rank[i].req
      /\ r.tokens = rank[i].tokens /\ r.snap = rank[i].snap /\ r.chunk = rank[i].chunk
      /\ r.gathered = rank[i].gathered /\ r.ok = rank[i].ok /\ r.spec = rank[i].spec
  BY <1>2 DEF Generations, Places
<1> HIDE DEF r
<1>4. WellFormed(r)
  BY <1>1, <1>2, <1>3 DEF WellFormed
<1>5. /\ rank' \in [Ranks -> Generations] /\ \A j \in Ranks : WellFormed(rank'[j])
      /\ rank'[i] = r /\ \A j \in Ranks \ {i} : rank'[j] = rank[j]
  BY <1>1, <1>3, <1>4, RankMoves
<1>6. TypeOK'
  BY <1>1, <1>5 DEF TypeOK
<1>7. Lockstep'
  <2>1. \A j \in Ranks : ~rank'[j].inside /\ ~aborted'[j] => ~rank[j].inside /\ ~aborted[j]
    BY <1>1, <1>3, <1>5
  <2> QED BY <2>1, <1>1, LockstepKept
<1> QED BY <1>1, <1>2, <1>3, <1>5, <1>6, <1>7

-----------------------------------------------------------------------------
(* What a step that leaves a rank alone keeps.                             *)

Kept(w) ==
  /\ rank'[w] = rank[w] /\ kv'[w] = kv[w] /\ snaps'[w] = snaps[w]
  /\ chan'[w] = chan[w] /\ back'[w] = back[w] /\ aborted'[w] = aborted[w]
  /\ proc[w] = "exited" => proc'[w] = "exited"
HeadKept ==
  /\ rank'[0] = rank[0] /\ kv'[0] = kv[0] /\ snaps'[0] = snaps[0] /\ aborted'[0] = aborted[0]
  /\ requests' = requests /\ exiting' = exiting

LEMMA HeadsOwnKept ==
  ASSUME HeadKept, NEW step, NEW tokens, HeadsOwn(step, tokens)
  PROVE  HeadsOwn(step, tokens)'
  BY DEF HeadKept, HeadsOwn

LEMMA WorkerKept ==
  ASSUME HeadKept, NEW w \in Workers, Kept(w)
  PROVE  /\ Agrees(w) => Agrees(w)'
         /\ Known(w) => Known(w)'
         /\ SnapsAgree(w) => SnapsAgree(w)'
         /\ \A begun \in Seq(Int) : Follows(w, begun) /\ Paced(w)' => Follows(w, begun)'
<1>1. Agrees(w) => Agrees(w)'
  BY DEF HeadKept, Kept, Agrees
<1>2. Known(w) => Known(w)'
  BY DEF HeadKept, Kept, Known, Busy, Runs
<1>3. SnapsAgree(w) => SnapsAgree(w)'
  BY DEF HeadKept, Kept, SnapsAgree, SlotAgrees, Saving, OpOn, Busy, Runs
<1>4. ASSUME NEW begun \in Seq(Int), Follows(w, begun), Paced(w)'
      PROVE  Follows(w, begun)'
  <2>1. Copies(w, begun)'
    BY <1>4 DEF Follows, HeadKept, Kept, Copies, HeadsOwn, StuckAtStart, Holds, Runs
  <2>2. FramesRight(w, begun)'
    BY <1>4 DEF Follows, HeadKept, Kept, FramesRight, FrameRight, HeadsOwn, Runs
  <2>3. ReportRight(w)'
    BY <1>4 DEF Follows, HeadKept, Kept, ReportRight, Reported, Runs
  <2> QED BY <2>1, <2>2, <2>3, <1>4 DEF Follows
<1> QED BY <1>1, <1>2, <1>3, <1>4

(* The head's own part, when only workers move. *)
LEMMA HeadHoldsKept ==
  ASSUME HeadKept, NEW begun \in Seq(Int), HeadHolds(begun),
         rank[0].tokens # <<>> /\ Unmatched => Unmatched'
  PROVE  HeadHolds(begun)'
  BY DEF HeadKept, HeadHolds, Holds

LEMMA UnmatchedKept ==
  ASSUME rank'[0].tokens = rank[0].tokens, requests' = requests,
         \A w \in Workers : /\ rank'[w].req = rank[w].req /\ rank'[w].tokens = rank[w].tokens
                            /\ Range(chan'[w]) \subseteq Range(chan[w])
  PROVE  Unmatched => Unmatched'
  BY DEF Unmatched, Runs

(* A step of some workers, or of none. *)
LEMMA WorkersMove ==
  ASSUME ClusterInv, NEW M \in SUBSET Workers, HeadKept, \A v \in Workers \ M : Kept(v),
         TypeOK', Lockstep', Serving' => Serving,
         \A w \in M : ~exiting /\ ~Busy => Agrees(w)',
         \A w \in M : Serving => Known(w)' /\ SnapsAgree(w)',
         \A begun \in Seq(Int) :
           Serving /\ Busy /\ HeadHolds(begun) /\ (\A v \in Workers : Follows(v, begun)) =>
             /\ \A w \in M : Follows(w, begun)'
             /\ \A v \in Workers \ M : Paced(v)'
             /\ rank[0].tokens # <<>> /\ Unmatched => Unmatched'
  PROVE  ClusterInv'
<1>1. ASSUME ~exiting', ~Busy', NEW w \in Workers
      PROVE  Agrees(w)'
  <2>1. ~exiting /\ ~Busy
    BY <1>1 DEF HeadKept, Busy
  <2> QED BY <2>1, WorkerKept DEF ClusterInv
<1>2. ASSUME Serving'
      PROVE  HeadServes' /\ \A w \in Workers : Known(w)' /\ SnapsAgree(w)'
  <2>1. HeadServes'
    BY <1>2 DEF ClusterInv, HeadServes, HeadKept
  <2> QED BY <2>1, <1>2, WorkerKept DEF ClusterInv
<1>3. ASSUME Serving', Busy'
      PROVE  Together'
  <2>1. Serving /\ Busy
    BY <1>3 DEF HeadKept, Busy
  <2>2. PICK begun \in Seq(Int) : HeadHolds(begun) /\ \A w \in Workers : Follows(w, begun)
    BY <2>1 DEF ClusterInv, Together
  <2>3. HeadHolds(begun)'
    BY <2>1, <2>2, HeadHoldsKept
  <2>4. \A w \in Workers : Follows(w, begun)'
    BY <2>1, <2>2, WorkerKept
  <2> QED BY <2>3, <2>4 DEF Together
<1> QED BY <1>1, <1>2, <1>3 DEF ClusterInv

(* A step that moves no rank. *)
LEMMA NobodyMoves ==
  ASSUME ClusterInv, HeadKept, \A w \in Workers : Kept(w), TypeOK', entered' = entered,
         Serving' => Serving
  PROVE  ClusterInv'
<1>1. Lockstep'
  <2>1. \A j \in Ranks : rank'[j] = rank[j] /\ aborted'[j] = aborted[j]
    BY DEF HeadKept, Kept, Ranks
  <2> QED BY <2>1, LockstepKept DEF ClusterInv
<1>2. Unmatched => Unmatched'
  BY UnmatchedKept DEF HeadKept, Kept
<1>3. ASSUME NEW v \in Workers, Paced(v) PROVE Paced(v)'
  BY <1>3 DEF Paced, Matched, Runs, HeadKept, Kept
<1> DEFINE M == {}
<1>4. M \in SUBSET Workers /\ (\A v \in Workers \ M : Kept(v)) /\ \A v \in M : FALSE
  OBVIOUS
<1> HIDE DEF M
<1>5. \A begun \in Seq(Int) : (\A v \in Workers : Follows(v, begun)) =>
        (\A w \in M : Follows(w, begun)') /\ \A v \in Workers \ M : Paced(v)'
  BY <1>3, <1>4 DEF Follows
<1> QED BY <1>1, <1>2, <1>4, <1>5, WorkersMove

(* What a frame's type says of it. *)
LEMMA FrameKinds ==
  ASSUME NEW m \in Frames
  PROVE  /\ m.type = "Request" => m \in Starts
         /\ m.type \in {"Decision", "Draft", "Accept"} => m \in Decisions
         /\ m.type = "RequestEnd" => m \in Ends
         /\ m.type = "Op" => m \in SnapshotOps
<1>1. m \in Decisions \/ m \in Starts \/ m \in Ends \/ m \in SnapshotOps \/ m \in Signals
  BY DEF Frames
<1>2. m \in Decisions => m.type \in {"Decision", "Draft", "Accept"}
  BY DEF Decisions
<1>3. m \in Starts => m.type = "Request"
  BY DEF Starts
<1>4. m \in Ends => m.type = "RequestEnd"
  BY DEF Ends
<1>5. m \in SnapshotOps => m.type = "Op"
  BY DEF SnapshotOps
<1>6. m \in Signals => m.type \in {"Abort", "Shutdown"}
  BY DEF Signals
<1> QED BY <1>1, <1>2, <1>3, <1>4, <1>5, <1>6

LEMMA DecisionKinds ==
  ASSUME NEW m \in Decisions
  PROVE  /\ m.req \in Nat /\ m.step \in Nat /\ m.tokens \in Seq(Tokens) /\ m.stop \in BOOLEAN
         /\ m.type = "Decision" => \E t \in Tokens : m.tokens = <<t>>
         /\ m.type = "Draft" => m.tokens = <<>>
         /\ m.type = "Accept" => m.tokens # <<>>
<1>1. ASSUME m \in [type : {"Decision"}, req : Nat, step : Nat, tokens : {<<t>> : t \in Tokens},
                    stop : BOOLEAN]
      PROVE  /\ m.req \in Nat /\ m.step \in Nat /\ m.tokens \in Seq(Tokens) /\ m.stop \in BOOLEAN
             /\ m.type = "Decision" /\ \E t \in Tokens : m.tokens = <<t>>
  <2>1. PICK t \in Tokens : m.tokens = <<t>>
    BY <1>1
  <2>2. <<t>> \in Seq(Tokens)
    OBVIOUS
  <2> QED BY <1>1, <2>1, <2>2
<1>2. ASSUME m \in [type : {"Draft"}, req : Nat, step : Nat, tokens : {<<>>}, stop : BOOLEAN]
      PROVE  /\ m.req \in Nat /\ m.step \in Nat /\ m.tokens \in Seq(Tokens) /\ m.stop \in BOOLEAN
             /\ m.type = "Draft" /\ m.tokens = <<>>
  <2>1. m.tokens = <<>> /\ <<>> \in Seq(Tokens)
    BY <1>2
  <2> QED BY <1>2, <2>1
<1>3. ASSUME m \in [type : {"Accept"}, req : Nat, step : Nat, tokens : Seq(Tokens) \ {<<>>},
                    stop : BOOLEAN]
      PROVE  /\ m.req \in Nat /\ m.step \in Nat /\ m.tokens \in Seq(Tokens) /\ m.stop \in BOOLEAN
             /\ m.type = "Accept" /\ m.tokens # <<>>
  BY <1>3
<1> QED BY <1>1, <1>2, <1>3 DEF Decisions

LEMMA QueueTypes ==
  ASSUME TypeOK, NEW w \in Workers
  PROVE  /\ chan[w] \in Seq(Frames) /\ back[w] \in Seq(Reports)
         /\ chan[w] # <<>> => Head(chan[w]) \in Frames /\ Head(chan[w]) \in Range(chan[w])
         /\ back[w] # <<>> => Head(back[w]) \in Reports /\ Head(back[w]) \in Range(back[w])
<1>1. chan[w] \in Seq(Frames) /\ back[w] \in Seq(Reports)
  BY DEF TypeOK
<1> QED BY <1>1, TailProps

-----------------------------------------------------------------------------
(* Ranks that leave, and ranks that do not move.                           *)

LEMMA ClientLeavesStep ==
  ASSUME ClusterInv, ClientLeaves
  PROVE  ClusterInv'
<1>1. UNCHANGED <<rank, kv, saveable, snaps, proc, entered, aborted, chan, back, exiting, requests>>
  BY DEF ClientLeaves, data, links, counts
<1>2. TypeOK'
  BY <1>1 DEF ClusterInv, TypeOK
<1>3. HeadKept /\ (\A w \in Workers : Kept(w)) /\ (Serving' => Serving)
  BY <1>1 DEF HeadKept, Kept, Serving
<1> QED BY <1>1, <1>2, <1>3, NobodyMoves

LEMMA FreezesStep ==
  ASSUME ClusterInv, NEW i \in Ranks, Freezes(i)
  PROVE  ClusterInv'
<1>1. /\ UNCHANGED <<rank, kv, saveable, snaps, entered, aborted, chan, back, exiting, requests>>
      /\ proc' = [proc EXCEPT ![i] = "frozen"] /\ proc[i] = "up"
  BY DEF Freezes, Up, data, links, counts
<1>2. TypeOK
  BY DEF ClusterInv
<1>3. proc' \in [Ranks -> {"up", "frozen", "exited"}] /\ \A j \in Ranks : proc[j] = "exited" <=> proc'[j] = "exited"
  BY <1>1, <1>2 DEF TypeOK
<1>4. TypeOK'
  BY <1>1, <1>2, <1>3 DEF TypeOK
<1>5. HeadKept /\ (\A w \in Workers : Kept(w)) /\ (Serving' => Serving)
  BY <1>1, <1>3, RankZero DEF HeadKept, Kept, Serving
<1> QED BY <1>1, <1>4, <1>5, NobodyMoves

LEMMA HeartbeatStep ==
  ASSUME ClusterInv, NEW w \in Workers, HeartbeatOverdue(w) \/ HeartbeatHeard(w)
  PROVE  ClusterInv'
<1>1. UNCHANGED <<rank, kv, saveable, snaps, proc, entered, aborted, chan, back, exiting, requests>>
  BY DEF HeartbeatOverdue, HeartbeatHeard, data, counts
<1>2. TypeOK'
  BY <1>1 DEF ClusterInv, TypeOK
<1>3. HeadKept /\ (\A v \in Workers : Kept(v)) /\ (Serving' => Serving)
  BY <1>1 DEF HeadKept, Kept, Serving
<1> QED BY <1>1, <1>2, <1>3, NobodyMoves

(* A worker's process or communicator goes. *)
LEMMA WorkerLost ==
  ASSUME ClusterInv, NEW w \in Workers, HeadKept, \A v \in Workers \ {w} : Kept(v),
         rank' = rank, kv' = kv, entered' = entered, proc'[0] = proc[0], TypeOK',
         snaps'[w] = snaps[w] \/ rank[w].pc = "idle",
         aborted'[w] \/ proc'[w] = "exited", aborted[w] => aborted'[w],
         chan'[w] \in {chan[w], <<>>},
         \A m \in Range(back'[w]) : m \in Range(back[w]) \/ m.type = "Abort"
  PROVE  ClusterInv'
<1>1. TypeOK /\ w \in Ranks /\ 0 \in Ranks /\ w # 0
  BY RankZero DEF ClusterInv
<1>2. Range(chan'[w]) \subseteq Range(chan[w])
  BY DEF Range
<1>3. Lockstep'
  <2>1. \A j \in Ranks : ~aborted'[j] => ~aborted[j]
    BY DEF HeadKept, Kept, Ranks
  <2> QED BY <2>1, LockstepKept DEF ClusterInv
<1>4. Serving' => Serving
  BY DEF Serving, HeadKept
<1>5. ~exiting /\ ~Busy => Agrees(w)'
  BY <1>2 DEF ClusterInv, Agrees
<1>6. ASSUME Serving PROVE Known(w)' /\ SnapsAgree(w)'
  <2>1. Known(w)
    BY <1>6 DEF ClusterInv
  <2>2. Known(w)'
    BY <2>1, <1>2 DEF Known, Busy, Runs, HeadKept
  <2> QED BY <2>2 DEF SnapsAgree
<1>7. ASSUME NEW begun \in Seq(Int), Follows(w, begun) PROVE Follows(w, begun)'
  <2>1. Copies(w, begun)'
    BY <1>7 DEF Follows, Copies, HeadsOwn, StuckAtStart, Holds, Runs, HeadKept
  <2>2. Paced(w)'
    BY <1>7 DEF Follows, Paced, Matched, Runs, HeadKept
  <2>3. FramesRight(w, begun)'
    <3>1. \A m \in Range(chan'[w]) : FrameRight(m, w, begun)'
      BY <1>2, <1>7 DEF Follows, FramesRight, FrameRight, HeadsOwn, Runs, HeadKept
    <3>2. \A k, l \in DOMAIN chan'[w] :
            chan'[w][k].type = "Request" /\ k < l => chan'[w][l].type \notin {"Request", "Op"}
      BY <1>7 DEF Follows, FramesRight
    <3> QED BY <3>1, <3>2 DEF FramesRight
  <2>4. ReportRight(w)'
    <3>1. Reported(w)' => Reported(w)
      <4>1. [type |-> "Report", req |-> requests].type # "Abort"
        OBVIOUS
      <4> QED BY <4>1 DEF Reported, HeadKept
    <3> QED BY <3>1, <1>7 DEF Follows, ReportRight, Runs, HeadKept
  <2> QED BY <2>1, <2>2, <2>3, <2>4 DEF Follows
<1>8. Unmatched => Unmatched'
  <2>1. \A v \in Workers : Range(chan'[v]) \subseteq Range(chan[v])
    BY <1>2 DEF Kept
  <2> QED BY <2>1, UnmatchedKept DEF HeadKept
<1>9. ASSUME NEW v \in Workers \ {w}, Paced(v) PROVE Paced(v)'
  BY <1>9 DEF Paced, Matched, Runs, HeadKept, Kept
<1> DEFINE M == {w}
<1>10. M \in SUBSET Workers /\ (\A v \in Workers \ M : Kept(v)) /\ \A v \in M : v = w
  OBVIOUS
<1> HIDE DEF M
<1> QED BY <1>3, <1>4, <1>5, <1>6, <1>7, <1>8, <1>9, <1>10, WorkersMove DEF Follows
LEMMA WorkerGoneStep ==
  ASSUME ClusterInv, NEW w \in Workers, NEW sent \in {<<>>, <<[type |-> "Abort"]>>},
         WorkerGone(w, sent), aborted' = aborted \/ aborted' = [aborted EXCEPT ![w] = TRUE],
         UNCHANGED <<rank, kv, saveable, entered, exiting, requests>>,
         snaps' \in [Ranks -> [Slots -> Seq(Int)]], \A i \in Ranks \ {w} : snaps'[i] = snaps[i],
         snaps'[w] = snaps[w] \/ rank[w].pc = "idle"
  PROVE  ClusterInv'
<1>1. TypeOK /\ w \in Ranks /\ 0 \in Ranks /\ w # 0 /\ Workers \subseteq Ranks
  BY RankZero DEF ClusterInv
<1>2. sent \in Seq(Reports) /\ \A m \in Range(sent) : m.type = "Abort"
  <2> DEFINE a == [type |-> "Abort"]
  <2>1. a \in Reports /\ a.type = "Abort"
    BY DEF Reports
  <2>2. CASE sent = <<>>
    BY <2>2 DEF Range
  <2>3. CASE sent = <<a>>
    <3> HIDE DEF a
    <3>1. <<a>> \in Seq(Reports) /\ Range(<<a>>) = {a}
      BY <2>1 DEF Range
    <3> QED BY <3>1, <2>1, <2>3
  <2> QED BY <2>2, <2>3
<1>3. /\ proc' \in [Ranks -> {"up", "frozen", "exited"}]
      /\ chan' \in [Workers -> Seq(Frames)] /\ back' \in [Workers -> Seq(Reports)]
      /\ proc'[w] = "exited" /\ chan'[w] = <<>>
      /\ Range(back'[w]) \subseteq Range(back[w]) \cup Range(sent)
      /\ \A v \in Workers \ {w} : chan'[v] = chan[v] /\ back'[v] = back[v]
      /\ \A i \in Ranks \ {w} : proc'[i] = proc[i]
  BY <1>1, <1>2, WorkerGoneProps
<1>4. /\ aborted' \in [Ranks -> BOOLEAN] /\ (aborted[w] => aborted'[w])
      /\ \A i \in Ranks \ {w} : aborted'[i] = aborted[i]
  BY <1>1 DEF TypeOK
<1>5. TypeOK'
  BY <1>1, <1>3, <1>4 DEF TypeOK
<1>6. HeadKept
  BY <1>1, <1>4 DEF HeadKept
<1>7. \A v \in Workers \ {w} : Kept(v)
  BY <1>1, <1>3, <1>4 DEF Kept
<1>8. \A m \in Range(back'[w]) : m \in Range(back[w]) \/ m.type = "Abort"
  BY <1>2, <1>3
<1> QED BY <1>1, <1>3, <1>4, <1>5, <1>6, <1>7, <1>8, WorkerLost

LEMMA WorkerWatchdogStep ==
  ASSUME ClusterInv, NEW w \in Workers, WorkerWatchdog(w)
  PROVE  ClusterInv'
<1>1. /\ UNCHANGED <<rank, kv, saveable, snaps, proc, entered, chan, back, exiting, requests>>
      /\ aborted' = [aborted EXCEPT ![w] = TRUE]
  BY DEF WorkerWatchdog, data, links, counts
<1>2. TypeOK /\ w \in Ranks /\ 0 \in Ranks /\ w # 0 /\ Workers \subseteq Ranks
  BY RankZero DEF ClusterInv
<1>3. /\ aborted' \in [Ranks -> BOOLEAN] /\ aborted'[w]
      /\ \A i \in Ranks \ {w} : aborted'[i] = aborted[i]
  BY <1>1, <1>2 DEF TypeOK
<1>4. TypeOK'
  BY <1>1, <1>2, <1>3 DEF TypeOK
<1>5. HeadKept /\ \A v \in Workers \ {w} : Kept(v)
  BY <1>1, <1>2, <1>3 DEF HeadKept, Kept
<1> QED BY <1>1, <1>3, <1>4, <1>5, WorkerLost

LEMMA WorkerDiesStep ==
  ASSUME ClusterInv, NEW w \in Workers, Dies(w)
  PROVE  ClusterInv'
<1>1. w # 0 /\ TypeOK
  BY RankZero DEF ClusterInv
<1>2. WorkerGone(w, <<>>) /\ UNCHANGED <<rank, kv, saveable, snaps, entered, aborted, exiting, requests>>
  BY <1>1 DEF Dies, data, counts
<1> QED BY <1>1, <1>2, WorkerGoneStep DEF TypeOK

LEMMA WorkerEndMissingStep ==
  ASSUME ClusterInv, NEW w \in Workers, WorkerEndMissing(w) \/ WorkerAlone(w)
  PROVE  ClusterInv'
<1>1. PICK sent \in {<<>>, <<[type |-> "Abort"]>>} :
        /\ WorkerGone(w, sent) /\ aborted' = [aborted EXCEPT ![w] = TRUE]
        /\ UNCHANGED <<rank, kv, saveable, snaps, entered, exiting, requests>>
  BY DEF WorkerEndMissing, WorkerAlone, WorkerAborts, data, counts
<1> QED BY <1>1, WorkerGoneStep DEF ClusterInv, TypeOK

-----------------------------------------------------------------------------
(* A worker's steps.                                                       *)

(* A worker's queue without its first frame. *)
LEMMA TailSlotAgrees ==
  ASSUME TypeOK, NEW w \in Workers, NEW s \in Slots, chan[w] # <<>>, chan'[w] = Tail(chan[w]),
         ~OpOn(Head(chan[w]), s), kv'[w] = kv[w] \/ (\A m \in Range(Tail(chan[w])) : m.type # "Op"),
         snaps'[0][s] = snaps[0][s], snaps'[w][s] = snaps[w][s], Saving(w, s) => Saving(w, s)',
         SlotAgrees(w, s)
  PROVE  SlotAgrees(w, s)'
<1> DEFINE q == chan[w]
           t == Tail(chan[w])
<1>1. /\ Head(q) = q[1] /\ Range(t) \subseteq Range(q)
      /\ \A k \in DOMAIN t : k + 1 \in DOMAIN q /\ t[k] = q[k + 1]
      /\ \A k \in DOMAIN q : k = 1 \/ (k - 1 \in DOMAIN t /\ q[k] = t[k - 1])
      /\ DOMAIN q \subseteq Int /\ DOMAIN t \subseteq Int
  <2>1. q \in Seq(Frames) /\ Tail(q) \in Seq(Frames)
    BY QueueTypes, TailProps
  <2> QED BY <2>1, TailProps
<1> HIDE DEF q, t
<1>2. CASE \E k \in DOMAIN q : /\ OpOn(q[k], s) /\ \A l \in DOMAIN q : k < l => ~OpOn(q[l], s)
                               /\ q[k].save => kv[w] = snaps[0][s]
  <2>1. PICK k \in DOMAIN q : /\ OpOn(q[k], s) /\ \A l \in DOMAIN q : k < l => ~OpOn(q[l], s)
                              /\ q[k].save => kv[w] = snaps[0][s]
    BY <1>2
  <2>2. k - 1 \in DOMAIN t /\ q[k] = t[k - 1]
    BY <2>1, <1>1 DEF q
  <2>3. \A l \in DOMAIN t : k - 1 < l => ~OpOn(t[l], s)
    <3> SUFFICES ASSUME NEW l \in DOMAIN t, k - 1 < l PROVE ~OpOn(t[l], s)
      OBVIOUS
    <3>1. l + 1 \in DOMAIN q /\ t[l] = q[l + 1] /\ k < l + 1
      BY <1>1
    <3> QED BY <3>1, <2>1
  <2>4. kv'[w] = kv[w]
    <3>1. t[k - 1] \in Range(t) /\ t[k - 1].type = "Op"
      BY <2>1, <2>2 DEF Range, OpOn
    <3> QED BY <3>1 DEF t
  <2>5. /\ OpOn(t[k - 1], s) /\ \A l \in DOMAIN t : k - 1 < l => ~OpOn(t[l], s)
        /\ t[k - 1].save => kv'[w] = snaps'[0][s]
    BY <2>1, <2>2, <2>3, <2>4
  <2>6. chan'[w] = t
    BY DEF t
  <2> QED BY <2>2, <2>5, <2>6 DEF SlotAgrees, OpOn
<1>3. CASE /\ \A k \in DOMAIN q : ~OpOn(q[k], s)
           /\ snaps[w][s] \in {None, snaps[0][s]} \/ Saving(w, s)
  <2>1. \A k \in DOMAIN t : ~OpOn(t[k], s)
    BY <1>1, <1>3
  <2>2. chan'[w] = t
    BY DEF t
  <2> QED BY <2>1, <2>2, <1>3 DEF SlotAgrees, OpOn
<1> QED BY <1>2, <1>3 DEF SlotAgrees, q

(* No operation waits: only the slots matter. *)
LEMMA NoOpsSlotAgrees ==
  ASSUME NEW w \in Workers, NEW s \in Slots,
         \A m \in Range(chan[w]) : m.type # "Op", Range(chan'[w]) \subseteq Range(chan[w]),
         snaps'[0][s] = snaps[0][s], snaps'[w][s] = snaps[w][s], Saving(w, s) => Saving(w, s)',
         SlotAgrees(w, s)
  PROVE  SlotAgrees(w, s)'
<1>1. (\A k \in DOMAIN chan[w] : chan[w][k].type # "Op") /\ \A k \in DOMAIN chan'[w] : chan'[w][k].type # "Op"
  BY DEF Range
<1>2. snaps[w][s] \in {None, snaps[0][s]} \/ Saving(w, s)
  BY <1>1 DEF SlotAgrees, OpOn
<1> QED BY <1>1, <1>2 DEF SlotAgrees, OpOn

(* Frames that are read leave what is said of the others. *)
LEMMA FewerFrames ==
  ASSUME TypeOK, HeadKept, NEW w \in Workers, NEW begun \in Seq(Int), FramesRight(w, begun),
         \/ chan'[w] = chan[w]
         \/ chan[w] # <<>> /\ chan'[w] = Tail(chan[w]),
         \/ rank'[w].req = rank[w].req
         \/ \A m \in Range(chan'[w]) : m.type # "Request"
  PROVE  FramesRight(w, begun)' /\ Range(chan'[w]) \subseteq Range(chan[w])
<1>1. chan[w] \in Seq(Frames)
  BY QueueTypes
<1>2. /\ Range(chan'[w]) \subseteq Range(chan[w])
      /\ \E d \in {0, 1} : \A k \in DOMAIN chan'[w] : k \in Int /\ k + d \in DOMAIN chan[w] /\ chan'[w][k] = chan[w][k + d]
  <2>1. CASE chan'[w] = chan[w]
    <3>1. \A k \in DOMAIN chan[w] : k \in Int /\ k + 0 = k
      BY <1>1
    <3>2. \A k \in DOMAIN chan'[w] : k \in Int /\ k + 0 \in DOMAIN chan[w] /\ chan'[w][k] = chan[w][k + 0]
      BY <2>1, <3>1
    <3> QED BY <2>1, <3>2
  <2>2. CASE chan[w] # <<>> /\ chan'[w] = Tail(chan[w])
    <3>1. /\ Tail(chan[w]) \in Seq(Frames) /\ Range(Tail(chan[w])) \subseteq Range(chan[w])
          /\ \A k \in DOMAIN Tail(chan[w]) : k + 1 \in DOMAIN chan[w] /\ Tail(chan[w])[k] = chan[w][k + 1]
      BY <1>1, <2>2, TailProps
    <3>2. \A k \in DOMAIN Tail(chan[w]) : k \in Int
      BY <3>1
    <3>3. \A k \in DOMAIN chan'[w] : k \in Int /\ k + 1 \in DOMAIN chan[w] /\ chan'[w][k] = chan[w][k + 1]
      BY <2>2, <3>1, <3>2
    <3> QED BY <2>2, <3>1, <3>3
  <2> QED BY <2>1, <2>2
<1>3. PICK d \in {0, 1} : \A k \in DOMAIN chan'[w] : k \in Int /\ k + d \in DOMAIN chan[w] /\ chan'[w][k] = chan[w][k + d]
  BY <1>2
<1>4. ASSUME NEW m \in Range(chan'[w]) PROVE FrameRight(m, w, begun)'
  <2>1. FrameRight(m, w, begun)
    BY <1>2 DEF FramesRight
  <2> QED BY <2>1, <1>4 DEF FrameRight, HeadsOwn, Runs, HeadKept
<1>5. ASSUME NEW k \in DOMAIN chan'[w], NEW l \in DOMAIN chan'[w], chan'[w][k].type = "Request", k < l
      PROVE  chan'[w][l].type \notin {"Request", "Op"}
  <2>1. k + d < l + d
    BY <1>3, <1>5
  <2> QED BY <2>1, <1>3, <1>5 DEF FramesRight
<1> QED BY <1>2, <1>4, <1>5 DEF FramesRight

(* A worker that is in a request has no operation before it. *)
LEMMA AtWork ==
  ASSUME ClusterInv, NEW w \in Workers, rank[w].pc # "idle"
  PROVE  /\ Serving => \A m \in Range(chan[w]) : m.type # "Op"
         /\ \A begun \in Seq(Int) : Follows(w, begun) => Runs(w)
         /\ ~exiting => Busy
<1>1. Serving => \A m \in Range(chan[w]) : m.type # "Op"
  BY DEF ClusterInv, Known
<1>2. \A begun \in Seq(Int) : Follows(w, begun) => Runs(w)
  BY DEF Follows, Copies
<1>3. ~exiting => Busy
  BY DEF ClusterInv, Agrees
<1> QED BY <1>1, <1>2, <1>3
(* A step of a worker that is in a request: what is left to show of it. *)
LEMMA WorkerWorks ==
  ASSUME ClusterInv, NEW w \in Workers, HeadKept, \A v \in Workers \ {w} : Kept(v),
         TypeOK', Lockstep', proc' = proc, aborted'[w] = aborted[w],
         rank[w].pc # "idle", rank'[w].req = rank[w].req,
         \/ chan'[w] = chan[w]
         \/ chan[w] # <<>> /\ chan'[w] = Tail(chan[w]),
         \A m \in Range(back'[w]) :
           m \in Range(back[w]) \/ m = [type |-> "Report", req |-> rank[w].req],
         \A s \in Slots :
           Serving /\ ~aborted[w] /\ snaps[0][s] # None /\ (snaps[w][s] \in {None, snaps[0][s]} \/ Saving(w, s)) =>
             snaps'[w][s] \in {None, snaps[0][s]} \/ Saving(w, s)',
         \A begun \in Seq(Int) :
           Serving /\ Busy /\ HeadHolds(begun) /\ (\A v \in Workers : Follows(v, begun)) =>
             /\ Copies(w, begun)'
             /\ \A v \in Workers : Paced(v)'
             /\ back'[w] = back[w] \/ ReportRight(w)'
             /\ rank[0].tokens # <<>> /\ Unmatched => Unmatched'
  PROVE  ClusterInv'
<1>1. TypeOK
  BY DEF ClusterInv
<1>2. Serving' => Serving
  BY DEF Serving, HeadKept
<1>3. exiting \/ Busy
  BY AtWork
<1>4. Range(chan'[w]) \subseteq Range(chan[w])
  <2>1. chan[w] \in Seq(Frames)
    BY <1>1, QueueTypes
  <2> QED BY <2>1, TailProps
<1>5. ASSUME Serving PROVE Known(w)' /\ SnapsAgree(w)'
  <2>1. Known(w) /\ SnapsAgree(w) /\ \A m \in Range(chan[w]) : m.type # "Op"
    BY <1>5, AtWork DEF ClusterInv
  <2>2. Known(w)'
    <3>1. \A m \in Range(back'[w]) : m.type = "Report" => m.req <= requests
      BY <2>1 DEF Known
    <3> QED BY <3>1, <2>1, <1>4 DEF Known, HeadKept
  <2>3. ASSUME ~aborted[w], proc[w] # "exited", NEW s \in Slots, snaps[0][s] # None
        PROVE  SlotAgrees(w, s)'
    <3>1. (\A k \in DOMAIN chan[w] : chan[w][k].type # "Op") /\ \A k \in DOMAIN chan'[w] : chan'[w][k].type # "Op"
      BY <2>1, <1>4 DEF Range
    <3>2. SlotAgrees(w, s)
      BY <2>1, <2>3 DEF SnapsAgree
    <3>3. snaps[w][s] \in {None, snaps[0][s]} \/ Saving(w, s)
      BY <3>1, <3>2 DEF SlotAgrees, OpOn
    <3>4. snaps'[w][s] \in {None, snaps[0][s]} \/ Saving(w, s)'
      BY <1>5, <2>3, <3>3
    <3> QED BY <3>1, <3>4 DEF SlotAgrees, OpOn, HeadKept
  <2>4. SnapsAgree(w)'
    BY <2>3 DEF SnapsAgree, HeadKept
  <2> QED BY <2>2, <2>4
<1>6. ASSUME NEW begun \in Seq(Int), Serving, Busy, HeadHolds(begun), \A v \in Workers : Follows(v, begun)
      PROVE  /\ Follows(w, begun)' /\ \A v \in Workers : Paced(v)'
             /\ rank[0].tokens # <<>> /\ Unmatched => Unmatched'
  <2>1. FramesRight(w, begun)'
    BY <1>1, <1>6, FewerFrames DEF Follows
  <2>2. ReportRight(w)'
    <3>1. CASE back'[w] = back[w]
      <4>1. ~Reported(w)
        BY <1>6 DEF Follows, ReportRight
      <4>2. ~Reported(w)'
        BY <3>1, <4>1 DEF Reported, HeadKept
      <4> QED BY <4>2 DEF ReportRight
    <3>2. CASE ReportRight(w)'
      BY <3>2
    <3> QED BY <3>1, <3>2, <1>6
  <2> QED BY <2>1, <2>2, <1>6 DEF Follows
<1> DEFINE M == {w}
<1>7. M \in SUBSET Workers /\ (\A v \in Workers \ M : Kept(v)) /\ \A v \in M : v = w
  OBVIOUS
<1> HIDE DEF M
<1>8. \A v \in M : ~exiting /\ ~Busy => Agrees(v)'
  BY <1>3
<1>9. \A v \in M : Serving => Known(v)' /\ SnapsAgree(v)'
  BY <1>5, <1>7
<1>10. \A begun \in Seq(Int) :
         Serving /\ Busy /\ HeadHolds(begun) /\ (\A v \in Workers : Follows(v, begun)) =>
           /\ \A v \in M : Follows(v, begun)'
           /\ \A v \in Workers \ M : Paced(v)'
           /\ rank[0].tokens # <<>> /\ Unmatched => Unmatched'
  BY <1>6, <1>7
<1> QED BY <1>2, <1>7, <1>8, <1>9, <1>10, WorkersMove

(* A worker's request fails, and with it nothing but its answer. *)
LEMMA WorkerFailsStep ==
  ASSUME ClusterInv, NEW w \in Workers, Failed(w), rank[w].pc # "idle", ~rank[w].inside \/ aborted[w],
         UNCHANGED <<kv, saveable, snaps, proc, entered, aborted, back, exiting, requests>>,
         chan' = chan \/ (chan[w] # <<>> /\ Consumes(w))
  PROVE  ClusterInv'
<1>1. TypeOK /\ Lockstep /\ w \in Ranks /\ 0 \in Ranks /\ w # 0 /\ Workers \subseteq Ranks
  BY RankZero DEF ClusterInv
<1>2. /\ \A j \in Ranks \ {w} : rank'[j] = rank[j]
      /\ rank'[w].pc = "end" /\ rank'[w].ok = FALSE /\ rank'[w].inside = FALSE
      /\ rank'[w].req = rank[w].req /\ rank'[w].chunk = rank[w].chunk
      /\ rank'[w].snap = rank[w].snap /\ rank'[w].tokens = rank[w].tokens
  BY <1>1, FailedProps
<1>3. /\ chan' \in [Workers -> Seq(Frames)] /\ \A v \in Workers \ {w} : chan'[v] = chan[v]
      /\ chan'[w] = chan[w] \/ (chan[w] # <<>> /\ chan'[w] = Tail(chan[w]))
  BY <1>1, ConsumesProps DEF TypeOK
<1>4. TypeOK' /\ Lockstep'
  BY <1>1, <1>3, FailureDoes
<1>5. HeadKept /\ \A v \in Workers \ {w} : Kept(v)
  BY <1>1, <1>2, <1>3 DEF HeadKept, Kept
<1>6. \A s \in Slots : ~aborted[w] => ~Saving(w, s)
  BY DEF Saving
<1>7. Range(chan'[w]) \subseteq Range(chan[w])
  <2>1. chan[w] \in Seq(Frames)
    BY <1>1, QueueTypes
  <2> QED BY <2>1, <1>3, TailProps
<1>8. Unmatched => Unmatched'
  <2>1. \A v \in Workers : /\ rank'[v].req = rank[v].req /\ rank'[v].tokens = rank[v].tokens
                           /\ Range(chan'[v]) \subseteq Range(chan[v])
    BY <1>1, <1>2, <1>3, <1>7
  <2> QED BY <2>1, <1>1, <1>2, UnmatchedKept
<1>9. ASSUME NEW v \in Workers, Paced(v) PROVE Paced(v)'
  <2>1. CASE v # w
    BY <2>1, <1>1, <1>2, <1>9 DEF Paced, Matched, Runs
  <2>2. CASE v = w
    <3>1. ~aborted[w] => rank'[w].inside = rank[w].inside
      BY <1>1, <1>2, RankTypes
    <3> QED BY <2>2, <3>1, <1>1, <1>2, <1>9 DEF Paced, Matched, Runs
  <2> QED BY <2>1, <2>2
<1>10. ASSUME NEW begun \in Seq(Int), Copies(w, begun) PROVE Copies(w, begun)'
  <2>1. Runs(w)
    BY <1>10 DEF Copies
  <2> QED BY <2>1, <1>1, <1>2, <1>10 DEF Copies, Runs, HeadsOwn
<1> QED BY <1>1, <1>2, <1>3, <1>4, <1>5, <1>6, <1>8, <1>9, <1>10, WorkerWorks DEF Follows

LEMMA WorkerMissesStep ==
  ASSUME ClusterInv, NEW w \in Workers, WorkerMisses(w) \/ BreakForward(w) \/ LocalFailure(w)
  PROVE  ClusterInv'
<1>1. w \in Ranks /\ WellFormed(rank[w])
  BY RankZero, RankTypes DEF ClusterInv
<1>2. Failed(w) /\ UNCHANGED <<kv, saveable, snaps, proc, entered, aborted, chan, back, exiting, requests>>
  BY DEF WorkerMisses, BreakForward, LocalFailure, data, links, counts
<1>3. rank[w].pc # "idle" /\ (~rank[w].inside \/ aborted[w])
  BY <1>1 DEF WorkerMisses, BreakForward, LocalFailure, FrameOf, WellFormed, Forwards
<1> QED BY <1>2, <1>3, WorkerFailsStep

LEMMA WorkerStartDecodeStep ==
  ASSUME ClusterInv, NEW w \in Workers, StartDecode(w)
  PROVE  ClusterInv'
<1>1. TypeOK /\ Lockstep /\ w \in Ranks /\ 0 \in Ranks /\ w # 0 /\ Workers \subseteq Ranks
  BY RankZero DEF ClusterInv
<1>2. /\ TypeOK' /\ Lockstep'
      /\ UNCHANGED <<kv, saveable, snaps, proc, entered, aborted, chan, back, exiting, requests>>
      /\ \A j \in Ranks \ {w} : rank'[j] = rank[j]
      /\ rank[w].pc = "prefill" /\ rank'[w].pc = "decide" /\ rank[w].chunk = Chunks
      /\ ~rank[w].inside /\ rank'[w].inside = FALSE
      /\ rank'[w].req = rank[w].req /\ rank'[w].tokens = rank[w].tokens
      /\ rank'[w].snap = rank[w].snap /\ rank'[w].chunk = rank[w].chunk /\ rank'[w].ok = rank[w].ok
  BY <1>1, StartDecodeDoes
<1>3. HeadKept /\ \A v \in Workers \ {w} : Kept(v)
  BY <1>1, <1>2 DEF HeadKept, Kept
<1>4. Unmatched => Unmatched'
  <2>1. \A v \in Workers : rank'[v].req = rank[v].req /\ rank'[v].tokens = rank[v].tokens
    BY <1>1, <1>2
  <2> QED BY <2>1, <1>1, <1>2, UnmatchedKept
<1>5. ASSUME NEW v \in Workers, Paced(v) PROVE Paced(v)'
  <2>1. CASE v # w
    BY <2>1, <1>1, <1>2, <1>5 DEF Paced, Matched, Runs
  <2>2. CASE v = w
    BY <2>2, <1>1, <1>2, <1>5 DEF Paced, Matched, Runs
  <2> QED BY <2>1, <2>2
<1>6. Chunks # 0
  BY ClusterAssumption
<1>7. ASSUME NEW begun \in Seq(Int), HeadHolds(begun), Busy, Copies(w, begun) PROVE Copies(w, begun)'
  <2>1. Runs(w) /\ HeadsOwn(0, rank[w].tokens)
    BY <1>2, <1>7 DEF Copies
  <2>2. rank[w].ok => begun = kv[w]
    BY <2>1, <1>2, <1>6, <1>7 DEF Copies, StuckAtStart, Holds
  <2>3. kv[w] \o rank[w].tokens = kv[w]
    <3>1. rank[w].tokens = <<>> /\ kv[w] \in Seq(Int)
      BY <1>1, <1>2, RankTypes DEF WellFormed
    <3> QED BY <3>1
  <2> QED BY <2>1, <2>2, <2>3, <1>1, <1>2, <1>7 DEF Copies, Runs, HeadsOwn, Holds
<1> QED BY <1>1, <1>2, <1>3, <1>4, <1>5, <1>7, WorkerWorks DEF Follows, Saving
(* All ranks' counts of collectives move together when one enters. *)
LEMMA PacedByEntering ==
  ASSUME TypeOK, Lockstep, Lockstep', NEW i \in Ranks, NEW c \in {0, 1},
         ~rank[i].inside, rank'[i].inside = TRUE, entered[i] = 0, entered'[i] = 1 - c,
         \A j \in Ranks \ {i} : entered'[j] = entered[j] - c /\ rank'[j] = rank[j],
         rank'[i].chunk = rank[i].chunk, rank'[i].pc = rank[i].pc, rank'[i].req = rank[i].req,
         aborted' = aborted, requests' = requests, ~aborted[0],
         NEW v \in Workers, Paced(v), rank[v].req = requests \/ (rank[v].pc = "idle" /\ v # i)
  PROVE  Paced(v)'
<1>1. 0 \in Ranks /\ v \in Ranks
  BY RankZero
<1>2. \A j \in Ranks : rank[j].chunk \in Int /\ entered[j] \in {0, 1} /\ entered'[j] \in {0, 1} /\ rank'[j].chunk = rank[j].chunk
  <2>1. \A j \in Ranks : rank[j].chunk \in Int /\ rank'[j].chunk = rank[j].chunk
    BY RankTypes
  <2> QED BY <2>1 DEF Lockstep
<1>3. \A j \in Ranks : Matched(j) \in Int /\ Matched(j)' = Matched(j) + c
  <2> SUFFICES ASSUME NEW j \in Ranks PROVE Matched(j) \in Int /\ Matched(j)' = Matched(j) + c
    OBVIOUS
  <2>1. CASE j = i
    BY <2>1, <1>2 DEF Matched
  <2>2. CASE j # i
    BY <2>2, <1>2 DEF Matched
  <2> QED BY <2>1, <2>2
<1>4. rank'[0].pc = rank[0].pc /\ rank'[v].req = rank[v].req
  BY <1>1
<1>5. CASE Runs(v)
  BY <1>1, <1>3, <1>4, <1>5 DEF Paced, Runs
<1>6. CASE ~Runs(v) /\ ~aborted[v] /\ rank[0].pc = "prefill"
  <2>1. rank[v].pc = "idle" /\ v # i
    BY <1>6 DEF Runs
  <2>2. ~rank[v].inside
    BY <2>1, <1>1, RankTypes DEF WellFormed, Forwards
  <2>3. entered[v] = 0 /\ entered'[v] = 0
    BY <2>1, <2>2, <1>1, <1>6 DEF Lockstep
  <2>4. c = 0
    BY <2>1, <2>3, <1>1
  <2> QED BY <2>4, <1>1, <1>3, <1>4, <1>6 DEF Paced, Runs
<1> QED BY <1>1, <1>4, <1>5, <1>6 DEF Paced, Runs

LEMMA WorkerEnterForwardStep ==
  ASSUME ClusterInv, NEW w \in Workers, EnterForward(w)
  PROVE  ClusterInv'
<1>1. TypeOK /\ Lockstep /\ w \in Ranks /\ 0 \in Ranks /\ w # 0 /\ Workers \subseteq Ranks
  BY RankZero DEF ClusterInv
<1>2. /\ TypeOK' /\ Lockstep'
      /\ \A j \in Ranks \ {w} : rank'[j] = rank[j]
      /\ rank'[w].req = rank[w].req /\ rank'[w].tokens = rank[w].tokens
      /\ rank'[w].snap = rank[w].snap /\ rank'[w].chunk = rank[w].chunk
      /\ rank[w].pc \in Forwards /\ ~rank[w].inside
  BY <1>1, EnterForwardDoes
<1>3. UNCHANGED <<kv, saveable, snaps, proc, aborted, chan, back, exiting, requests>>
  BY DEF EnterForward, data, links, counts
<1>4. rank[w].pc # "idle"
  BY <1>2 DEF Forwards
<1>5. CASE aborted[w]
  <2>1. Failed(w) /\ entered' = entered
    BY <1>5 DEF EnterForward
  <2> QED BY <2>1, <1>2, <1>3, <1>4, WorkerFailsStep
<1>6. CASE ~aborted[w]
  <2>1. PICK c \in {0, 1} :
          /\ rank'[w].pc = rank[w].pc /\ rank'[w].ok = rank[w].ok
          /\ rank'[w].inside = TRUE /\ entered[w] = 0 /\ entered'[w] = 1 - c
          /\ \A j \in Ranks \ {w} : entered'[j] = entered[j] - c
    BY <1>1, <1>6, EnterForwardDoes
  <2>2. HeadKept /\ \A v \in Workers \ {w} : Kept(v)
    BY <1>1, <1>2, <1>3 DEF HeadKept, Kept
  <2>3. Unmatched => Unmatched'
    <3>1. \A v \in Workers : rank'[v].req = rank[v].req /\ rank'[v].tokens = rank[v].tokens
      BY <1>1, <1>2
    <3> QED BY <3>1, <1>1, <1>2, <1>3, UnmatchedKept
  <2>4. ASSUME NEW begun \in Seq(Int), Serving, \A v \in Workers : Follows(v, begun), NEW v \in Workers
        PROVE  Paced(v)'
    <3>1. ~aborted[0]
      BY <2>4 DEF ClusterInv, HeadServes
    <3>2. Paced(v) /\ (Runs(v) \/ (rank[v].pc = "idle" /\ v # w))
      BY <2>4, <1>4 DEF Follows, Copies
    <3> QED BY <3>1, <3>2, <2>1, <1>1, <1>2, <1>3, PacedByEntering DEF Runs
  <2>5. ASSUME NEW begun \in Seq(Int), Copies(w, begun) PROVE Copies(w, begun)'
    <3>1. /\ rank'[w].req = rank[w].req /\ rank'[w].tokens = rank[w].tokens /\ rank'[w].snap = rank[w].snap
          /\ rank'[w].chunk = rank[w].chunk /\ rank'[w].pc = rank[w].pc /\ rank'[w].ok = rank[w].ok
          /\ rank'[0] = rank[0] /\ requests' = requests /\ kv' = kv /\ snaps' = snaps
          /\ aborted' = aborted /\ ~aborted[w]
      <4>1. rank'[0] = rank[0]
        BY <1>1, <1>2
      <4>2. rank'[w].pc = rank[w].pc /\ rank'[w].ok = rank[w].ok
        BY <2>1
      <4>3. /\ rank'[w].req = rank[w].req /\ rank'[w].tokens = rank[w].tokens
            /\ rank'[w].snap = rank[w].snap /\ rank'[w].chunk = rank[w].chunk
        BY <1>2
      <4> QED BY <4>1, <4>2, <4>3, <1>3, <1>6
    <3>2. HeadsOwn(0, rank[w].tokens)' <=> HeadsOwn(0, rank[w].tokens)
      BY <3>1 DEF HeadsOwn
    <3>3. Holds(w, begun) => Holds(w, begun)'
      BY <3>1 DEF Holds
    <3>4. ~StuckAtStart(w) /\ ~StuckAtStart(w)'
      BY <3>1 DEF StuckAtStart
    <3>5. Runs(w)' <=> Runs(w)
      BY <3>1 DEF Runs
    <3> QED BY <3>1, <3>2, <3>3, <3>4, <3>5, <2>5 DEF Copies
  <2> QED BY <2>2, <2>3, <2>4, <2>5, <1>1, <1>2, <1>3, <1>4, WorkerWorks DEF Follows, Saving
<1> QED BY <1>5, <1>6

LEMMA PacedByLeaving ==
  ASSUME TypeOK, Lockstep, NEW i \in Ranks, rank[i].inside, rank'[i].inside = FALSE,
         rank'[i].chunk = rank[i].chunk + 1, rank'[i].pc = rank[i].pc, rank'[i].req = rank[i].req,
         \A j \in Ranks \ {i} : rank'[j] = rank[j],
         entered' = entered, aborted' = aborted, requests' = requests, NEW v \in Workers, Paced(v)
  PROVE  Paced(v)'
<1>1. 0 \in Ranks /\ v \in Ranks
  BY RankZero
<1>2. \A j \in Ranks : rank[j].chunk \in Int /\ entered[j] \in {0, 1}
  <2>1. \A j \in Ranks : rank[j].chunk \in Int
    BY RankTypes
  <2> QED BY <2>1 DEF Lockstep
<1>3. \A j \in Ranks : Matched(j)' = Matched(j)
  BY <1>2 DEF Matched
<1>4. rank'[0].pc = rank[0].pc /\ rank'[v].req = rank[v].req
  BY <1>1
<1> QED BY <1>1, <1>3, <1>4 DEF Paced, Runs

LEMMA WorkerLeaveForwardStep ==
  ASSUME ClusterInv, NEW w \in Workers, LeaveForward(w)
  PROVE  ClusterInv'
<1>1. TypeOK /\ Lockstep /\ w \in Ranks /\ 0 \in Ranks /\ w # 0 /\ Workers \subseteq Ranks
  BY RankZero DEF ClusterInv
<1>2. /\ TypeOK' /\ Lockstep' /\ entered[w] = 0
      /\ \A j \in Ranks \ {w} : rank'[j] = rank[j] /\ kv'[j] = kv[j] /\ snaps'[j] = snaps[j]
      /\ rank'[w].req = rank[w].req /\ rank'[w].tokens = rank[w].tokens
      /\ rank'[w].snap = rank[w].snap /\ rank'[w].ok = rank[w].ok /\ rank[w].ok
      /\ rank[w].inside /\ rank'[w].inside = FALSE
  BY <1>1, LeaveForwardDoes
<1>3. \/ /\ rank[w].pc = "prefill" /\ rank'[w].pc = "prefill" /\ rank[w].chunk < Chunks
         /\ rank'[w].chunk = rank[w].chunk + 1
         /\ IF rank[w].chunk + 1 = Chunks
            THEN /\ kv'[w] = Append(kv[w], - rank[w].req)
                 /\ rank[w].snap = None => snaps' = snaps
                 /\ rank[w].snap # None =>
                      /\ snaps'[w][rank[w].snap[1]] \in {None, kv'[w]}
                      /\ \A s \in Slots : s # rank[w].snap[1] => snaps'[w][s] = snaps[w][s]
            ELSE kv' = kv /\ snaps' = snaps
      \/ /\ rank[w].pc = "forward" /\ rank'[w].pc = "decide" /\ rank'[w].chunk = rank[w].chunk
         /\ kv'[w] = Append(kv[w], Last(rank[w].tokens)) /\ snaps' = snaps
      \/ /\ rank[w].pc = "verify" /\ rank'[w].pc = "accept" /\ rank'[w].chunk = rank[w].chunk
         /\ kv' = kv /\ snaps' = snaps
  BY <1>1, LeaveForwardDoes
<1>4. UNCHANGED <<proc, entered, aborted, chan, back, exiting, requests>>
  BY DEF LeaveForward, links, counts
<1>5. HeadKept /\ \A v \in Workers \ {w} : Kept(v)
  BY <1>1, <1>2, <1>4 DEF HeadKept, Kept
<1>6. rank[w].pc # "idle" /\ rank'[w].pc # "idle" /\ rank'[w].pc \notin {"end", "gather"}
  BY <1>3
<1>7. Unmatched => Unmatched'
  <2>1. \A v \in Workers : rank'[v].req = rank[v].req /\ rank'[v].tokens = rank[v].tokens
    BY <1>1, <1>2
  <2> QED BY <2>1, <1>1, <1>2, <1>4, UnmatchedKept
<1>8. ASSUME NEW v \in Workers, NEW begun \in Seq(Int), Follows(v, begun), Follows(w, begun),
             HeadHolds(begun), Busy
      PROVE  Paced(v)'
  <2>1. Paced(v)
    BY <1>8 DEF Follows
  <2>2. CASE rank[w].pc = "prefill"
    BY <2>1, <2>2, <1>1, <1>2, <1>3, <1>4, PacedByLeaving
  <2>3. CASE rank[0].pc # "prefill"
    BY <2>3, <1>1, <1>2 DEF Paced
  <2>4. CASE rank[w].pc # "prefill" /\ rank[0].pc = "prefill"
    <3>1. rank[w].tokens # <<>>
      BY <2>4, <1>1, <1>3, RankTypes DEF WellFormed
    <3>2. rank[0].tokens = <<>>
      BY <2>4, <1>1, RankTypes DEF WellFormed
    <3>3. HeadsOwn(0, rank[w].tokens)
      BY <1>6, <1>8 DEF Follows, Copies
    <3>4. Len(rank[w].tokens) > 0 /\ 0 + Len(rank[w].tokens) = Len(rank[w].tokens) /\ Len(rank[0].tokens) = 0
      <4>1. rank[w].tokens \in Seq(Tokens)
        BY <1>1, RankTypes
      <4> QED BY <3>1, <3>2, <4>1
    <3> QED BY <2>4, <3>3, <3>4 DEF HeadsOwn
  <2> QED BY <2>2, <2>3, <2>4
<1>9. Chunks \in Nat \ {0} /\ rank[w].chunk \in 0..Chunks /\ rank[w].snap \in SlotOrNone
      /\ rank[w].tokens \in Seq(Tokens) /\ kv[w] \in Seq(Int)
  BY <1>1, RankTypes, ClusterAssumption
<1>10. ASSUME NEW begun \in Seq(Int), Serving, Busy, HeadHolds(begun), Follows(w, begun)
       PROVE  /\ Runs(w) /\ rank[w].pc = "prefill" /\ rank[w].chunk + 1 = Chunks => kv'[w] = begun
              /\ Holds(w, begun)'
  <2>1. Runs(w) /\ Holds(w, begun)
    <3>1. Runs(w)
      BY <1>6, <1>10 DEF Follows, Copies
    <3> QED BY <3>1, <1>2, <1>10 DEF Follows, Copies, StuckAtStart
  <2>2. CASE rank[w].pc = "prefill"
    <3>1. begun = Append(kv[w], - requests)
      BY <2>1, <2>2, <1>3, <1>9 DEF Holds
    <3>2. CASE rank[w].chunk + 1 = Chunks
      BY <3>1, <3>2, <2>1, <2>2, <1>3 DEF Holds, Runs
    <3>3. CASE rank[w].chunk + 1 # Chunks
      BY <3>1, <3>3, <2>1, <2>2, <1>3, <1>4 DEF Holds
    <3> QED BY <3>2, <3>3
  <2>3. CASE rank[w].pc = "forward"
    <3>1. rank[w].tokens # <<>> /\ kv[w] = begun \o Front(rank[w].tokens)
      BY <2>1, <2>3 DEF Holds
    <3>2. Append(begun \o Front(rank[w].tokens), Last(rank[w].tokens)) = begun \o rank[w].tokens
      <4>1. rank[w].tokens \in Seq(Int)
        BY <1>9, SeqWidens, TokensInt
      <4> QED BY <3>1, <4>1, CacheGrows
    <3>3. kv'[w] = begun \o rank'[w].tokens
      BY <3>1, <3>2, <2>3, <1>2, <1>3
    <3> QED BY <3>3, <2>3, <1>3 DEF Holds
  <2>4. CASE rank[w].pc = "verify"
    BY <2>1, <2>4, <1>2, <1>3 DEF Holds
  <2> QED BY <2>2, <2>3, <2>4, <2>1, <1>3 DEF Runs
<1>11. ASSUME NEW begun \in Seq(Int), Serving, Busy, HeadHolds(begun), Follows(w, begun)
       PROVE  Copies(w, begun)'
  <2>1. Runs(w) /\ Copies(w, begun)
    BY <1>6, <1>10, <1>11 DEF Follows, Copies
  <2>2. Runs(w)' /\ HeadsOwn(0, rank[w].tokens)'
    BY <2>1, <1>1, <1>2, <1>4 DEF Copies, Runs, HeadsOwn
  <2>3. Holds(w, begun)'
    BY <1>10, <1>11
  <2>4. /\ rank'[w].snap = rank'[0].snap
        /\ rank'[w].snap # None /\ rank'[w].chunk = Chunks =>
             snaps'[w][rank'[w].snap[1]] \in {None, begun}
    <3>1. /\ rank[w].snap = rank[0].snap
          /\ rank[w].snap # None /\ rank[w].chunk = Chunks =>
               snaps[w][rank[w].snap[1]] \in {None, begun}
      BY <2>1, <1>6 DEF Copies
    <3> SUFFICES ASSUME rank[w].snap # None, rank'[w].chunk = Chunks
                 PROVE  snaps'[w][rank[w].snap[1]] \in {None, begun}
      BY <3>1, <1>1, <1>2
    <3>2. CASE rank[w].pc = "prefill" /\ rank[w].chunk + 1 = Chunks
      BY <3>1, <3>2, <2>1, <1>3, <1>10, <1>11
    <3>3. CASE rank[w].pc = "prefill" /\ rank[w].chunk + 1 # Chunks
      BY <3>1, <3>3, <1>3
    <3>4. CASE rank[w].pc # "prefill"
      BY <3>1, <3>4, <1>3
    <3> QED BY <3>2, <3>3, <3>4
  <2> QED BY <2>2, <2>3, <2>4, <1>6 DEF Copies
<1>12. ASSUME NEW s \in Slots, Serving, ~aborted[w], snaps[0][s] # None,
              snaps[w][s] \in {None, snaps[0][s]} \/ Saving(w, s)
       PROVE  snaps'[w][s] \in {None, snaps[0][s]} \/ Saving(w, s)'
  <2>1. CASE rank[w].pc = "prefill" /\ rank[w].chunk + 1 = Chunks /\ rank[w].snap = <<s>>
    <3>1. Busy
      BY <1>6, <1>12, AtWork DEF Serving
    <3>2. PICK begun \in Seq(Int) : HeadHolds(begun) /\ \A v \in Workers : Follows(v, begun)
      BY <3>1, <1>12 DEF ClusterInv, Together
    <3>3. rank[w].snap[1] = s /\ rank[w].snap # None
      BY <2>1 DEF None
    <3>4. Runs(w) /\ rank[0].snap = rank[w].snap
      BY <3>2, <3>3, <1>6 DEF Follows, Copies
    <3>5. kv'[w] = begun
      BY <3>1, <3>2, <3>4, <2>1, <1>10, <1>12
    <3>6. snaps'[w][s] \in {None, begun}
      BY <3>3, <3>5, <2>1, <1>3
    <3>7. snaps[0][s] = begun
      BY <3>2, <3>3, <3>4, <1>12 DEF HeadHolds
    <3> QED BY <3>6, <3>7
  <2>2. CASE ~(rank[w].pc = "prefill" /\ rank[w].chunk + 1 = Chunks /\ rank[w].snap = <<s>>)
    <3>1. ~Saving(w, s)
      BY <2>2 DEF Saving
    <3>2. snaps'[w][s] = snaps[w][s]
      <4>1. CASE rank[w].pc = "prefill" /\ rank[w].chunk + 1 = Chunks /\ rank[w].snap # None
        <5>1. rank[w].snap[1] # s
          BY <4>1, <2>2, <1>9 DEF SlotOrNone
        <5> QED BY <5>1, <4>1, <1>3
      <4>2. CASE ~(rank[w].pc = "prefill" /\ rank[w].chunk + 1 = Chunks /\ rank[w].snap # None)
        BY <4>2, <1>3
      <4> QED BY <4>1, <4>2
    <3> QED BY <3>1, <3>2, <1>12
  <2> QED BY <2>1, <2>2
<1> QED BY <1>1, <1>2, <1>4, <1>5, <1>6, <1>7, <1>8, <1>11, <1>12, WorkerWorks
(* A rank that adopts what the head shipped still holds what it answered,  *)
(* but for the last token. *)
LEMMA AdoptHolds ==
  ASSUME TypeOK, NEW i \in Ranks, NEW begun \in Seq(Int), Holds(i, begun),
         NEW kept \in Seq(Tokens), requests' = requests,
         rank'[i].tokens = rank[i].tokens \o kept, rank'[i].tokens # <<>>,
         rank'[i].pc \in {"forward", "draft", "verify", "end"},
         \/ rank[i].pc = "decide" /\ kv'[i] = kv[i] /\ (\E t \in Tokens : kept = <<t>>)
         \/ rank[i].pc = "draft" /\ kv'[i] = kv[i] /\ kept = <<>>
         \/ /\ rank[i].pc = "accept" /\ kept # <<>>
            /\ kv'[i] = (kv[i] \o <<Last(rank[i].tokens)>>) \o Front(kept)
  PROVE  Holds(i, begun)'
<1> DEFINE t == rank[i].tokens
<1>1. t \in Seq(Int) /\ kept \in Seq(Int) /\ kv[i] \in Seq(Int)
  <2>1. t \in Seq(Tokens)
    BY RankTypes
  <2> QED BY <2>1, RankTypes, SeqWidens, TokensInt
<1>2. t = rank[i].tokens
  OBVIOUS
<1> HIDE DEF t
<1>3. kv'[i] = begun \o Front(t \o kept)
  <2>1. CASE rank[i].pc = "decide" /\ kv'[i] = kv[i] /\ (\E x \in Tokens : kept = <<x>>)
    <3>1. PICK x \in Tokens : kept = <<x>>
      BY <2>1
    <3>2. kept # <<>> /\ Front(kept) = <<>>
      <4>1. SubSeq(<<x>>, 1, 0) = <<>>
        OBVIOUS
      <4>2. Len(<<x>>) - 1 = 0 /\ <<x>> # <<>>
        OBVIOUS
      <4> QED BY <3>1, <4>1, <4>2 DEF Front
    <3>3. Front(t \o kept) = t \o <<>>
      <4>1. Front(t \o kept) = t \o Front(kept)
        BY <3>2, <1>1, HistoryGrows
      <4> QED BY <4>1, <3>2
    <3>4. t \o <<>> = t
      BY <1>1
    <3>5. kv[i] = begun \o t
      BY <2>1, <1>2 DEF Holds
    <3> QED BY <3>3, <3>4, <3>5, <2>1
  <2>2. CASE rank[i].pc = "draft" /\ kv'[i] = kv[i] /\ kept = <<>>
    <3>1. t \o kept = t
      BY <2>2, <1>1
    <3>2. kv[i] = begun \o Front(t)
      BY <2>2, <1>2 DEF Holds
    <3> QED BY <3>1, <3>2, <2>2
  <2>3. CASE /\ rank[i].pc = "accept" /\ kept # <<>>
             /\ kv'[i] = (kv[i] \o <<Last(rank[i].tokens)>>) \o Front(kept)
    <3>1. t # <<>> /\ kv[i] = begun \o Front(t)
      BY <2>3, <1>2 DEF Holds
    <3>2. ((begun \o Front(t)) \o <<Last(t)>>) \o Front(kept) = begun \o Front(t \o kept)
      BY <3>1, <2>3, <1>1, HistoryGrows
    <3>3. kv'[i] = ((begun \o Front(t)) \o <<Last(t)>>) \o Front(kept)
      BY <3>1, <2>3, <1>2
    <3> QED BY <3>2, <3>3
  <2> QED BY <2>1, <2>2, <2>3
<1> QED BY <1>2, <1>3 DEF Holds

LEMMA HeadsOwnJoins ==
  ASSUME TypeOK, NEW t \in Seq(Tokens), NEW u \in Seq(Tokens), HeadsOwn(0, t), HeadsOwn(Len(t), u)
  PROVE  HeadsOwn(0, t \o u)
<1> DEFINE h == rank[0].tokens
           n == Len(t)
<1>1. h \in Seq(Tokens)
  BY RankZero, RankTypes
<1>2. /\ n \in Nat /\ Len(u) \in Nat /\ Len(h) \in Nat /\ Len(t \o u) = n + Len(u)
      /\ \A k \in 1..n + Len(u) : (t \o u)[k] = IF k <= n THEN t[k] ELSE u[k - n]
  BY <1>1, ConcatProperties
<1>3. /\ \A k \in 1..n : 0 + k <= Len(h) => h[0 + k] = t[k]
      /\ \A k \in 1..Len(u) : n + k <= Len(h) => h[n + k] = u[k]
      /\ n + Len(u) > Len(h) => rank[0].pc \in {"end", "gather"}
  BY DEF HeadsOwn
<1> HIDE DEF h, n
<1>4. ASSUME NEW k \in 1..n + Len(u), 0 + k <= Len(h) PROVE h[0 + k] = (t \o u)[k]
  <2>1. CASE k <= n
    <3>1. k \in 1..n
      BY <2>1, <1>2
    <3> QED BY <3>1, <2>1, <1>2, <1>3, <1>4
  <2>2. CASE ~(k <= n)
    <3>1. k - n \in 1..Len(u) /\ n + (k - n) = 0 + k
      BY <2>2, <1>2
    <3> QED BY <3>1, <2>2, <1>2, <1>3, <1>4
  <2> QED BY <2>1, <2>2
<1>5. 0 + Len(t \o u) > Len(h) => rank[0].pc \in {"end", "gather"}
  BY <1>2, <1>3
<1> QED BY <1>2, <1>4, <1>5 DEF HeadsOwn, h

LEMMA WorkerFollowsStep ==
  ASSUME ClusterInv, NEW w \in Workers, WorkerFollows(w)
  PROVE  ClusterInv'
<1> DEFINE m == Head(chan[w])
           r == rank[w]
<1>1. TypeOK /\ Lockstep /\ w \in Ranks /\ 0 \in Ranks /\ w # 0 /\ Workers \subseteq Ranks
  BY RankZero DEF ClusterInv
<1>2. /\ ~r.inside /\ chan[w] # <<>> /\ r.pc \in {"decide", "draft", "accept"}
      /\ UNCHANGED <<snaps, proc, entered, aborted, back, exiting, requests>>
  BY DEF WorkerFollows, Reads, FrameOf, counts
<1>3. CASE ~(m.type = FrameOf[r.pc] /\ m.req = r.req /\ m.step = Len(r.tokens))
  <2>1. Failed(w) /\ UNCHANGED <<kv, saveable>> /\ (chan' = chan \/ Consumes(w))
    BY <1>3 DEF WorkerFollows
  <2> QED BY <2>1, <1>2, WorkerFailsStep
<1>4. CASE m.type = FrameOf[r.pc] /\ m.req = r.req /\ m.step = Len(r.tokens)
  <2>1. Consumes(w) /\ Adopt(w, m, m.tokens)
    BY <1>4 DEF WorkerFollows
  <2>2. m \in Frames /\ m \in Range(chan[w])
    BY <1>1, <1>2, QueueTypes
  <2>3. /\ r.pc = "decide" => m.type = "Decision"
        /\ r.pc = "draft" => m.type = "Draft"
        /\ r.pc = "accept" => m.type = "Accept"
    BY <1>4 DEF FrameOf
  <2>4. m.type \in {"Decision", "Draft", "Accept"}
    BY <2>3, <1>2
  <2>5. m \in Decisions
    BY <2>2, <2>4, FrameKinds
  <2>6. /\ m.req \in Nat /\ m.step \in Nat /\ m.tokens \in Seq(Tokens) /\ m.stop \in BOOLEAN
        /\ m.type = "Decision" => \E t \in Tokens : m.tokens = <<t>>
        /\ m.type = "Draft" => m.tokens = <<>>
        /\ m.type = "Accept" => m.tokens # <<>>
    BY <2>5, DecisionKinds
  <2>7. r.pc # "draft" => m.tokens # <<>>
    <3>1. \A t \in Tokens : <<t>> # <<>>
      OBVIOUS
    <3> QED BY <3>1, <2>3, <2>6, <1>2
  <2> HIDE DEF m
  <2>8. /\ rank' \in [Ranks -> Generations] /\ kv' \in [Ranks -> Seq(Int)]
        /\ saveable' \in [Ranks -> BOOLEAN] /\ \A j \in Ranks : WellFormed(rank'[j])
        /\ \A j \in Ranks \ {w} : rank'[j] = rank[j] /\ kv'[j] = kv[j]
        /\ r.tokens \o m.tokens = rank'[w].tokens
        /\ rank'[w].req = r.req /\ rank'[w].chunk = r.chunk
        /\ rank'[w].inside = r.inside /\ rank'[w].ok = r.ok
        /\ rank'[w].snap = r.snap
        /\ rank'[w].pc \in {"forward", "draft", "verify", "end"}
        /\ kv'[w] = IF m.type = "Accept" THEN (kv[w] \o <<Last(r.tokens)>>) \o Front(m.tokens)
                    ELSE kv[w]
        /\ rank'[w].tokens # <<>>
    BY <2>1, <2>3, <2>5, <2>6, <2>7, <1>1, <1>2, AdoptProps
  <2>9. /\ chan' \in [Workers -> Seq(Frames)] /\ chan'[w] = Tail(chan[w])
        /\ \A v \in Workers \ {w} : chan'[v] = chan[v]
    BY <2>1, <1>1, <1>2, ConsumesProps
  <2>10. TypeOK'
    BY <2>8, <2>9, <1>1, <1>2 DEF TypeOK
  <2>11. Lockstep'
    <3>1. \A j \in Ranks : ~rank'[j].inside /\ ~aborted'[j] => ~rank[j].inside /\ ~aborted[j]
      BY <2>8, <1>2
    <3> QED BY <3>1, <1>1, <1>2, LockstepKept
  <2>12. HeadKept /\ \A v \in Workers \ {w} : Kept(v)
    BY <2>8, <2>9, <1>1, <1>2 DEF HeadKept, Kept
  <2>13. ASSUME NEW v \in Workers, Paced(v) PROVE Paced(v)'
    <3>1. CASE v = w
      BY <3>1, <2>8, <2>13, <1>1, <1>2 DEF Paced, Matched, Runs
    <3>2. CASE v # w
      BY <3>2, <2>8, <2>13, <1>1, <1>2 DEF Paced, Matched, Runs
    <3> QED BY <3>1, <3>2
  <2>14. Range(Tail(chan[w])) \subseteq Range(chan[w])
    BY <1>1, <1>2, QueueTypes, TailProps
  <2>15. r.tokens \in Seq(Tokens)
    BY <1>1, RankTypes
  <2>16. ASSUME NEW begun \in Seq(Int), Serving, Busy, HeadHolds(begun), \A v \in Workers : Follows(v, begun)
         PROVE  Copies(w, begun)' /\ (rank[0].tokens # <<>> /\ Unmatched => Unmatched')
    <3>1. Runs(w) /\ Copies(w, begun) /\ HeadsOwn(0, r.tokens)
      BY <2>16, <1>2 DEF Follows, Copies
    <3>2. m.req = requests
      BY <3>1, <1>4 DEF Runs, m
    <3>3. HeadsOwn(Len(r.tokens), m.tokens)
      BY <3>2, <2>2, <2>4, <2>16, <1>4 DEF Follows, FramesRight, FrameRight, m
    <3>4. HeadsOwn(0, r.tokens \o m.tokens)
      BY <3>1, <3>3, <2>6, <2>15, <1>1, HeadsOwnJoins
    <3>5. Runs(w)' /\ HeadsOwn(0, rank[w].tokens)'
      <4>1. HeadsOwn(0, rank'[w].tokens)
        BY <3>4, <2>8
      <4>2. rank'[0] = rank[0]
        BY <2>8, <1>1
      <4> QED BY <4>1, <4>2, <3>1, <2>8, <1>2 DEF Runs, HeadsOwn
    <3>6. Holds(w, begun)'
      <4>1. Holds(w, begun)
        <5>1. r.ok
          BY <1>1, <1>2, RankTypes DEF WellFormed
        <5> QED BY <5>1, <3>1, <1>2 DEF Copies, StuckAtStart
      <4>2. \/ r.pc = "decide" /\ kv'[w] = kv[w] /\ (\E t \in Tokens : m.tokens = <<t>>)
            \/ r.pc = "draft" /\ kv'[w] = kv[w] /\ m.tokens = <<>>
            \/ /\ r.pc = "accept" /\ m.tokens # <<>>
               /\ kv'[w] = (kv[w] \o <<Last(r.tokens)>>) \o Front(m.tokens)
        BY <2>3, <2>6, <2>8, <1>2
      <4> QED BY <4>1, <4>2, <2>6, <2>8, <1>1, <1>2, AdoptHolds
    <3>7. Copies(w, begun)'
      BY <3>1, <3>5, <3>6, <2>8, <1>1, <1>2 DEF Copies, Runs
    <3>8. ASSUME Unmatched PROVE Unmatched'
      <4>1. Len(rank'[w].tokens) # Len(rank[0].tokens)
        <5>1. m.step + Len(m.tokens) # Len(rank[0].tokens)
          BY <3>2, <3>8, <2>2, <2>4 DEF Unmatched
        <5>2. m.step = Len(r.tokens)
          BY <1>4 DEF m
        <5>3. Len(rank'[w].tokens) = Len(r.tokens) + Len(m.tokens)
          <6>1. Len(r.tokens \o m.tokens) = Len(r.tokens) + Len(m.tokens)
            BY <2>6, <2>15
          <6> QED BY <6>1, <2>8
        <5> QED BY <5>1, <5>2, <5>3
      <4>2. rank'[0] = rank[0]
        BY <2>8, <1>1
      <4>3. \A v \in Workers : Range(chan'[v]) \subseteq Range(chan[v])
        BY <2>9, <2>14
      <4>4. \A v \in Workers \ {w} : rank'[v] = rank[v]
        BY <2>8, <1>1
      <4> QED BY <4>1, <4>2, <4>3, <4>4, <3>8, <1>2 DEF Unmatched, Runs
    <3> QED BY <3>7, <3>8
  <2>17. \A s \in Slots : ~Saving(w, s)
    BY <1>2 DEF Saving
  <2> QED BY <2>8, <2>9, <2>10, <2>11, <2>12, <2>13, <2>16, <2>17, <1>1, <1>2, WorkerWorks DEF Follows
<1> QED BY <1>3, <1>4
LEMMA WorkerEndStep ==
  ASSUME ClusterInv, NEW w \in Workers, WorkerEnd(w)
  PROVE  ClusterInv'
<1> DEFINE m == Head(chan[w])
           r == rank[w]
           report == [type |-> "Report", req |-> r.req]
<1>1. TypeOK /\ Lockstep /\ w \in Ranks /\ 0 \in Ranks /\ w # 0 /\ Workers \subseteq Ranks
  BY RankZero DEF ClusterInv
<1>2. /\ ~r.inside /\ chan[w] # <<>> /\ r.pc = "end"
      /\ UNCHANGED <<kv, saveable, snaps, entered, exiting, requests>>
  BY DEF WorkerEnd, Reads, data, counts
<1>3. CASE m.type \in {"Abort", "Shutdown"} \/ m.type # "RequestEnd" \/ m.req # r.req \/ Diverged(r, m)
  <2>1. PICK sent \in {<<>>, <<[type |-> "Abort"]>>} :
          /\ WorkerGone(w, sent) /\ rank' = rank
          /\ aborted' = aborted \/ aborted' = [aborted EXCEPT ![w] = TRUE]
    BY <1>3 DEF WorkerEnd, WorkerQuits, WorkerAborts
  <2> QED BY <2>1, <1>1, <1>2, WorkerGoneStep DEF TypeOK
<1>4. CASE m.type = "RequestEnd" /\ m.req = r.req /\ ~Diverged(r, m)
  <2> DEFINE q == [r EXCEPT !.pc = "idle"]
  <2>1. /\ rank' = [rank EXCEPT ![w] = q] /\ Consumes(w)
        /\ back' = [back EXCEPT ![w] = IF closed(w) THEN @ ELSE Append(@, report)]
        /\ UNCHANGED <<proc, aborted>>
    BY <1>4 DEF WorkerEnd
  <2>2. r \in Generations /\ WellFormed(r) /\ r.req \in Nat /\ r.tokens \in Seq(Tokens)
    BY <1>1, RankTypes
  <2>3. /\ q \in Generations /\ q.pc = "idle" /\ q.req = r.req /\ q.chunk = r.chunk /\ q.inside = r.inside
        /\ q.ok = r.ok /\ q.snap = r.snap /\ q.tokens = r.tokens
    BY <2>2 DEF Generations, Places
  <2> HIDE DEF q
  <2>4. WellFormed(q)
    BY <2>2, <2>3, <1>2 DEF WellFormed
  <2>5. /\ rank' \in [Ranks -> Generations] /\ \A j \in Ranks : WellFormed(rank'[j])
        /\ rank'[w] = q /\ \A j \in Ranks \ {w} : rank'[j] = rank[j]
    BY <2>1, <2>3, <2>4, <1>1, RankMoves
  <2>6. /\ chan' \in [Workers -> Seq(Frames)] /\ chan'[w] = Tail(chan[w])
        /\ \A v \in Workers \ {w} : chan'[v] = chan[v]
    BY <2>1, <1>1, <1>2, ConsumesProps
  <2>7. /\ back' \in [Workers -> Seq(Reports)] /\ \A v \in Workers \ {w} : back'[v] = back[v]
        /\ \A x \in Range(back'[w]) : x \in Range(back[w]) \/ x = report
    <3>1. back[w] \in Seq(Reports) /\ report \in Reports
      BY <2>2, <1>1, QueueTypes DEF Reports
    <3> HIDE DEF report
    <3>2. Append(back[w], report) \in Seq(Reports)
          /\ Range(Append(back[w], report)) = Range(back[w]) \cup {report}
      BY <3>1, AppendRange
    <3>3. PICK b \in Seq(Reports) : back' = [back EXCEPT ![w] = b] /\ (b = back[w] \/ b = Append(back[w], report))
      BY <2>1, <3>1, <3>2
    <3> QED BY <3>2, <3>3, <1>1 DEF TypeOK
  <2>8. TypeOK'
    BY <2>1, <2>5, <2>6, <2>7, <1>1, <1>2 DEF TypeOK
  <2>9. Lockstep'
    <3>1. \A j \in Ranks : ~rank'[j].inside /\ ~aborted'[j] => ~rank[j].inside /\ ~aborted[j]
      BY <2>1, <2>3, <2>5
    <3> QED BY <3>1, <1>1, <1>2, LockstepKept
  <2>10. HeadKept /\ \A v \in Workers \ {w} : Kept(v)
    BY <2>1, <2>5, <2>6, <2>7, <1>1, <1>2 DEF HeadKept, Kept
  <2>11. ASSUME NEW v \in Workers, Paced(v) PROVE Paced(v)'
    <3>1. \A j \in Ranks : rank'[j].chunk = rank[j].chunk /\ rank'[j].inside = rank[j].inside /\ rank'[j].req = rank[j].req
      BY <2>3, <2>5
    <3>2. rank'[0] = rank[0] /\ v \in Ranks
      BY <2>5, <1>1
    <3> QED BY <2>1, <2>11, <3>1, <3>2, <1>1, <1>2 DEF Paced, Matched, Runs
  <2>12. Unmatched => Unmatched'
    <3>1. Range(Tail(chan[w])) \subseteq Range(chan[w])
      BY <1>1, <1>2, QueueTypes, TailProps
    <3>2. \A v \in Workers : /\ rank'[v].req = rank[v].req /\ rank'[v].tokens = rank[v].tokens
                             /\ Range(chan'[v]) \subseteq Range(chan[v])
      BY <3>1, <2>3, <2>5, <2>6, <1>1
    <3> QED BY <3>2, <2>5, <1>1, <1>2, UnmatchedKept
  <2>13. ASSUME NEW begun \in Seq(Int), Follows(w, begun)
         PROVE  Copies(w, begun)' /\ ReportRight(w)'
    <3>1. Runs(w) /\ Copies(w, begun)
      BY <2>13, <1>2 DEF Follows, Copies
    <3>2. rank[0].pc = "gather" /\ m.ok = rank[0].ok /\ m.steps = Len(rank[0].tokens)
      <4>1. FrameRight(m, w, begun)
        BY <2>13, <1>1, <1>2, QueueTypes DEF Follows, FramesRight
      <4> QED BY <4>1, <3>1, <1>4 DEF FrameRight, Runs
    <3>3. rank'[0] = rank[0]
      BY <2>5, <1>1
    <3>4. Copies(w, begun)'
      BY <3>1, <3>2, <3>3, <2>3, <2>5, <1>2 DEF Copies, Runs, HeadsOwn, Holds, StuckAtStart
    <3>5. rank[0].ok => r.ok /\ Len(r.tokens) = Len(rank[0].tokens)
      BY <3>2, <1>4 DEF Diverged
    <3>6. ReportRight(w)'
      BY <3>1, <3>2, <3>3, <3>5, <2>3, <2>5, <1>2 DEF ReportRight, Runs
    <3> QED BY <3>4, <3>6
  <2>14. \A s \in Slots : ~Saving(w, s)
    BY <1>2 DEF Saving
  <2>15. r.pc # "idle" /\ rank'[w].req = r.req
    BY <1>2, <2>3, <2>5
  <2> HIDE DEF report
  <2>16. \A x \in Range(back'[w]) : x \in Range(back[w]) \/ x = [type |-> "Report", req |-> rank[w].req]
    BY <2>7 DEF report
  <2>17. ASSUME NEW begun \in Seq(Int), \A v \in Workers : Follows(v, begun)
         PROVE  /\ Copies(w, begun)' /\ (\A v \in Workers : Paced(v)') /\ ReportRight(w)'
                /\ (rank[0].tokens # <<>> /\ Unmatched => Unmatched')
    BY <2>11, <2>12, <2>13, <2>17 DEF Follows
  <2> QED BY <2>1, <2>6, <2>8, <2>9, <2>10, <2>14, <2>15, <2>16, <2>17, <1>2, WorkerWorks
<1> QED BY <1>3, <1>4

(* Between requests: a frame is read, and perhaps a snapshot is changed. *)
LEMMA WorkerReads ==
  ASSUME ClusterInv, NEW w \in Workers, rank[w].pc = "idle", chan[w] # <<>>, Consumes(w),
         UNCHANGED <<rank, kv, saveable, proc, entered, aborted, back, exiting, requests>>,
         snaps' \in [Ranks -> [Slots -> Seq(Int)]], \A i \in Ranks \ {w} : snaps'[i] = snaps[i],
         Serving => SnapsAgree(w)'
  PROVE  ClusterInv'
<1>1. TypeOK /\ Lockstep /\ w \in Ranks /\ 0 \in Ranks /\ w # 0 /\ Workers \subseteq Ranks
  BY RankZero DEF ClusterInv
<1>2. /\ chan' \in [Workers -> Seq(Frames)] /\ chan'[w] = Tail(chan[w])
      /\ \A v \in Workers \ {w} : chan'[v] = chan[v]
  BY <1>1, ConsumesProps
<1>3. Range(Tail(chan[w])) \subseteq Range(chan[w])
  BY <1>1, QueueTypes, TailProps
<1>4. TypeOK'
  BY <1>1, <1>2 DEF TypeOK
<1>5. Lockstep'
  BY <1>1, LockstepKept
<1>6. HeadKept /\ \A v \in Workers \ {w} : Kept(v)
  BY <1>1, <1>2 DEF HeadKept, Kept
<1>7. Serving' => Serving
  BY DEF Serving
<1>8. ~exiting /\ ~Busy => Agrees(w)'
  BY <1>2, <1>3 DEF ClusterInv, Agrees
<1>9. Serving => Known(w)'
  BY <1>2, <1>3 DEF ClusterInv, Known, Busy, Runs
<1>10. ASSUME NEW v \in Workers, Paced(v) PROVE Paced(v)'
  BY <1>10 DEF Paced, Matched, Runs
<1>11. Unmatched => Unmatched'
  <2>1. \A v \in Workers : Range(chan'[v]) \subseteq Range(chan[v])
    BY <1>2, <1>3
  <2> QED BY <2>1, UnmatchedKept
<1>12. ASSUME NEW begun \in Seq(Int), Follows(w, begun) PROVE Follows(w, begun)'
  <2>1. Copies(w, begun)'
    BY <1>12 DEF Follows, Copies, HeadsOwn, StuckAtStart, Holds, Runs
  <2>2. FramesRight(w, begun)'
    BY <1>1, <1>2, <1>6, <1>12, FewerFrames DEF Follows
  <2>3. ReportRight(w)'
    BY <1>12 DEF Follows, ReportRight, Reported, Runs
  <2> QED BY <2>1, <2>2, <2>3, <1>10, <1>12 DEF Follows
<1> DEFINE M == {w}
<1>13. M \in SUBSET Workers /\ (\A v \in Workers \ M : Kept(v)) /\ \A v \in M : v = w
  BY <1>6
<1> HIDE DEF M
<1> QED BY <1>4, <1>5, <1>6, <1>7, <1>8, <1>9, <1>10, <1>11, <1>12, <1>13, WorkersMove DEF Follows

LEMMA WorkerOtherStep ==
  ASSUME ClusterInv, NEW w \in Workers, WorkerOther(w)
  PROVE  ClusterInv'
<1>1. TypeOK /\ Lockstep
  BY DEF ClusterInv
<1>2. /\ chan[w] # <<>> /\ rank[w].pc = "idle" /\ Head(chan[w]).type # "Op"
      /\ UNCHANGED <<rank, kv, saveable, snaps, entered, exiting, requests>>
  BY DEF WorkerOther, Reads, data, counts
<1>3. CASE Head(chan[w]).type = "RequestEnd"
  <2>1. Consumes(w) /\ UNCHANGED <<proc, aborted, back>>
    BY <1>3 DEF WorkerOther
  <2>2. chan'[w] = Tail(chan[w])
    BY <2>1, <1>1, <1>2, ConsumesProps
  <2>3. ASSUME Serving PROVE SnapsAgree(w)'
    <3>1. SnapsAgree(w)
      BY <2>3 DEF ClusterInv
    <3>2. ASSUME NEW s \in Slots, SlotAgrees(w, s) PROVE SlotAgrees(w, s)'
      <4>1. ~OpOn(Head(chan[w]), s) /\ ~Saving(w, s)
        BY <1>2 DEF OpOn, Saving
      <4> QED BY <3>2, <4>1, <2>2, <1>1, <1>2, TailSlotAgrees
    <3> QED BY <3>1, <3>2, <2>1, <1>2 DEF SnapsAgree
  <2> QED BY <2>1, <2>3, <1>1, <1>2, WorkerReads DEF TypeOK
<1>4. CASE Head(chan[w]).type # "RequestEnd"
  <2>1. PICK sent \in {<<>>, <<[type |-> "Abort"]>>} :
          /\ WorkerGone(w, sent)
          /\ aborted' = aborted \/ aborted' = [aborted EXCEPT ![w] = TRUE]
    BY <1>4 DEF WorkerOther, WorkerQuits, WorkerAborts
  <2> QED BY <2>1, <1>1, <1>2, WorkerGoneStep DEF TypeOK
<1> QED BY <1>3, <1>4

LEMMA WorkerOpStep ==
  ASSUME ClusterInv, NEW w \in Workers, WorkerOp(w)
  PROVE  ClusterInv'
<1> DEFINE m == Head(chan[w])
<1>1. TypeOK /\ Lockstep /\ w \in Ranks /\ 0 \in Ranks /\ w # 0
  BY RankZero DEF ClusterInv
<1>2. /\ chan[w] # <<>> /\ rank[w].pc = "idle" /\ m.type = "Op"
      /\ UNCHANGED <<rank, kv, saveable, entered, exiting, requests>>
  BY DEF WorkerOp, Reads, counts
<1>3. m \in SnapshotOps
  BY <1>1, <1>2, QueueTypes, FrameKinds
<1>4. PICK z \in Slots : m.slot = z
  BY <1>3 DEF SnapshotOps
<1>5. PICK saved \in BOOLEAN :
        IF m.save /\ ~(saved /\ saveable[w])
        THEN WorkerAborts(w) /\ snaps' = [snaps EXCEPT ![w][z] = IF saved THEN @ ELSE None]
        ELSE /\ snaps' = [snaps EXCEPT ![w][z] = IF m.save THEN kv[w] ELSE None]
             /\ Consumes(w) /\ UNCHANGED <<proc, aborted, back>>
  <2>1. SaveResults \subseteq BOOLEAN
    BY DEF SaveResults
  <2> QED BY <2>1, <1>4 DEF WorkerOp
<1>6. None \in Seq(Int) /\ kv[w] \in Seq(Int) /\ snaps[w][z] \in Seq(Int)
      /\ snaps \in [Ranks -> [Slots -> Seq(Int)]]
  <2>1. snaps[w] \in [Slots -> Seq(Int)] /\ kv[w] \in Seq(Int)
    BY <1>1, RankTypes
  <2> QED BY <2>1, <1>1, <1>4 DEF None, TypeOK
<1>7. PICK x \in Seq(Int) :
        /\ snaps' = [snaps EXCEPT ![w][z] = x]
        /\ ~(m.save /\ ~(saved /\ saveable[w])) => x = IF m.save THEN kv[w] ELSE None
  <2>1. CASE m.save /\ ~(saved /\ saveable[w])
    <3>1. snaps' = [snaps EXCEPT ![w][z] = IF saved THEN snaps[w][z] ELSE None]
      BY <2>1, <1>5
    <3> QED BY <3>1, <2>1, <1>6
  <2>2. CASE ~(m.save /\ ~(saved /\ saveable[w]))
    BY <2>2, <1>5, <1>6
  <2> QED BY <2>1, <2>2
<1> HIDE DEF m
<1>8. /\ snaps' \in [Ranks -> [Slots -> Seq(Int)]] /\ \A i \in Ranks \ {w} : snaps'[i] = snaps[i]
      /\ snaps'[w][z] = x /\ \A s \in Slots \ {z} : snaps'[w][s] = snaps[w][s]
  BY <1>1, <1>4, <1>6, <1>7
<1>9. CASE m.save /\ ~(saved /\ saveable[w])
  <2>1. WorkerAborts(w)
    BY <1>5, <1>9
  <2> QED BY <2>1, <1>2, <1>8, WorkerGoneStep DEF WorkerAborts
<1>10. CASE ~(m.save /\ ~(saved /\ saveable[w]))
  <2>1. Consumes(w) /\ UNCHANGED <<proc, aborted, back>>
    BY <1>5, <1>10
  <2>2. chan'[w] = Tail(chan[w])
    BY <2>1, <1>1, <1>2, ConsumesProps
  <2>3. ASSUME Serving PROVE SnapsAgree(w)'
    <3>1. SnapsAgree(w)
      BY <2>3 DEF ClusterInv
    <3>2. ASSUME NEW s \in Slots, SlotAgrees(w, s), s # z PROVE SlotAgrees(w, s)'
      <4>1. ~OpOn(m, s) /\ ~Saving(w, s)
        BY <3>2, <1>2, <1>4 DEF OpOn, Saving
      <4>2. snaps'[0] = snaps[0] /\ snaps'[w][s] = snaps[w][s]
        BY <3>2, <1>1, <1>8
      <4> QED BY <3>2, <4>1, <4>2, <2>2, <1>1, <1>2, TailSlotAgrees DEF m
    <3>3. ASSUME SlotAgrees(w, z) PROVE SlotAgrees(w, z)'
      <4> DEFINE q == chan[w]
                 t == Tail(chan[w])
      <4>1. /\ Head(q) = q[1] /\ 1 \in DOMAIN q
            /\ \A k \in DOMAIN t : k + 1 \in DOMAIN q /\ t[k] = q[k + 1]
            /\ \A k \in DOMAIN q : k = 1 \/ (k - 1 \in DOMAIN t /\ q[k] = t[k - 1])
            /\ DOMAIN q \subseteq Int /\ \A k \in DOMAIN t : k \in Int /\ k > 0
        <5>1. q \in Seq(Frames) /\ Tail(q) \in Seq(Frames)
          BY <1>1, <1>2, QueueTypes, TailProps
        <5> QED BY <5>1, <1>2, TailProps
      <4>2. OpOn(q[1], z) /\ q[1] = m
        BY <4>1, <1>2, <1>4 DEF OpOn, m
      <4> HIDE DEF q, t
      <4>3. PICK k \in DOMAIN q : /\ OpOn(q[k], z) /\ \A l \in DOMAIN q : k < l => ~OpOn(q[l], z)
                                  /\ q[k].save => kv[w] = snaps[0][z]
        BY <3>3, <4>1, <4>2 DEF SlotAgrees, q
      <4>4. CASE k = 1
        <5>1. \A l \in DOMAIN t : ~OpOn(t[l], z)
          <6> SUFFICES ASSUME NEW l \in DOMAIN t PROVE ~OpOn(t[l], z)
            OBVIOUS
          <6>1. l + 1 \in DOMAIN q /\ t[l] = q[l + 1] /\ 1 < l + 1
            BY <4>1
          <6> QED BY <6>1, <4>3, <4>4
        <5>2. x \in {None, snaps[0][z]}
          BY <4>2, <4>3, <4>4, <1>7, <1>10
        <5>3. chan'[w] = t /\ snaps'[0] = snaps[0]
          BY <2>2, <1>1, <1>8 DEF t
        <5> QED BY <5>1, <5>2, <5>3, <1>8 DEF SlotAgrees, OpOn
      <4>5. CASE k # 1
        <5>1. k - 1 \in DOMAIN t /\ q[k] = t[k - 1]
          BY <4>1, <4>5
        <5>2. \A l \in DOMAIN t : k - 1 < l => ~OpOn(t[l], z)
          <6> SUFFICES ASSUME NEW l \in DOMAIN t, k - 1 < l PROVE ~OpOn(t[l], z)
            OBVIOUS
          <6>1. l + 1 \in DOMAIN q /\ t[l] = q[l + 1] /\ k < l + 1
            BY <4>1
          <6> QED BY <6>1, <4>3
        <5>3. chan'[w] = t /\ snaps'[0] = snaps[0]
          BY <2>2, <1>1, <1>8 DEF t
        <5> QED BY <5>1, <5>2, <5>3, <4>3, <1>2 DEF SlotAgrees, OpOn
      <4> QED BY <4>4, <4>5
    <3>4. snaps'[0] = snaps[0]
      BY <1>1, <1>8
    <3> QED BY <3>1, <3>2, <3>3, <3>4, <2>1 DEF SnapsAgree
  <2> QED BY <2>1, <2>3, <1>2, <1>8, WorkerReads
<1> QED BY <1>9, <1>10

LEMMA WorkerStartStep ==
  ASSUME ClusterInv, NEW w \in Workers, WorkerStart(w)
  PROVE  ClusterInv'
<1> DEFINE m == Head(chan[w])
<1>1. TypeOK /\ Lockstep /\ w \in Ranks /\ 0 \in Ranks /\ w # 0 /\ Workers \subseteq Ranks
  BY RankZero DEF ClusterInv
<1>2. /\ chan[w] # <<>> /\ rank[w].pc = "idle" /\ m.type = "Request"
      /\ Begin(w, m) /\ Consumes(w)
      /\ UNCHANGED <<snaps, proc, entered, aborted, back, exiting, requests>>
  BY DEF WorkerStart, Reads, counts
<1>3. /\ m \in Starts /\ m \in Range(chan[w]) /\ m = chan[w][1] /\ 1 \in DOMAIN chan[w]
      /\ Range(Tail(chan[w])) \subseteq Range(chan[w])
      /\ \A k \in DOMAIN Tail(chan[w]) : k + 1 \in DOMAIN chan[w] /\ Tail(chan[w])[k] = chan[w][k + 1] /\ 1 < k + 1
  <2>1. chan[w] \in Seq(Frames)
    BY <1>1, QueueTypes
  <2>2. /\ Tail(chan[w]) \in Seq(Frames) /\ m = chan[w][1] /\ m \in Range(chan[w]) /\ m \in Frames
        /\ 1 \in DOMAIN chan[w] /\ Range(Tail(chan[w])) \subseteq Range(chan[w])
        /\ \A k \in DOMAIN Tail(chan[w]) : k + 1 \in DOMAIN chan[w] /\ Tail(chan[w])[k] = chan[w][k + 1]
    BY <2>1, <1>2, TailProps
  <2>3. \A k \in DOMAIN Tail(chan[w]) : 1 < k + 1
    BY <2>2
  <2> QED BY <2>2, <2>3, <1>2, FrameKinds
<1> HIDE DEF m
<1>4. /\ rank' \in [Ranks -> Generations] /\ \A j \in Ranks : WellFormed(rank'[j])
      /\ kv' \in [Ranks -> Seq(Int)] /\ saveable' \in [Ranks -> BOOLEAN]
      /\ \A j \in Ranks \ {w} : rank'[j] = rank[j] /\ kv'[j] = kv[j]
      /\ rank'[w].req = m.req /\ rank'[w].chunk = 0 /\ rank'[w].inside = FALSE
      /\ rank'[w].snap = m.snap /\ rank'[w].tokens = <<>>
      /\ \/ /\ m.restore # None /\ m.restore[1] \in Slots /\ snaps[w][m.restore[1]] = None
            /\ rank'[w].pc = "end" /\ rank'[w].ok = FALSE
         \/ /\ rank'[w].pc = "prefill" /\ rank'[w].ok = TRUE
            /\ m.restore = None => kv'[w] = <<>>
            /\ m.restore # None =>
                 /\ m.restore[1] \in Slots /\ snaps[w][m.restore[1]] # None
                 /\ kv'[w] = snaps[w][m.restore[1]]
  <2>1. w \in Ranks /\ m \in Starts /\ Begin(w, m)
    BY <1>1, <1>2, <1>3
  <2>2. TypeOK
    BY <1>1
  <2> QED BY <2>1, <2>2, BeginProps
<1>5. /\ chan' \in [Workers -> Seq(Frames)] /\ chan'[w] = Tail(chan[w])
      /\ \A v \in Workers \ {w} : chan'[v] = chan[v]
  BY <1>1, <1>2, ConsumesProps
<1>6. TypeOK'
  BY <1>1, <1>2, <1>4, <1>5 DEF TypeOK
<1>7. ~rank[w].inside
  BY <1>1, <1>2, RankTypes DEF WellFormed, Forwards
<1>8. Lockstep'
  <2>1. \A j \in Ranks : ~rank'[j].inside /\ ~aborted'[j] => ~rank[j].inside /\ ~aborted[j]
    BY <1>2, <1>4, <1>7
  <2> QED BY <2>1, <1>1, <1>2, LockstepKept
<1>9. HeadKept /\ \A v \in Workers \ {w} : Kept(v)
  BY <1>1, <1>2, <1>4, <1>5 DEF HeadKept, Kept
<1>10. exiting \/ Busy
  BY <1>2, <1>3 DEF ClusterInv, Agrees
<1>11. ASSUME NEW begun \in Seq(Int), Follows(w, begun)
       PROVE  /\ m.req = requests /\ ~Runs(w) /\ m.snap = rank[0].snap
              /\ m.restore = None => begun = <<- requests>>
              /\ m.restore # None =>
                   snaps[0][m.restore[1]] # None /\ begun = Append(snaps[0][m.restore[1]], - requests)
              /\ \A x \in Range(chan[w]) : x.type # "Op"
              /\ \A x \in Range(Tail(chan[w])) : x.type \notin {"Op", "Request"}
  <2>1. FrameRight(m, w, begun)
    BY <1>3, <1>11 DEF Follows, FramesRight
  <2>2. \A k \in DOMAIN Tail(chan[w]) : Tail(chan[w])[k].type \notin {"Op", "Request"}
    BY <1>2, <1>3, <1>11 DEF Follows, FramesRight
  <2>3. \A x \in Range(Tail(chan[w])) : x.type \notin {"Op", "Request"}
    BY <2>2 DEF Range
  <2>4. \A x \in Range(chan[w]) : x = m \/ x \in Range(Tail(chan[w]))
    <3>1. chan[w] \in Seq(Frames)
      BY <1>1, QueueTypes
    <3>2. \A k \in DOMAIN chan[w] : k = 1 \/ (k - 1 \in DOMAIN Tail(chan[w]) /\ chan[w][k] = Tail(chan[w])[k - 1])
      BY <3>1, <1>2, TailProps
    <3> SUFFICES ASSUME NEW k \in DOMAIN chan[w]
                 PROVE  chan[w][k] = m \/ chan[w][k] \in Range(Tail(chan[w]))
      BY DEF Range
    <3>3. CASE k = 1
      <4>1. Head(chan[w]) = chan[w][1]
        BY <3>1, <1>2, TailProps
      <4> QED BY <3>3, <4>1, <1>3
    <3>4. CASE k # 1
      <4>1. k - 1 \in DOMAIN Tail(chan[w]) /\ chan[w][k] = Tail(chan[w])[k - 1]
        BY <3>2, <3>4
      <4> QED BY <4>1 DEF Range
    <3> QED BY <3>3, <3>4
  <2> QED BY <2>1, <2>3, <2>4, <1>2 DEF FrameRight
<1>12. ASSUME Serving PROVE Known(w)' /\ SnapsAgree(w)'
  <2>1. Busy
    BY <1>10, <1>12 DEF Serving
  <2>2. PICK begun \in Seq(Int) : Follows(w, begun)
    BY <2>1, <1>12 DEF ClusterInv, Together
  <2>3. Known(w) /\ SnapsAgree(w)
    BY <1>12 DEF ClusterInv
  <2>4. m.req = requests /\ \A x \in Range(chan[w]) : x.type # "Op"
    BY <2>2, <1>11
  <2>5. Known(w)'
    <3>1. requests <= requests
      BY <1>1 DEF TypeOK
    <3> QED BY <3>1, <2>3, <2>4, <1>2, <1>3, <1>4, <1>5 DEF Known
  <2>6. \A s \in Slots : ~Saving(w, s)
    BY <1>7 DEF Saving
  <2>7. ASSUME NEW s \in Slots, SlotAgrees(w, s) PROVE SlotAgrees(w, s)'
    BY <2>4, <2>6, <2>7, <1>2, <1>3, <1>5, NoOpsSlotAgrees
  <2>8. SnapsAgree(w)'
    BY <2>3, <2>7, <1>2 DEF SnapsAgree
  <2> QED BY <2>5, <2>8
<1>13. ASSUME NEW v \in Workers, v # w, Paced(v) PROVE Paced(v)'
  BY <1>13, <1>1, <1>2, <1>4 DEF Paced, Matched, Runs
<1>14. ASSUME NEW begun \in Seq(Int), Serving, Busy, HeadHolds(begun), \A v \in Workers : Follows(v, begun)
       PROVE  Follows(w, begun)' /\ (rank[0].tokens # <<>> /\ Unmatched => Unmatched')
  <2>1. /\ m.req = requests /\ ~Runs(w) /\ m.snap = rank[0].snap
        /\ m.restore = None => begun = <<- requests>>
        /\ m.restore # None =>
             snaps[0][m.restore[1]] # None /\ begun = Append(snaps[0][m.restore[1]], - requests)
        /\ \A x \in Range(chan[w]) : x.type # "Op"
        /\ \A x \in Range(Tail(chan[w])) : x.type \notin {"Op", "Request"}
    BY <1>11, <1>14
  <2>2. rank'[0] = rank[0] /\ rank'[w].pc # "idle" /\ rank[0].tokens \in Seq(Tokens)
        /\ Chunks # 0 /\ Len(<<>>) = 0
    BY <1>1, <1>4, RankTypes, ClusterAssumption
  <2>3. HeadsOwn(0, rank[w].tokens)'
    <3>1. rank'[w].tokens = <<>> /\ Len(rank[0].tokens) >= 0
      BY <2>2, <1>4
    <3>2. HeadsOwn(0, <<>>)
      BY <3>1, <2>2 DEF HeadsOwn
    <3> QED BY <3>1, <3>2, <2>2 DEF HeadsOwn
  <2>4. ASSUME rank'[w].ok, ~StuckAtStart(w)' PROVE Holds(w, begun)'
    <3>1. rank'[w].pc = "prefill" /\ ~aborted[w]
      BY <2>4, <1>2, <1>4 DEF StuckAtStart
    <3>2. begun = Append(kv'[w], - requests)
      <4>1. CASE m.restore = None
        <5>1. Append(<<>>, - requests) = <<- requests>>
          OBVIOUS
        <5> QED BY <4>1, <5>1, <3>1, <2>1, <1>4
      <4>2. CASE m.restore # None
        <5>1. m.restore[1] \in Slots /\ snaps[w][m.restore[1]] # None /\ kv'[w] = snaps[w][m.restore[1]]
          BY <4>2, <3>1, <1>4
        <5>2. proc[w] # "exited"
          BY DEF WorkerStart, Reads, Up
        <5>3. SlotAgrees(w, m.restore[1])
          BY <5>1, <5>2, <4>2, <3>1, <2>1, <1>14 DEF ClusterInv, SnapsAgree
        <5>4. ~Saving(w, m.restore[1])
          BY <1>7 DEF Saving
        <5>5. \A k \in DOMAIN chan[w] : chan[w][k].type # "Op"
          BY <2>1 DEF Range
        <5>6. snaps[w][m.restore[1]] = snaps[0][m.restore[1]]
          BY <5>1, <5>3, <5>4, <5>5 DEF SlotAgrees, OpOn
        <5> QED BY <5>1, <5>6, <4>2, <2>1
      <4> QED BY <4>1, <4>2
    <3> QED BY <3>1, <3>2, <2>2, <1>2, <1>4 DEF Holds
  <2>5. Copies(w, begun)'
    BY <2>1, <2>2, <2>3, <2>4, <1>2, <1>4 DEF Copies, Runs
  <2>6. FramesRight(w, begun)'
    <3>1. \A x \in Range(chan'[w]) : x.type # "Request"
      BY <2>1, <1>5
    <3> QED BY <3>1, <1>1, <1>2, <1>5, <1>9, <1>14, FewerFrames DEF Follows
  <2>7. Paced(w)'
    <3> SUFFICES ASSUME rank[0].pc = "prefill", ~aborted[w]
                 PROVE  Matched(0)' = Matched(w)'
      BY <2>1, <2>2, <1>2, <1>4 DEF Paced, Runs
    <3>1. Matched(0) = 0
      BY <2>1, <1>14 DEF Follows, Paced
    <3>2. Matched(0)' = Matched(0)
      BY <2>2, <1>2 DEF Matched
    <3>3. entered[w] = 0
      BY <1>1, <1>7 DEF Lockstep
    <3>4. Matched(w)' = 0
      BY <3>3, <1>2, <1>4 DEF Matched
    <3> QED BY <3>1, <3>2, <3>4
  <2>8. ReportRight(w)'
    <3>1. ~Reported(w)
      BY <2>1, <1>14 DEF Follows, ReportRight
    <3>2. ~Reported(w)'
      BY <3>1, <2>2, <1>2 DEF Reported
    <3> QED BY <3>2 DEF ReportRight
  <2>9. ASSUME rank[0].tokens # <<>>, Unmatched PROVE Unmatched'
    <3>1. Len(rank[0].tokens) # 0
      BY <2>2, <2>9
    <3>2. \A v \in Workers : Range(chan'[v]) \subseteq Range(chan[v])
      BY <1>3, <1>5
    <3>3. \A v \in Workers \ {w} : rank'[v] = rank[v]
      BY <1>1, <1>4
    <3>4. Runs(w)' => Len(rank'[w].tokens) # Len(rank'[0].tokens)
      BY <3>1, <2>2, <1>4
    <3>5. \A v \in Workers \ {w} :
            Runs(v)' => Len(rank'[v].tokens) # Len(rank'[0].tokens)
      BY <3>3, <2>2, <2>9, <1>2 DEF Unmatched, Runs
    <3>6. \A v \in Workers : \A x \in Range(chan'[v]) :
            x.type \in {"Decision", "Draft", "Accept"} /\ x.req = requests' =>
              x.step + Len(x.tokens) # Len(rank'[0].tokens)
      BY <3>2, <2>2, <2>9, <1>2 DEF Unmatched
    <3> QED BY <3>4, <3>5, <3>6 DEF Unmatched
  <2> QED BY <2>5, <2>6, <2>7, <2>8, <2>9 DEF Follows
<1> DEFINE M == {w}
<1>15. M \in SUBSET Workers /\ (\A v \in Workers \ M : Kept(v)) /\ \A v \in M : v = w
  BY <1>9
<1>16. Serving' => Serving
  BY <1>2 DEF Serving
<1> HIDE DEF M
<1>17. \A v \in M : ~exiting /\ ~Busy => Agrees(v)'
  BY <1>10
<1>18. \A v \in M : Serving => Known(v)' /\ SnapsAgree(v)'
  BY <1>12, <1>15
<1>19. \A begun \in Seq(Int) :
         Serving /\ Busy /\ HeadHolds(begun) /\ (\A v \in Workers : Follows(v, begun)) =>
           /\ \A v \in M : Follows(v, begun)'
           /\ \A v \in Workers \ M : Paced(v)'
           /\ rank[0].tokens # <<>> /\ Unmatched => Unmatched'
  <2> SUFFICES ASSUME NEW begun \in Seq(Int), Serving, Busy, HeadHolds(begun), \A v \in Workers : Follows(v, begun)
               PROVE  /\ \A v \in M : Follows(v, begun)'
                      /\ \A v \in Workers \ M : Paced(v)'
                      /\ rank[0].tokens # <<>> /\ Unmatched => Unmatched'
    OBVIOUS
  <2>1. \A v \in Workers \ M : v # w /\ Paced(v)
    BY DEF M, Follows
  <2> QED BY <2>1, <1>13, <1>14, <1>15
<1> QED BY <1>6, <1>8, <1>9, <1>15, <1>16, <1>17, <1>18, <1>19, WorkersMove

LEMMA WorkerSteps ==
  ASSUME ClusterInv, NEW w \in Workers, WorkerStep(w) \/ Compute(w)
  PROVE  ClusterInv'
<1>1. CASE WorkerStep(w)
  BY <1>1, WorkerStartStep, WorkerOpStep, WorkerOtherStep, WorkerFollowsStep, WorkerMissesStep,
     WorkerEndStep, WorkerEndMissingStep, WorkerWatchdogStep DEF WorkerStep
<1>2. CASE Compute(w)
  BY <1>2, WorkerEnterForwardStep, WorkerLeaveForwardStep, WorkerMissesStep, WorkerStartDecodeStep DEF Compute
<1> QED BY <1>1, <1>2
(***************************************************************************)
(* The head's steps.                                                       *)
(***************************************************************************)

(* A longer answer keeps what it had, and the head is past its end only    *)
(* once nothing is added.                                                  *)
LEMMA HeadsOwnGrows ==
  ASSUME TypeOK, NEW t \in Seq(Tokens), rank'[0].tokens = rank[0].tokens \o t,
         rank[0].pc # "gather", rank[0].pc = "end" => t = <<>> /\ rank'[0].pc \in {"end", "gather"},
         NEW step \in Nat, NEW u \in Seq(Tokens), HeadsOwn(step, u)
  PROVE  HeadsOwn(step, u)'
<1>1. rank[0].tokens \in Seq(Tokens)
  BY RankZero, RankTypes
<1>2. CASE rank[0].pc = "end"
  <2>1. rank'[0].tokens = rank[0].tokens
    BY <1>1, <1>2
  <2> QED BY <2>1, <1>2 DEF HeadsOwn
<1>3. CASE rank[0].pc # "end"
  <2>1. step + Len(u) <= Len(rank[0].tokens)
    BY <1>1, <1>3 DEF HeadsOwn
  <2>2. /\ Len(rank'[0].tokens) = Len(rank[0].tokens) + Len(t) /\ Len(t) \in Nat /\ Len(u) \in Nat
        /\ \A k \in DOMAIN rank[0].tokens : rank'[0].tokens[k] = rank[0].tokens[k]
    BY <1>1, ConcatProps
  <2>3. ASSUME NEW k \in 1..Len(u)
        PROVE  step + k \in DOMAIN rank[0].tokens /\ step + k <= Len(rank[0].tokens)
    BY <1>1, <2>1
  <2>4. \A k \in 1..Len(u) : rank'[0].tokens[step + k] = u[k]
    BY <2>2, <2>3 DEF HeadsOwn
  <2>5. step + Len(u) <= Len(rank'[0].tokens) /\ Len(rank'[0].tokens) \in Nat
    BY <1>1, <2>1, <2>2
  <2>6. ~(step + Len(u) > Len(rank'[0].tokens))
    BY <2>2, <2>5
  <2> QED BY <2>4, <2>6 DEF HeadsOwn
<1> QED BY <1>2, <1>3

(* Frames added to a queue. *)
LEMMA MoreFrames ==
  ASSUME TypeOK, NEW w \in Workers, NEW f \in Seq(Frames),
         chan'[w] = chan[w] \/ chan'[w] = chan[w] \o f
  PROVE  /\ \A m \in Range(chan'[w]) : m \in Range(chan[w]) \/ m \in Range(f)
         /\ \A k \in DOMAIN chan[w] : k \in DOMAIN chan'[w] /\ chan'[w][k] = chan[w][k]
         /\ \A k \in DOMAIN chan'[w] :
              \/ k \in DOMAIN chan[w] /\ chan'[w][k] = chan[w][k]
              \/ chan'[w][k] \in Range(f) /\ \A l \in DOMAIN chan[w] : l < k
<1>1. chan[w] \in Seq(Frames)
  BY QueueTypes
<1>2. CASE chan'[w] = chan[w]
  BY <1>2
<1>3. CASE chan'[w] = chan[w] \o f
  <2>1. /\ Range(chan'[w]) = Range(chan[w]) \cup Range(f)
        /\ \A k \in DOMAIN chan[w] : k \in DOMAIN chan'[w] /\ chan'[w][k] = chan[w][k]
        /\ \A k \in DOMAIN f : chan'[w][Len(chan[w]) + k] = f[k]
        /\ \A k \in DOMAIN chan'[w] : k \in DOMAIN chan[w] \/ k - Len(chan[w]) \in DOMAIN f
    BY <1>1, <1>3, ConcatProps
  <2>2. ASSUME NEW k \in DOMAIN chan'[w], k - Len(chan[w]) \in DOMAIN f
        PROVE  chan'[w][k] \in Range(f) /\ \A l \in DOMAIN chan[w] : l < k
    <3>1. chan'[w] \in Seq(Frames)
      BY <1>1, <1>3
    <3>2. k \in Nat /\ Len(chan[w]) \in Nat /\ DOMAIN f = 1..Len(f) /\ DOMAIN chan[w] = 1..Len(chan[w])
      BY <3>1, <1>1, <2>2
    <3>3. Len(chan[w]) + (k - Len(chan[w])) = k
      BY <3>2
    <3>4. chan'[w][k] = f[k - Len(chan[w])]
      BY <3>3, <2>1, <2>2
    <3>5. \A l \in DOMAIN chan[w] : l < k
      BY <3>2, <2>2
    <3> QED BY <3>4, <3>5, <2>2 DEF Range
  <2> QED BY <2>1, <2>2
<1> QED BY <1>2, <1>3

(* So the last operation on a slot stays the last. *)
LEMMA NoNewOps ==
  ASSUME TypeOK, NEW w \in Workers, NEW f \in Seq(Frames),
         chan'[w] = chan[w] \/ chan'[w] = chan[w] \o f, NEW s \in Slots,
         \A m \in Range(f) : ~OpOn(m, s), snaps'[0][s] = snaps[0][s], snaps'[w] = snaps[w], kv'[w] = kv[w],
         Saving(w, s) => Saving(w, s)', SlotAgrees(w, s)
  PROVE  SlotAgrees(w, s)'
<1>1. /\ \A k \in DOMAIN chan[w] : k \in DOMAIN chan'[w] /\ chan'[w][k] = chan[w][k]
      /\ \A k \in DOMAIN chan'[w] :
           \/ k \in DOMAIN chan[w] /\ chan'[w][k] = chan[w][k]
           \/ chan'[w][k] \in Range(f)
  BY MoreFrames
<1>2. \A k \in DOMAIN chan'[w] : OpOn(chan'[w][k], s) => k \in DOMAIN chan[w] /\ OpOn(chan[w][k], s)
  BY <1>1 DEF OpOn
<1>3. \A k \in DOMAIN chan'[w] : OpOn(chan[w][k], s)' <=> OpOn(chan'[w][k], s)
  BY DEF OpOn
<1>4. CASE \A k \in DOMAIN chan[w] : ~OpOn(chan[w][k], s)
  <2>1. snaps[w][s] \in {None, snaps[0][s]} \/ Saving(w, s)
    BY <1>4 DEF SlotAgrees
  <2>2. \A k \in DOMAIN chan'[w] : ~OpOn(chan'[w][k], s)
    BY <1>2, <1>4
  <2>3. (\A k \in DOMAIN chan[w] : ~OpOn(chan[w][k], s))'
    BY <2>2, <1>3
  <2>4. (snaps[w][s] \in {None, snaps[0][s]} \/ Saving(w, s))'
    BY <2>1
  <2> QED BY <2>3, <2>4 DEF SlotAgrees
<1>5. CASE \E k \in DOMAIN chan[w] : OpOn(chan[w][k], s)
  <2>1. PICK k \in DOMAIN chan[w] :
          /\ OpOn(chan[w][k], s) /\ \A l \in DOMAIN chan[w] : k < l => ~OpOn(chan[w][l], s)
          /\ chan[w][k].save => kv[w] = snaps[0][s]
    BY <1>5 DEF SlotAgrees
  <2>2. k \in DOMAIN chan'[w] /\ chan'[w][k] = chan[w][k] /\ OpOn(chan'[w][k], s)
    BY <2>1, <1>1
  <2>3. \A l \in DOMAIN chan'[w] : k < l => ~OpOn(chan'[w][l], s)
    BY <2>1, <1>1, <1>2
  <2> QED BY <2>1, <2>2, <2>3 DEF SlotAgrees, OpOn
<1> QED BY <1>4, <1>5
(* What the steps of a head at its request have in common: it adds t to    *)
(* its answer and f to the workers' queues.                                *)
LEMMA HeadMoves ==
  ASSUME ClusterInv, Serving, TypeOK', Lockstep', rank[0].pc \notin {"idle", "gather"},
         rank'[0].pc # "idle", rank'[0].gathered = {}, rank'[0].req = rank[0].req,
         rank'[0].snap = rank[0].snap,
         UNCHANGED <<exiting, proc, aborted, requests, back>>,
         \A w \in Workers : rank'[w] = rank[w] /\ kv'[w] = kv[w] /\ snaps'[w] = snaps[w],
         NEW t \in Seq(Tokens), rank'[0].tokens = rank[0].tokens \o t,
         rank[0].pc = "end" => t = <<>> /\ rank'[0].pc \in {"end", "gather"},
         NEW f \in Seq(Frames), \A w \in Workers : chan'[w] = chan[w] \/ chan'[w] = chan[w] \o f,
         \A m \in Range(f) :
           \/ m.type \in {"Decision", "Draft", "Accept"} /\ m.req = rank[0].req /\ HeadsOwn(m.step, m.tokens)'
           \/ /\ m.type = "RequestEnd" /\ m.req = rank[0].req
              /\ rank'[0].pc = "gather" /\ m.ok = rank'[0].ok /\ m.steps = Len(rank'[0].tokens),
         \A s \in Slots : <<s>> # rank[0].snap => snaps'[0][s] = snaps[0][s],
         \A begun \in Seq(Int) :
           HeadHolds(begun) /\ (\A v \in Workers : Follows(v, begun)) =>
             /\ HeadHolds(begun)'
             /\ \A v \in Workers : Paced(v)'
             /\ \A v \in Workers, s \in Slots :
                  ~aborted[v] /\ proc[v] # "exited" /\ snaps'[0][s] # snaps[0][s] /\ snaps'[0][s] # None =>
                    SlotAgrees(v, s)'
  PROVE  ClusterInv'
<1>1. TypeOK /\ Busy /\ Busy' /\ Serving' /\ \A w \in Workers : Known(w) /\ SnapsAgree(w)
  BY DEF ClusterInv, Busy, Serving
<1>2. PICK begun \in Seq(Int) : HeadHolds(begun) /\ \A v \in Workers : Follows(v, begun)
  BY <1>1 DEF ClusterInv, Together
<1>3. rank[0].req = requests /\ rank[0].snap \in SlotOrNone /\ requests \in Nat
  BY <1>1, <1>2, RankZero, RankTypes DEF HeadHolds, TypeOK
<1>4. \A m \in Range(f) : m.type \in {"Decision", "Draft", "Accept", "RequestEnd"} /\ m.req = requests
  BY <1>3
<1>5. \A w \in Workers : \A m \in Range(chan'[w]) : m \in Range(chan[w]) \/ m \in Range(f)
  BY <1>1, MoreFrames
<1>6. ASSUME NEW w \in Workers PROVE Known(w)'
  <2>1. Runs(w)' <=> Runs(w)
    BY DEF Runs
  <2>2. requests <= requests
    BY <1>3
  <2> QED BY <1>1, <1>4, <1>5, <2>1, <2>2 DEF Known
<1>7. ASSUME NEW w \in Workers PROVE SnapsAgree(w)'
  <2> SUFFICES ASSUME ~aborted[w], proc[w] # "exited", NEW s \in Slots, snaps'[0][s] # None
               PROVE  SlotAgrees(w, s)'
    BY DEF SnapsAgree
  <2>1. CASE snaps'[0][s] = snaps[0][s]
    <3>1. SlotAgrees(w, s)
      BY <1>1, <2>1 DEF SnapsAgree
    <3>2. \A m \in Range(f) : ~OpOn(m, s)
      BY <1>4 DEF OpOn
    <3>3. Saving(w, s) => Saving(w, s)'
      BY <1>1 DEF Saving, Runs
    <3> QED BY <1>1, <2>1, <3>1, <3>2, <3>3, NoNewOps
  <2>2. CASE snaps'[0][s] # snaps[0][s]
    BY <1>2, <2>2
  <2> QED BY <2>1, <2>2
<1>8. ASSUME NEW w \in Workers PROVE Follows(w, begun)'
  <2>1. Runs(w)' <=> Runs(w)
    BY DEF Runs
  <2>2. /\ Copies(w, begun) /\ FramesRight(w, begun) /\ ReportRight(w)
    BY <1>2 DEF Follows
  <2>3. /\ rank[w].tokens \in Seq(Tokens) /\ chan[w] \in Seq(Frames)
    BY <1>1, RankZero, RankTypes, QueueTypes
  <2>4. Copies(w, begun)'
    <3>1. Runs(w) => HeadsOwn(0, rank[w].tokens)'
      <4>1. ASSUME HeadsOwn(0, rank[w].tokens) PROVE HeadsOwn(0, rank[w].tokens)'
        <5>1. PICK u \in Seq(Tokens) : u = rank[w].tokens
          BY <2>3
        <5>2. HeadsOwn(0, u)'
          BY <5>1, <4>1, <1>1, HeadsOwnGrows
        <5> QED BY <5>1, <5>2 DEF HeadsOwn
      <4> QED BY <4>1, <2>2 DEF Copies
    <3>2. Holds(w, begun) => Holds(w, begun)'
      BY DEF Holds
    <3>3. StuckAtStart(w)' <=> StuckAtStart(w)
      BY DEF StuckAtStart
    <3> QED BY <3>1, <3>2, <3>3, <2>1, <2>2 DEF Copies
  <2>5. ASSUME NEW m \in Range(chan[w]) PROVE FrameRight(m, w, begun)'
    <3>1. FrameRight(m, w, begun) /\ m \in Frames
      BY <2>2, <2>3 DEF FramesRight, Range
    <3>2. ASSUME m.type \in {"Decision", "Draft", "Accept"}, m.req = requests
          PROVE  HeadsOwn(m.step, m.tokens)'
      <4>1. m.step \in Nat /\ m.tokens \in Seq(Tokens)
        BY <3>1, <3>2, FrameKinds, DecisionKinds
      <4>2. HeadsOwn(m.step, m.tokens)
        BY <3>1, <3>2 DEF FrameRight
      <4> QED BY <4>1, <4>2, <1>1, HeadsOwnGrows
    <3>3. m.type = "RequestEnd" => m.req # requests
      BY <3>1 DEF FrameRight
    <3>4. ASSUME m.type = "Request"
          PROVE  /\ m.req = requests /\ ~Runs(w) /\ m.snap = rank[0].snap
                 /\ m.restore = None => begun = <<- requests>>
                 /\ m.restore # None =>
                      /\ m.restore # m.snap /\ snaps'[0][m.restore[1]] # None
                      /\ begun = Append(snaps'[0][m.restore[1]], - requests)
      <4>1. /\ m.req = requests /\ ~Runs(w) /\ m.snap = rank[0].snap
            /\ m.restore = None => begun = <<- requests>>
            /\ m.restore # None =>
                 /\ m.restore # m.snap /\ snaps[0][m.restore[1]] # None
                 /\ begun = Append(snaps[0][m.restore[1]], - requests)
        BY <3>1, <3>4 DEF FrameRight
      <4>2. m.restore \in SlotOrNone
        BY <3>1, <3>4, FrameKinds DEF Starts
      <4>3. m.restore # None => m.restore[1] \in Slots /\ <<m.restore[1]>> = m.restore
        BY <4>2 DEF SlotOrNone
      <4> QED BY <4>1, <4>3
    <3> QED BY <3>2, <3>3, <3>4, <2>1 DEF FrameRight
  <2>6. ASSUME NEW m \in Range(f) PROVE FrameRight(m, w, begun)'
    BY <1>3, <1>4 DEF FrameRight
  <2>7. FramesRight(w, begun)'
    <3>1. /\ \A k \in DOMAIN chan'[w] :
               \/ k \in DOMAIN chan[w] /\ chan'[w][k] = chan[w][k]
               \/ chan'[w][k] \in Range(f)
      BY <1>1, MoreFrames
    <3>2. \A k, l \in DOMAIN chan'[w] :
            chan'[w][k].type = "Request" /\ k < l => chan'[w][l].type \notin {"Request", "Op"}
      BY <3>1, <2>2, <1>4 DEF FramesRight
    <3>3. \A m \in Range(chan'[w]) : FrameRight(m, w, begun)'
      BY <1>5, <2>5, <2>6
    <3> QED BY <3>2, <3>3 DEF FramesRight
  <2>8. ReportRight(w)'
    BY <2>2, <1>1 DEF ReportRight, Reported, ClusterInv, HeadServes
  <2>9. Paced(w)'
    BY <1>2
  <2> QED BY <2>4, <2>7, <2>8, <2>9 DEF Follows
<1>9. Together'
  BY <1>2, <1>8 DEF Together
<1>10. HeadServes'
  BY <1>1 DEF ClusterInv, HeadServes
<1> QED BY <1>1, <1>6, <1>7, <1>9, <1>10 DEF ClusterInv
(* What a broadcast of one frame, or of two, does to the queues.            *)
LEMMA SentFrames ==
  ASSUME TypeOK, NEW f \in Seq(Frames), chan' = Sent(f)
  PROVE  /\ chan' \in [Workers -> Seq(Frames)]
         /\ \A w \in Workers : chan'[w] = chan[w] \/ chan'[w] = chan[w] \o f
         /\ \A w \in Workers : \A x \in Range(chan'[w]) : x \in Range(chan[w]) \/ x \in Range(f)
<1>1. \A w \in Workers : chan[w] \in Seq(Frames) /\ chan[w] \o f \in Seq(Frames)
  BY DEF TypeOK
<1>2. \A w \in Workers : chan'[w] = chan[w] \/ chan'[w] = chan[w] \o f
  BY DEF Sent
<1>3. chan' \in [Workers -> Seq(Frames)]
  BY <1>1, <1>2 DEF Sent
<1> QED BY <1>2, <1>3, MoreFrames

LEMMA SmallSeqs ==
  /\ \A m \in Frames : <<m>> \in Seq(Frames) /\ Range(<<m>>) = {m}
  /\ \A m, n \in Frames : <<m, n>> \in Seq(Frames) /\ Range(<<m, n>>) = {m, n}
  /\ <<>> \in Seq(Tokens) /\ <<>> \in Seq(Frames) /\ Range(<<>>) = {}
<1>1. ASSUME NEW m \in Frames PROVE <<m>> \in Seq(Frames) /\ Range(<<m>>) = {m}
  BY DEF Range
<1>2. ASSUME NEW m \in Frames, NEW n \in Frames
      PROVE  <<m, n>> \in Seq(Frames) /\ Range(<<m, n>>) = {m, n}
  <2>1. DOMAIN <<m, n>> = {1, 2} /\ <<m, n>>[1] = m /\ <<m, n>>[2] = n
    OBVIOUS
  <2> QED BY <2>1 DEF Range
<1> QED BY <1>1, <1>2 DEF Range

(* Once the head gives up, only the types and the collectives are left to  *)
(* keep; and once its process is gone, what an idle worker has read.       *)
LEMMA GivesUp ==
  ASSUME TypeOK', Lockstep', exiting' = TRUE
  PROVE  ClusterInv'
BY DEF ClusterInv, Serving

LEMMA HeadStops ==
  ASSUME ClusterInv, TypeOK', proc'[0] = "exited",
         UNCHANGED <<rank, kv, entered, aborted, exiting>>,
         \A w \in Workers : \A m \in Range(chan'[w]) : m \in Range(chan[w]) \/ m.type # "Request"
  PROVE  ClusterInv'
<1>1. Lockstep'
  BY DEF ClusterInv, Lockstep
<1>2. ASSUME ~exiting, ~Busy, NEW w \in Workers PROVE Agrees(w)'
  BY <1>2 DEF ClusterInv, Agrees
<1> QED BY <1>1, <1>2 DEF ClusterInv, Busy, Serving

LEMMA HeadDiesStep ==
  ASSUME ClusterInv, Dies(0) \/ HeadExit
  PROVE  ClusterInv'
<1>1. TypeOK
  BY DEF ClusterInv
<1>2. HeadGone(TRUE) /\ UNCHANGED <<rank, kv, saveable, snaps, entered, aborted, exiting, requests>>
  BY RankZero DEF Dies, HeadExit, data, counts
<1>3. /\ proc' \in [Ranks -> {"up", "frozen", "exited"}] /\ proc'[0] = "exited"
      /\ chan' \in [Workers -> Seq(Frames)] /\ back' \in [Workers -> Seq(Reports)]
      /\ \A w \in Workers : Range(chan'[w]) \subseteq Range(chan[w])
  BY <1>1, <1>2, HeadGoneProps
<1>4. TypeOK'
  BY <1>1, <1>2, <1>3 DEF TypeOK
<1> QED BY <1>2, <1>3, <1>4, HeadStops

LEMMA HeadShutdownStep ==
  ASSUME ClusterInv, HeadShutdown
  PROVE  ClusterInv'
<1>1. TypeOK
  BY DEF ClusterInv
<1>2. /\ UNCHANGED <<rank, kv, saveable, snaps, entered, aborted, exiting, requests>>
      /\ proc' = [proc EXCEPT ![0] = "exited"] /\ chan' = Sent(<<[type |-> "Shutdown"]>>)
      /\ back' = [w \in Workers |-> <<>>]
  BY DEF HeadShutdown, data, counts
<1>3. PICK f \in Seq(Frames) : f = <<[type |-> "Shutdown"]>> /\ Range(f) = {[type |-> "Shutdown"]}
  BY <1>1, FrameTypes, SmallSeqs
<1>4. /\ chan' \in [Workers -> Seq(Frames)]
      /\ \A w \in Workers : \A x \in Range(chan'[w]) : x \in Range(chan[w]) \/ x \in Range(f)
  BY <1>1, <1>2, <1>3, SentFrames
<1>5. proc' \in [Ranks -> {"up", "frozen", "exited"}] /\ proc'[0] = "exited"
  BY <1>1, <1>2, RankZero DEF TypeOK
<1>6. back' \in [Workers -> Seq(Reports)]
  BY <1>2
<1>7. TypeOK'
  BY <1>1, <1>2, <1>4, <1>5, <1>6 DEF TypeOK
<1>8. ASSUME NEW w \in Workers, NEW m \in Range(chan'[w])
      PROVE  m \in Range(chan[w]) \/ m.type # "Request"
  <2>1. m \in Range(chan[w]) \/ m = [type |-> "Shutdown"]
    BY <1>3, <1>4, <1>8
  <2> QED BY <2>1
<1> QED BY <1>2, <1>5, <1>7, <1>8, HeadStops

(* A head that is up and has not given up serves.                          *)
LEMMA HeadUp ==
  ASSUME ClusterInv, Up(0), ~exiting
  PROVE  Serving /\ ~aborted[0] /\ TypeOK /\ Lockstep
         /\ (rank[0].pc # "gather" => rank[0].gathered = {})
         /\ rank[0].tokens \in Seq(Tokens) /\ rank[0].tokens = rank[0].tokens \o <<>>
<1>1. rank[0].tokens \in Seq(Tokens)
  BY RankZero, RankTypes DEF ClusterInv
<1>2. rank[0].tokens = rank[0].tokens \o <<>>
  BY <1>1
<1> QED BY <1>1, <1>2 DEF ClusterInv, Serving, Up, HeadServes

(* A step that sends nothing and adds no token.                            *)
LEMMA HeadMovesQuietly ==
  ASSUME ClusterInv, Serving, TypeOK', Lockstep', rank[0].pc \notin {"idle", "gather", "end"},
         rank'[0].pc # "idle", rank'[0].gathered = rank[0].gathered, rank'[0].req = rank[0].req,
         rank'[0].snap = rank[0].snap, rank'[0].tokens = rank[0].tokens,
         UNCHANGED <<exiting, proc, aborted, requests, chan, back>>,
         \A w \in Workers : rank'[w] = rank[w] /\ kv'[w] = kv[w] /\ snaps'[w] = snaps[w],
         \A s \in Slots : <<s>> # rank[0].snap => snaps'[0][s] = snaps[0][s],
         \A begun \in Seq(Int) :
           HeadHolds(begun) /\ (\A v \in Workers : Follows(v, begun)) =>
             /\ HeadHolds(begun)'
             /\ \A v \in Workers : Paced(v)'
             /\ \A v \in Workers, s \in Slots :
                  ~aborted[v] /\ proc[v] # "exited" /\ snaps'[0][s] # snaps[0][s] /\ snaps'[0][s] # None =>
                    SlotAgrees(v, s)'
  PROVE  ClusterInv'
<1>1. PICK t \in Seq(Tokens), f \in Seq(Frames) : t = <<>> /\ f = <<>>
  BY SmallSeqs
<1>2. rank'[0].tokens = rank[0].tokens \o t /\ rank[0].gathered = {}
  BY <1>1, RankZero, RankTypes DEF ClusterInv, HeadServes
<1>3. \A m \in Range(f) : FALSE
  BY <1>1, SmallSeqs
<1> QED BY <1>1, <1>2, <1>3, HeadMoves

LEMMA HeadEnterForwardStep ==
  ASSUME ClusterInv, EnterForward(0)
  PROVE  ClusterInv'
<1>1. TypeOK /\ Lockstep
  BY DEF ClusterInv
<1>2. /\ TypeOK' /\ Lockstep' /\ \A j \in Ranks \ {0} : rank'[j] = rank[j]
      /\ rank'[0].req = rank[0].req /\ rank'[0].tokens = rank[0].tokens
      /\ rank'[0].snap = rank[0].snap /\ rank'[0].chunk = rank[0].chunk
      /\ rank'[0].gathered = rank[0].gathered
      /\ rank[0].pc \in Forwards /\ ~rank[0].inside
      /\ \/ aborted[0] /\ rank'[0].pc = "end" /\ rank'[0].ok = FALSE /\ entered' = entered
         \/ /\ ~aborted[0] /\ rank'[0].pc = rank[0].pc /\ rank'[0].ok = rank[0].ok
            /\ rank'[0].inside = TRUE /\ entered[0] = 0
            /\ \E c \in {0, 1} : /\ entered'[0] = 1 - c
                                 /\ \A j \in Ranks \ {0} : entered'[j] = entered[j] - c
  BY <1>1, RankZero, EnterForwardDoes
<1>3. Up(0) /\ UNCHANGED <<kv, snaps, proc, aborted, chan, back, exiting, requests>>
  BY DEF EnterForward, data, links, counts
<1>4. CASE exiting
  BY <1>2, <1>3, <1>4, GivesUp DEF TypeOK
<1>5. CASE ~exiting
  <2>1. /\ Serving /\ ~aborted[0] /\ rank[0].gathered = {}
        /\ rank[0].tokens \in Seq(Tokens) /\ rank[0].tokens = rank[0].tokens \o <<>>
    BY <1>2, <1>3, <1>5, HeadUp DEF Forwards
  <2>2. rank[0].pc \notin {"idle", "gather", "end", "decide"} /\ rank'[0].pc = rank[0].pc
    BY <1>2, <2>1 DEF Forwards
  <2>3. PICK c \in {0, 1} : /\ entered[0] = 0 /\ entered'[0] = 1 - c /\ rank'[0].inside = TRUE
                            /\ \A j \in Ranks \ {0} : entered'[j] = entered[j] - c
    BY <1>2, <2>1
  <2>4. ASSUME NEW begun \in Seq(Int), HeadHolds(begun), \A v \in Workers : Follows(v, begun)
        PROVE  HeadHolds(begun)' /\ \A v \in Workers : Paced(v)'
    <3>1. HeadHolds(begun)'
      BY <2>2, <2>4, <1>2, <1>3 DEF HeadHolds, Holds
    <3>2. ASSUME NEW v \in Workers PROVE Paced(v)'
      <4>1. Paced(v) /\ (rank[v].req = requests \/ (rank[v].pc = "idle" /\ v # 0))
        BY <2>4, RankZero DEF Follows, Copies, Runs
      <4> QED BY <4>1, <1>1, <1>2, <1>3, <2>1, <2>2, <2>3, RankZero, PacedByEntering
    <3> QED BY <3>1, <3>2
  <2>5. \A w \in Workers : rank'[w] = rank[w] /\ kv'[w] = kv[w] /\ snaps'[w] = snaps[w]
    BY <1>2, <1>3, RankZero
  <2>6. \A s \in Slots : snaps'[0][s] = snaps[0][s]
    BY <1>3
  <2>7. \A v \in Workers, s \in Slots :
          ~aborted[v] /\ proc[v] # "exited" /\ snaps'[0][s] # snaps[0][s] /\ snaps'[0][s] # None =>
            SlotAgrees(v, s)'
    BY <2>6
  <2>8. UNCHANGED <<exiting, proc, aborted, requests, chan, back>>
    BY <1>3
  <2> HIDE <1>3
  <2> QED BY <1>2, <2>1, <2>2, <2>4, <2>5, <2>6, <2>7, <2>8, HeadMovesQuietly
<1> QED BY <1>4, <1>5
LEMMA HeadStartDecodeStep ==
  ASSUME ClusterInv, StartDecode(0)
  PROVE  ClusterInv'
<1>1. TypeOK /\ Lockstep /\ Up(0)
  BY DEF ClusterInv, StartDecode
<1>2. /\ TypeOK' /\ Lockstep'
      /\ UNCHANGED <<kv, saveable, snaps, proc, entered, aborted, chan, back, exiting, requests>>
      /\ \A j \in Ranks \ {0} : rank'[j] = rank[j]
      /\ rank[0].pc = "prefill" /\ rank'[0].pc = "decide" /\ rank[0].chunk = Chunks
      /\ rank'[0].req = rank[0].req /\ rank'[0].tokens = rank[0].tokens
      /\ rank'[0].snap = rank[0].snap /\ rank'[0].gathered = rank[0].gathered
      /\ rank'[0].ok = rank[0].ok
  BY <1>1, RankZero, StartDecodeDoes
<1>3. CASE exiting
  BY <1>2, <1>3, GivesUp DEF TypeOK
<1>4. CASE ~exiting
  <2>1. Serving
    BY <1>1, <1>4, HeadUp
  <2>2. rank[0].tokens = <<>>
    BY <1>1, <1>2, RankZero, RankTypes DEF WellFormed
  <2>3. ASSUME NEW begun \in Seq(Int), HeadHolds(begun), \A v \in Workers : Follows(v, begun)
        PROVE  HeadHolds(begun)' /\ \A v \in Workers : Paced(v)'
    <3>1. begun = kv[0]
      BY <2>3, <1>2 DEF HeadHolds, Holds
    <3>2. kv'[0] = begun \o rank'[0].tokens
      BY <3>1, <2>2, <1>2
    <3>3. Holds(0, begun)'
      BY <3>2, <1>2 DEF Holds
    <3> QED BY <3>3, <2>3, <1>2 DEF HeadHolds, Paced
  <2>4. \A w \in Workers : rank'[w] = rank[w] /\ kv'[w] = kv[w] /\ snaps'[w] = snaps[w]
    BY <1>2, RankZero
  <2>5. \A s \in Slots : snaps'[0][s] = snaps[0][s]
    BY <1>2
  <2> QED BY <1>2, <2>1, <2>3, <2>4, <2>5, HeadMovesQuietly
<1> QED BY <1>3, <1>4

(* A head that fails, or whose client leaves while it prefills, is at its  *)
(* end without an answer.                                                  *)
LEMMA HeadStopsShort ==
  ASSUME ClusterInv, Up(0), rank[0].pc \notin {"idle", "gather", "end"}, TypeOK', Lockstep',
         \A j \in Ranks \ {0} : rank'[j] = rank[j],
         rank'[0].pc = "end", rank'[0].ok = FALSE \/ rank'[0].tokens = <<>>,
         rank'[0].req = rank[0].req, rank'[0].snap = rank[0].snap,
         rank'[0].tokens = rank[0].tokens, rank'[0].gathered = rank[0].gathered,
         UNCHANGED <<kv, snaps, proc, aborted, chan, back, exiting, requests>>
  PROVE  ClusterInv'
<1>1. CASE exiting
  BY <1>1, GivesUp DEF TypeOK
<1>2. CASE ~exiting
  <2>1. Serving
    BY <1>2, HeadUp
  <2>2. ASSUME NEW begun \in Seq(Int), HeadHolds(begun)
        PROVE  HeadHolds(begun)' /\ \A v \in Workers : Paced(v)'
    BY <2>2 DEF HeadHolds, Paced
  <2>3. \A w \in Workers : rank'[w] = rank[w] /\ kv'[w] = kv[w] /\ snaps'[w] = snaps[w]
    BY RankZero
  <2>4. \A s \in Slots : snaps'[0][s] = snaps[0][s]
    OBVIOUS
  <2> QED BY <2>1, <2>2, <2>3, <2>4, HeadMovesQuietly
<1> QED BY <1>1, <1>2

LEMMA HeadFailsStep ==
  ASSUME ClusterInv, BreakForward(0) \/ LocalFailure(0)
  PROVE  ClusterInv'
<1>1. TypeOK /\ Lockstep /\ Up(0) /\ Failed(0) /\ (~rank[0].inside \/ aborted[0])
      /\ UNCHANGED <<kv, saveable, snaps, proc, entered, aborted, chan, back, exiting, requests>>
  BY DEF ClusterInv, BreakForward, LocalFailure, data, links, counts
<1>2. chan' \in [Workers -> Seq(Frames)]
  BY <1>1 DEF TypeOK
<1>3. TypeOK' /\ Lockstep'
  BY <1>1, <1>2, RankZero, FailureDoes
<1>4. /\ \A j \in Ranks \ {0} : rank'[j] = rank[j]
      /\ rank'[0].pc = "end" /\ rank'[0].ok = FALSE
      /\ rank'[0].req = rank[0].req /\ rank'[0].snap = rank[0].snap
      /\ rank'[0].tokens = rank[0].tokens /\ rank'[0].gathered = rank[0].gathered
  BY <1>1, RankZero, FailedProps
<1>5. rank[0].pc \notin {"idle", "gather", "end"}
  <2>1. WellFormed(rank[0])
    BY <1>1, RankZero, RankTypes
  <2>2. BreakForward(0) => rank[0].pc \in Forwards
    BY <2>1 DEF BreakForward, WellFormed
  <2>3. LocalFailure(0) => rank[0].pc \in Forwards \cup {"draft"}
    BY DEF LocalFailure
  <2> QED BY <2>2, <2>3 DEF Forwards
<1> QED BY <1>1, <1>3, <1>4, <1>5, HeadStopsShort

LEMMA CancelPrefillStep ==
  ASSUME ClusterInv, CancelPrefill
  PROVE  ClusterInv'
<1>1. TypeOK /\ Lockstep /\ Up(0) /\ rank[0].pc = "prefill" /\ ~rank[0].inside
      /\ rank' = [rank EXCEPT ![0].pc = "end"]
      /\ UNCHANGED <<kv, saveable, snaps, proc, entered, aborted, chan, back, exiting, requests>>
  BY DEF ClusterInv, CancelPrefill, data, links, counts
<1>2. PICK r \in Generations : r = rank[0] /\ WellFormed(r)
  BY <1>1, RankZero, RankTypes
<1>3. /\ [r EXCEPT !.pc = "end"] \in Generations /\ WellFormed([r EXCEPT !.pc = "end"])
      /\ [r EXCEPT !.pc = "end"].pc = "end" /\ [r EXCEPT !.pc = "end"].req = r.req
      /\ [r EXCEPT !.pc = "end"].snap = r.snap /\ [r EXCEPT !.pc = "end"].tokens = r.tokens
      /\ [r EXCEPT !.pc = "end"].gathered = r.gathered
      /\ [r EXCEPT !.pc = "end"].inside = r.inside
  BY <1>1, <1>2 DEF Generations, Places, WellFormed, Forwards
<1>4. rank' = [rank EXCEPT ![0] = [r EXCEPT !.pc = "end"]]
  BY <1>1, <1>2
<1>5. /\ rank' \in [Ranks -> Generations] /\ \A j \in Ranks : WellFormed(rank'[j])
      /\ rank'[0] = [r EXCEPT !.pc = "end"] /\ \A j \in Ranks \ {0} : rank'[j] = rank[j]
  BY <1>1, <1>3, <1>4, RankZero, RankMoves
<1>6. TypeOK'
  BY <1>1, <1>5 DEF TypeOK
<1>7. Lockstep'
  BY <1>1, <1>2, <1>3, <1>5, LockstepKept
<1>8. rank[0].tokens = <<>>
  BY <1>1, <1>2 DEF WellFormed
<1> QED BY <1>1, <1>2, <1>3, <1>5, <1>6, <1>7, <1>8, HeadStopsShort

(* The last chunk of the head's prompt: every worker that still follows    *)
(* has saved its own snapshot or is about to.                              *)
LEMMA HeadSaves ==
  ASSUME ClusterInv, Serving, rank[0].pc = "prefill", rank[0].inside, rank[0].chunk + 1 = Chunks,
         entered[0] = 0, NEW begun \in Seq(Int), HeadHolds(begun), NEW w \in Workers,
         Follows(w, begun), NEW s \in Slots, rank[0].snap = <<s>>, ~aborted[w],
         snaps'[0][s] = begun, snaps'[w] = snaps[w], chan' = chan, kv' = kv \/ kv'[w] = kv[w],
         rank'[w] = rank[w], requests' = requests, Busy'
  PROVE  SlotAgrees(w, s)'
<1>1. TypeOK /\ Lockstep /\ Known(w) /\ rank[0].tokens = <<>> /\ Busy
  BY RankZero, RankTypes DEF ClusterInv, WellFormed, Busy
<1>2. Chunks \in Nat \ {0}
  BY ClusterAssumption
<1>3. entered[w] \in {0, 1} /\ rank[w].chunk \in 0..Chunks /\ rank[w].inside \in BOOLEAN
      /\ rank[w].tokens \in Seq(Tokens)
  BY <1>1, RankZero, RankTypes DEF Lockstep
<1>4. Matched(0) = Chunks
  <2>1. rank[0].chunk \in 0..Chunks
    BY <1>1, RankZero, RankTypes
  <2> QED BY <2>1, <1>2 DEF Matched
<1>5. Runs(w) /\ Matched(w) = Chunks
  BY <1>2, <1>4 DEF Follows, Paced
<1>6. rank[w].pc # "idle" /\ rank[w].snap = <<s>>
      /\ (rank[w].chunk = Chunks => snaps[w][s] \in {None, begun})
  <2>1. /\ rank[w].pc # "idle" /\ rank[w].snap = <<s>>
        /\ rank[w].snap # None /\ rank[w].chunk = Chunks => snaps[w][rank[w].snap[1]] \in {None, begun}
    BY <1>5 DEF Follows, Copies
  <2>2. rank[w].snap # None /\ rank[w].snap[1] = s
    BY <2>1 DEF None
  <2> QED BY <2>1, <2>2
<1>7. \A m \in Range(chan[w]) : m.type # "Op"
  BY <1>1, <1>5, <1>6 DEF Known
<1>8. \A k \in DOMAIN chan'[w] : ~OpOn(chan'[w][k], s)
  BY <1>7 DEF Range, OpOn
<1>9. CASE rank[w].chunk = Chunks
  <2>1. snaps'[w][s] \in {None, snaps'[0][s]}
    BY <1>6, <1>9
  <2> QED BY <2>1, <1>8 DEF SlotAgrees, OpOn
<1>10. CASE rank[w].chunk # Chunks
  <2>1. rank[w].inside /\ rank[w].chunk + 1 = Chunks
    BY <1>2, <1>3, <1>5, <1>10 DEF Matched
  <2>2. rank[w].pc \in Forwards /\ WellFormed(rank[w])
    BY <2>1, <1>1, RankZero, RankTypes DEF WellFormed
  <2>3. rank[w].tokens = <<>>
    <3>1. HeadsOwn(0, rank[w].tokens)
      BY <1>5 DEF Follows, Copies
    <3>2. ~(0 + Len(rank[w].tokens) > Len(rank[0].tokens)) /\ Len(rank[0].tokens) = 0
      BY <3>1, <1>1 DEF HeadsOwn
    <3>3. Len(rank[w].tokens) = 0
      BY <3>2, <1>3
    <3> QED BY <3>3, <1>3
  <2>4. rank[w].pc = "prefill"
    BY <2>2, <2>3 DEF Forwards, WellFormed
  <2>5. Saving(w, s)'
    BY <2>1, <2>4, <1>5, <1>6 DEF Saving, Runs
  <2> QED BY <2>5, <1>8 DEF SlotAgrees, OpOn
<1> QED BY <1>9, <1>10
LEMMA HeadLeaveForwardStep ==
  ASSUME ClusterInv, LeaveForward(0)
  PROVE  ClusterInv'
<1>1. TypeOK /\ Lockstep
  BY DEF ClusterInv
<1>2. /\ TypeOK' /\ Lockstep' /\ entered[0] = 0
      /\ \A j \in Ranks \ {0} : rank'[j] = rank[j] /\ kv'[j] = kv[j] /\ snaps'[j] = snaps[j]
      /\ rank'[0].req = rank[0].req /\ rank'[0].tokens = rank[0].tokens
      /\ rank'[0].snap = rank[0].snap /\ rank'[0].gathered = rank[0].gathered
      /\ rank[0].inside /\ rank'[0].inside = FALSE
  BY <1>1, RankZero, LeaveForwardDoes
<1>3. \/ /\ rank[0].pc = "prefill" /\ rank'[0].pc = "prefill" /\ rank[0].chunk < Chunks
         /\ rank'[0].chunk = rank[0].chunk + 1
         /\ IF rank[0].chunk + 1 = Chunks
            THEN /\ kv'[0] = Append(kv[0], - rank[0].req)
                 /\ rank[0].snap = None => snaps' = snaps
                 /\ rank[0].snap # None =>
                      /\ snaps'[0][rank[0].snap[1]] \in {None, kv'[0]}
                      /\ \A s \in Slots : s # rank[0].snap[1] => snaps'[0][s] = snaps[0][s]
            ELSE kv' = kv /\ snaps' = snaps
      \/ /\ rank[0].pc = "forward" /\ rank'[0].pc = "decide" /\ rank'[0].chunk = rank[0].chunk
         /\ kv'[0] = Append(kv[0], Last(rank[0].tokens)) /\ snaps' = snaps
      \/ /\ rank[0].pc = "verify" /\ rank'[0].pc = "accept" /\ rank'[0].chunk = rank[0].chunk
         /\ kv' = kv /\ snaps' = snaps
  BY <1>1, RankZero, LeaveForwardDoes
<1>4. Up(0) /\ UNCHANGED <<proc, entered, aborted, chan, back, exiting, requests>>
  BY DEF LeaveForward, links, counts
<1>7. rank[0].chunk \in Nat /\ Chunks \in Nat \ {0}
  <2>1. Chunks \in Nat \ {0}
    BY ClusterAssumption
  <2>2. rank[0].chunk \in 0..Chunks
    BY <1>1, RankZero, RankTypes
  <2> QED BY <2>1, <2>2
<1>5. CASE exiting
  BY <1>2, <1>4, <1>5, GivesUp DEF TypeOK
<1>6. CASE ~exiting
  <2>1. Serving /\ rank[0].tokens \in Seq(Tokens) /\ WellFormed(rank[0])
    BY <1>1, <1>4, <1>6, HeadUp, RankZero, RankTypes
  <2>2. \A w \in Workers : rank'[w] = rank[w] /\ kv'[w] = kv[w] /\ snaps'[w] = snaps[w]
    BY <1>2, RankZero
  <2>3. \A s \in Slots : <<s>> # rank[0].snap => snaps'[0][s] = snaps[0][s]
    <3>1. rank[0].snap \in SlotOrNone
      BY <1>1, RankZero, RankTypes
    <3>2. ASSUME NEW s \in Slots, <<s>> # rank[0].snap, rank[0].snap # None
          PROVE  s # rank[0].snap[1]
      BY <3>1, <3>2 DEF SlotOrNone
    <3> QED BY <3>2, <1>3
  <2>4. rank[0].pc \notin {"idle", "gather", "end", "decide"} /\ rank'[0].pc \notin {"idle", "end", "gather"}
    BY <1>3
  <2>5. ASSUME NEW begun \in Seq(Int), HeadHolds(begun), \A v \in Workers : Follows(v, begun)
        PROVE  /\ HeadHolds(begun)'
               /\ \A v \in Workers : Paced(v)'
               /\ \A v \in Workers, s \in Slots :
                    ~aborted[v] /\ proc[v] # "exited" /\ snaps'[0][s] # snaps[0][s] /\ snaps'[0][s] # None =>
                      SlotAgrees(v, s)'
    <3>1. rank[0].req = requests /\ Holds(0, begun)
          /\ (rank[0].snap # None => snaps[0][rank[0].snap[1]] \in {None, begun})
      BY <2>4, <2>5 DEF HeadHolds
    <3>2. CASE rank[0].pc = "prefill" /\ rank[0].chunk + 1 = Chunks
      <4>1. /\ rank'[0].pc = "prefill" /\ rank'[0].chunk = Chunks /\ kv'[0] = begun
            /\ rank[0].chunk # Chunks
        <5>1. rank[0].chunk # Chunks /\ rank'[0].pc = "prefill" /\ rank'[0].chunk = Chunks
          BY <3>2, <1>3, <1>7
        <5>2. kv'[0] = Append(kv[0], - rank[0].req)
          BY <3>2, <1>3
        <5>3. begun = Append(kv[0], - requests)
          BY <5>1, <3>1, <3>2 DEF Holds
        <5> QED BY <5>1, <5>2, <5>3, <3>1
      <4>2. /\ rank[0].snap = None => snaps' = snaps
            /\ rank[0].snap # None => snaps'[0][rank[0].snap[1]] \in {None, begun}
        BY <4>1, <3>2, <1>3
      <4>3. HeadHolds(begun)'
        BY <4>1, <4>2, <3>1, <1>2, <1>4 DEF HeadHolds, Holds
      <4>4. ASSUME NEW v \in Workers PROVE Paced(v)'
        BY <4>1, <3>2, <1>1, <1>2, <1>4, <2>5, RankZero, PacedByLeaving DEF Follows
      <4>5. ASSUME NEW v \in Workers, NEW s \in Slots, ~aborted[v], snaps'[0][s] # snaps[0][s],
                   snaps'[0][s] # None
            PROVE  SlotAgrees(v, s)'
        <5>1. rank[0].snap = <<s>>
          BY <2>3, <4>5
        <5>2. snaps'[0][s] = begun
          <6>1. rank[0].snap # None /\ rank[0].snap[1] = s
            BY <5>1 DEF None
          <6> QED BY <6>1, <4>2, <4>5
        <5>3. Busy'
          BY <2>4 DEF Busy
        <5> QED BY <5>1, <5>2, <5>3, <4>5, <2>1, <2>2, <2>5, <3>2, <1>2, <1>4, HeadSaves
      <4> QED BY <4>3, <4>4, <4>5
    <3>3. CASE rank[0].pc = "prefill" /\ rank[0].chunk + 1 # Chunks
      <4>1. /\ rank'[0].pc = "prefill" /\ rank'[0].chunk = rank[0].chunk + 1
            /\ kv' = kv /\ snaps' = snaps /\ rank[0].chunk # Chunks
        BY <3>3, <1>3, <1>7
      <4>2. HeadHolds(begun)'
        BY <4>1, <3>1, <3>3, <1>2, <1>4 DEF HeadHolds, Holds
      <4>3. ASSUME NEW v \in Workers PROVE Paced(v)'
        BY <4>1, <3>3, <1>1, <1>2, <1>4, <2>5, RankZero, PacedByLeaving DEF Follows
      <4> QED BY <4>1, <4>2, <4>3
    <3>4. CASE rank[0].pc = "forward"
      <4>1. /\ rank'[0].pc = "decide" /\ snaps' = snaps
            /\ kv'[0] = Append(kv[0], Last(rank[0].tokens))
        BY <3>4, <1>3
      <4>2. kv'[0] = begun \o rank[0].tokens
        <5>1. rank[0].tokens # <<>> /\ kv[0] = begun \o Front(rank[0].tokens)
          BY <3>1, <3>4 DEF Holds
        <5>2. rank[0].tokens \in Seq(Int)
          BY <2>1, TokensInt, SeqWidens
        <5>3. PICK u \in Seq(Int) : u = rank[0].tokens
          BY <5>2
        <5>4. Append(begun \o Front(u), Last(u)) = begun \o u
          BY <5>1, <5>3, CacheGrows
        <5> QED BY <5>1, <5>3, <5>4, <4>1
      <4>3. HeadHolds(begun)'
        BY <4>1, <4>2, <3>1, <1>2, <1>4 DEF HeadHolds, Holds
      <4> QED BY <4>1, <4>3 DEF Paced
    <3>5. CASE rank[0].pc = "verify"
      <4>1. rank'[0].pc = "accept" /\ snaps' = snaps /\ kv' = kv
        BY <3>5, <1>3
      <4>2. HeadHolds(begun)'
        BY <4>1, <3>1, <3>5, <1>2, <1>4 DEF HeadHolds, Holds
      <4> QED BY <4>1, <4>2 DEF Paced
    <3> QED BY <3>2, <3>3, <3>4, <3>5, <1>3
  <2> QED BY <1>2, <1>4, <2>1, <2>2, <2>3, <2>4, <2>5, HeadMovesQuietly
<1> QED BY <1>5, <1>6
(* A frame that did not go out to everybody.  Who got it may follow it:    *)
(* the head is at its end without success.                                 *)
LEMMA HeadSendFails ==
  ASSUME ClusterInv, Up(0), rank[0].pc \in {"decide", "draft", "accept"}, Failed(0),
         NEW m \in Decisions, m.type \in {"Decision", "Draft", "Accept"}, m \in Frames,
         m.req = rank[0].req, m.step = Len(rank[0].tokens), chan' = Sent(<<m>>),
         UNCHANGED <<kv, saveable, snaps, proc, entered, aborted, back, exiting, requests>>
  PROVE  ClusterInv'
<1>1. TypeOK /\ Lockstep
  BY DEF ClusterInv
<1>2. PICK f \in Seq(Frames) : f = <<m>> /\ Range(f) = {m}
  BY SmallSeqs
<1>3. /\ chan' \in [Workers -> Seq(Frames)]
      /\ \A w \in Workers : chan'[w] = chan[w] \/ chan'[w] = chan[w] \o f
  BY <1>1, <1>2, SentFrames
<1>4. ~rank[0].inside
  BY <1>1, RankZero, RankTypes DEF WellFormed, Forwards
<1>5. TypeOK' /\ Lockstep'
  BY <1>1, <1>3, <1>4, RankZero, FailureDoes
<1>6. /\ \A j \in Ranks \ {0} : rank'[j] = rank[j]
      /\ rank'[0].pc = "end" /\ rank'[0].ok = FALSE
      /\ rank'[0].req = rank[0].req /\ rank'[0].snap = rank[0].snap
      /\ rank'[0].tokens = rank[0].tokens /\ rank'[0].gathered = rank[0].gathered
  BY <1>1, RankZero, FailedProps
<1>7. CASE exiting
  BY <1>5, <1>7, GivesUp DEF TypeOK
<1>8. CASE ~exiting
  <2>1. Serving /\ rank[0].gathered = {} /\ rank[0].tokens \in Seq(Tokens)
    BY <1>8, HeadUp
  <2>2. ASSUME NEW begun \in Seq(Int), HeadHolds(begun)
        PROVE  HeadHolds(begun)' /\ \A v \in Workers : Paced(v)'
    BY <2>2, <1>6 DEF HeadHolds, Paced
  <2>3. \A w \in Workers : rank'[w] = rank[w] /\ kv'[w] = kv[w] /\ snaps'[w] = snaps[w]
    BY <1>6, RankZero
  <2>4. PICK t \in Seq(Tokens) : t = <<>>
    BY SmallSeqs
  <2>8. rank'[0].tokens = rank[0].tokens \o t
    BY <2>1, <2>4, <1>6
  <2>5. HeadsOwn(m.step, m.tokens)'
    <3>1. m.tokens \in Seq(Tokens) /\ Len(rank[0].tokens) \in Nat
      BY <2>1, DecisionKinds
    <3>2. \A k \in 1..Len(m.tokens) : ~(m.step + k <= Len(rank'[0].tokens))
      BY <3>1, <1>6
    <3> QED BY <3>2, <1>6 DEF HeadsOwn
  <2>6. \A s \in Slots : snaps'[0][s] = snaps[0][s]
    OBVIOUS
  <2>7. \A x \in Range(f) :
          x.type \in {"Decision", "Draft", "Accept"} /\ x.req = rank[0].req /\ HeadsOwn(x.step, x.tokens)'
    BY <2>5, <1>2
  <2> QED BY <1>3, <1>5, <1>6, <2>1, <2>2, <2>3, <2>4, <2>6, <2>7, <2>8, HeadMoves
<1> QED BY <1>7, <1>8

LEMMA HeadDraftStep ==
  ASSUME ClusterInv, HeadDraft
  PROVE  ClusterInv'
<1>1. TypeOK /\ Lockstep
  BY DEF ClusterInv
<1> DEFINE m0 == HeadFrame("Draft", <<>>, FALSE)
<1>2. m0 \in Frames /\ m0.type = "Draft" /\ m0.req = rank[0].req /\ m0.step = Len(rank[0].tokens)
      /\ m0.tokens = <<>>
  BY <1>1, FrameTypes DEF HeadFrame
<1>3. /\ Up(0) /\ rank[0].pc = "draft" /\ chan' = Sent(<<m0>>)
      /\ rank' = [rank EXCEPT ![0] = After(@, FALSE)] \/ Failed(0)
      /\ UNCHANGED <<kv, saveable, snaps, proc, entered, aborted, back, exiting, requests>>
  BY DEF HeadDraft, data, counts
<1> HIDE DEF m0
<1>4. PICK m \in Frames : m = m0 /\ m \in Decisions
  BY <1>2, FrameKinds
<1>5. CASE Failed(0)
  BY <1>2, <1>3, <1>4, <1>5, HeadSendFails
<1>6. CASE rank' = [rank EXCEPT ![0] = After(@, FALSE)]
  <2>1. PICK f \in Seq(Frames) : f = <<m>> /\ Range(f) = {m}
    BY SmallSeqs
  <2>2. /\ chan' \in [Workers -> Seq(Frames)]
        /\ \A w \in Workers : chan'[w] = chan[w] \/ chan'[w] = chan[w] \o f
    BY <2>1, <1>1, <1>3, <1>4, SentFrames
  <2>3. PICK r \in Generations : r = rank[0] /\ WellFormed(r)
    BY <1>1, RankZero, RankTypes
  <2>4. After(r, FALSE) = [r EXCEPT !.pc = "verify"]
    BY <2>3, <1>3 DEF After
  <2>5. PICK q \in Generations : /\ q = [r EXCEPT !.pc = "verify"] /\ WellFormed(q) /\ q.pc = "verify"
                                 /\ q.req = r.req /\ q.snap = r.snap /\ q.tokens = r.tokens
                                 /\ q.gathered = r.gathered /\ q.inside = r.inside /\ q.tokens # <<>>
    <3>1. [r EXCEPT !.pc = "verify"] \in Generations
      BY DEF Generations, Places, Forwards
    <3>2. WellFormed([r EXCEPT !.pc = "verify"]) /\ r.tokens # <<>>
      BY <2>3, <1>3 DEF Generations, WellFormed, Forwards
    <3> QED BY <3>1, <3>2 DEF Generations
  <2>6. rank' = [rank EXCEPT ![0] = q]
    BY <2>3, <2>4, <2>5, <1>6
  <2>7. /\ rank' \in [Ranks -> Generations] /\ \A j \in Ranks : WellFormed(rank'[j])
        /\ rank'[0] = q /\ \A j \in Ranks \ {0} : rank'[j] = rank[j]
    BY <2>5, <2>6, <1>1, RankZero, RankMoves
  <2>8. TypeOK'
    BY <2>2, <2>7, <1>1, <1>3 DEF TypeOK
  <2>9. Lockstep'
    BY <2>3, <2>5, <2>7, <1>1, <1>3, LockstepKept
  <2>10. CASE exiting
    BY <2>8, <2>9, <2>10, <1>3, GivesUp DEF TypeOK
  <2>11. CASE ~exiting
    <3>1. Serving /\ rank[0].gathered = {} /\ rank[0].tokens \in Seq(Tokens)
      BY <2>11, <1>3, HeadUp
    <3>2. ASSUME NEW begun \in Seq(Int), HeadHolds(begun)
          PROVE  HeadHolds(begun)' /\ \A v \in Workers : Paced(v)'
      BY <3>2, <2>3, <2>5, <2>7, <1>3 DEF HeadHolds, Holds, Paced
    <3>3. \A w \in Workers : rank'[w] = rank[w] /\ kv'[w] = kv[w] /\ snaps'[w] = snaps[w]
      BY <2>7, <1>3, RankZero
    <3>4. PICK t \in Seq(Tokens) : t = <<>>
      BY SmallSeqs
    <3>9. rank'[0].tokens = rank[0].tokens \o t
      BY <3>1, <3>4, <2>3, <2>5, <2>7
    <3>5. HeadsOwn(m.step, m.tokens)'
      <4>1. m.tokens = <<>> /\ m.step = Len(rank[0].tokens) /\ Len(rank[0].tokens) \in Nat
            /\ rank'[0].tokens = rank[0].tokens
        BY <3>1, <2>3, <2>5, <2>7, <1>2, <1>4
      <4> QED BY <4>1 DEF HeadsOwn
    <3>6. \A s \in Slots : snaps'[0][s] = snaps[0][s]
      BY <1>3
    <3>7. \A x \in Range(f) :
            x.type \in {"Decision", "Draft", "Accept"} /\ x.req = rank[0].req /\ HeadsOwn(x.step, x.tokens)'
      BY <3>5, <2>1, <1>2, <1>4
    <3>8. rank[0].pc \notin {"idle", "gather", "end"} /\ rank'[0].pc \notin {"idle", "gather"}
          /\ rank'[0].gathered = {} /\ rank'[0].req = rank[0].req /\ rank'[0].snap = rank[0].snap
          /\ UNCHANGED <<exiting, proc, aborted, requests, back>>
      BY <3>1, <2>3, <2>5, <2>7, <1>3
    <3> HIDE <1>3, <2>3
    <3> QED BY <2>2, <2>8, <2>9, <3>1, <3>2, <3>3, <3>4, <3>6, <3>7, <3>8, <3>9, HeadMoves
  <2> QED BY <2>10, <2>11
<1> QED BY <1>3, <1>5, <1>6
(* A decision or an accept that went out.  The head keeps what it sent,    *)
(* or less, and then it stops.                                             *)
LEMMA HeadAdopts ==
  ASSUME ClusterInv, Up(0), NEW m \in Decisions, NEW kept \in Seq(Tokens), kept # <<>>, Adopt(0, m, kept),
         \/ rank[0].pc = "decide" /\ m.type = "Decision" /\ \E t \in Tokens : kept = <<t>>
         \/ /\ rank[0].pc = "accept" /\ m.type = "Accept"
            /\ \/ kept = m.tokens
               \/ m.stop /\ \A begun \in Seq(Int) : (\A v \in Workers : Follows(v, begun)) => Unmatched',
         NEW f \in Seq(Frames), chan' = Sent(f),
         \A x \in Range(f) :
           x.type \in {"Decision", "Draft", "Accept"} /\ x.req = rank[0].req /\ HeadsOwn(x.step, x.tokens)',
         UNCHANGED <<snaps, proc, entered, aborted, back, exiting, requests>>
  PROVE  ClusterInv'
<1>1. TypeOK /\ Lockstep
  BY DEF ClusterInv
<1>2. /\ chan' \in [Workers -> Seq(Frames)]
      /\ \A w \in Workers : chan'[w] = chan[w] \/ chan'[w] = chan[w] \o f
  BY <1>1, SentFrames
<1>3. /\ rank' \in [Ranks -> Generations] /\ kv' \in [Ranks -> Seq(Int)]
      /\ saveable' \in [Ranks -> BOOLEAN] /\ \A j \in Ranks : WellFormed(rank'[j])
      /\ \A j \in Ranks \ {0} : rank'[j] = rank[j] /\ kv'[j] = kv[j]
      /\ rank'[0].tokens = rank[0].tokens \o kept
      /\ rank'[0].req = rank[0].req /\ rank'[0].inside = rank[0].inside
      /\ rank'[0].snap = rank[0].snap /\ rank'[0].gathered = rank[0].gathered
      /\ rank'[0].pc \in {"forward", "draft", "verify", "end"}
      /\ m.stop => rank'[0].pc = "end"
      /\ kv'[0] = IF m.type = "Accept" THEN (kv[0] \o <<Last(rank[0].tokens)>>) \o Front(m.tokens) ELSE kv[0]
      /\ rank'[0].tokens # <<>>
  BY <1>1, RankZero, AdoptProps
<1>4. TypeOK'
  BY <1>1, <1>2, <1>3 DEF TypeOK
<1>5. Lockstep'
  BY <1>1, <1>3, RankZero, LockstepKept
<1>6. CASE exiting
  BY <1>4, <1>5, <1>6, GivesUp DEF TypeOK
<1>7. CASE ~exiting
  <2>1. Serving /\ rank[0].gathered = {}
    BY <1>7, HeadUp
  <2>2. ASSUME NEW begun \in Seq(Int), HeadHolds(begun), \A v \in Workers : Follows(v, begun)
        PROVE  HeadHolds(begun)' /\ \A v \in Workers : Paced(v)'
    <3>1. Holds(0, begun) /\ rank[0].req = requests
          /\ (rank[0].snap # None => snaps[0][rank[0].snap[1]] \in {None, begun})
      BY <2>2 DEF HeadHolds
    <3>2. Holds(0, begun)' \/ (rank'[0].pc = "end" /\ Unmatched')
      <4>1. CASE m.type = "Accept" /\ kept # m.tokens
        BY <4>1, <2>2, <1>3
      <4>2. CASE m.type = "Decision" \/ kept = m.tokens
        <5>1. \/ rank[0].pc = "decide" /\ kv'[0] = kv[0] /\ (\E t \in Tokens : kept = <<t>>)
              \/ /\ rank[0].pc = "accept" /\ kept # <<>>
                 /\ kv'[0] = (kv[0] \o <<Last(rank[0].tokens)>>) \o Front(kept)
          BY <4>2, <1>3
        <5>2. requests' = requests /\ rank'[0].tokens = rank[0].tokens \o kept
              /\ rank'[0].tokens # <<>> /\ rank'[0].pc \in {"forward", "draft", "verify", "end"}
          BY <1>3
        <5> QED BY <5>1, <5>2, <3>1, <1>1, RankZero, AdoptHolds
      <4> QED BY <4>1, <4>2
    <3> QED BY <3>1, <3>2, <1>3 DEF HeadHolds, Paced
  <2>3. \A w \in Workers : rank'[w] = rank[w] /\ kv'[w] = kv[w] /\ snaps'[w] = snaps[w]
    BY <1>3, RankZero
  <2>4. \A s \in Slots : snaps'[0][s] = snaps[0][s]
    OBVIOUS
  <2> QED BY <1>2, <1>3, <1>4, <1>5, <2>1, <2>2, <2>3, <2>4, HeadMoves
<1> QED BY <1>6, <1>7

LEMMA HeadDecideStep ==
  ASSUME ClusterInv, NEW t \in Tokens, HeadDecide(t)
  PROVE  ClusterInv'
<1>1. TypeOK
  BY DEF ClusterInv
<1> DEFINE stop == (t = Eos \/ cancelled)
<1> DEFINE m0 == HeadFrame("Decision", <<t>>, stop)
<1>2. m0 \in Frames /\ m0.type = "Decision" /\ m0.req = rank[0].req /\ m0.step = Len(rank[0].tokens)
      /\ m0.tokens = <<t>>
  <2>1. stop \in BOOLEAN
    OBVIOUS
  <2> HIDE DEF stop
  <2> QED BY <2>1, <1>1, FrameTypes DEF HeadFrame
<1>3. /\ Up(0) /\ rank[0].pc = "decide" /\ chan' = Sent(<<m0>>)
      /\ Adopt(0, m0, <<t>>) \/ (Failed(0) /\ UNCHANGED <<kv, saveable>>)
      /\ UNCHANGED <<snaps, proc, entered, aborted, back, exiting, requests>>
  BY DEF HeadDecide, counts
<1> HIDE DEF m0
<1>4. PICK m \in Frames : m = m0 /\ m \in Decisions
  BY <1>2, FrameKinds
<1>5. CASE Failed(0) /\ UNCHANGED <<kv, saveable>>
  BY <1>2, <1>3, <1>4, <1>5, HeadSendFails
<1>6. CASE Adopt(0, m0, <<t>>)
  <2>1. PICK f \in Seq(Frames) : f = <<m>> /\ Range(f) = {m}
    BY SmallSeqs
  <2>2. PICK kept \in Seq(Tokens) : kept = <<t>> /\ kept # <<>> /\ Len(kept) = 1 /\ kept[1] = t
    <3>1. <<t>> \in Seq(Tokens) /\ <<t>> # <<>> /\ Len(<<t>>) = 1 /\ <<t>>[1] = t
      OBVIOUS
    <3> QED BY <3>1
  <2>3. rank[0].tokens \in Seq(Tokens)
    BY <1>1, RankZero, RankTypes
  <2>4. rank'[0].tokens = rank[0].tokens \o kept
    <3>1. 0 \in Ranks /\ rank[0].pc = "decide" /\ m.type = "Decision" /\ Adopt(0, m, kept)
      BY <2>2, <1>2, <1>3, <1>4, <1>6, RankZero
    <3> QED BY <3>1, <2>2, <1>1, <1>4, AdoptMoves
  <2>5. HeadsOwn(m.step, m.tokens)'
    <3>1. m.step = Len(rank[0].tokens) /\ m.tokens = kept /\ Len(rank[0].tokens) \in Nat
      BY <2>2, <2>3, <1>2, <1>4
    <3>2. Len(rank'[0].tokens) = Len(rank[0].tokens) + Len(kept)
          /\ \A k \in DOMAIN kept : rank'[0].tokens[Len(rank[0].tokens) + k] = kept[k]
      <4>1. PICK u \in Seq(Tokens) : u = rank[0].tokens
        BY <2>3
      <4>2. /\ Len(u \o kept) = Len(u) + Len(kept)
            /\ \A k \in DOMAIN kept : (u \o kept)[Len(u) + k] = kept[k]
        BY ConcatProps
      <4> QED BY <4>1, <4>2, <2>4
    <3>3. \A k \in 1..Len(m.tokens) : rank'[0].tokens[m.step + k] = m.tokens[k]
      BY <3>1, <3>2
    <3>4. ~(m.step + Len(m.tokens) > Len(rank'[0].tokens))
      BY <3>1, <3>2
    <3> QED BY <3>3, <3>4 DEF HeadsOwn
  <2> QED BY <2>1, <2>2, <2>5, <1>2, <1>3, <1>4, <1>6, HeadAdopts
<1> QED BY <1>3, <1>5, <1>6

(* Where the head stops inside a block, no worker can end. *)
LEMMA HeadStopsInside ==
  ASSUME TypeOK, NEW begun \in Seq(Int), \A v \in Workers : Follows(v, begun), rank[0].pc \notin {"end", "gather"},
         NEW l \in Nat, l > Len(rank[0].tokens), Len(rank'[0].tokens) = l, requests' = requests,
         NEW f, \A x \in Range(f) : x.step + Len(x.tokens) # l,
         \A w \in Workers : rank'[w] = rank[w],
         \A w \in Workers : \A x \in Range(chan'[w]) : x \in Range(chan[w]) \/ x \in Range(f)
  PROVE  Unmatched'
<1>1. PICK n \in Nat : n = Len(rank[0].tokens)
  BY RankZero, RankTypes
<1>2. ASSUME NEW step \in Nat, NEW u \in Seq(Tokens), HeadsOwn(step, u)
      PROVE  step + Len(u) # l
  <2>1. ~(step + Len(u) > n)
    BY <1>1, <1>2 DEF HeadsOwn
  <2>2. step + Len(u) \in Nat
    OBVIOUS
  <2> QED BY <1>1, <2>1, <2>2
<1>3. ASSUME NEW w \in Workers, Runs(w)' PROVE Len(rank'[w].tokens) # l
  <2>1. PICK u \in Seq(Tokens) : u = rank[w].tokens
    BY RankZero, RankTypes
  <2>2. HeadsOwn(0, u)
    BY <1>3, <2>1 DEF Follows, Copies, Runs
  <2>3. 0 + Len(u) = Len(u)
    OBVIOUS
  <2> QED BY <1>2, <2>1, <2>2, <2>3
<1>4. ASSUME NEW w \in Workers, NEW x \in Range(chan'[w]),
             x.type \in {"Decision", "Draft", "Accept"}, x.req = requests
      PROVE  x.step + Len(x.tokens) # l
  <2>1. CASE x \in Range(chan[w])
    <3>1. x \in Frames /\ HeadsOwn(x.step, x.tokens)
      BY <1>4, <2>1, QueueTypes DEF Follows, FramesRight, FrameRight, Range
    <3>2. x.step \in Nat /\ x.tokens \in Seq(Tokens)
      BY <1>4, <3>1, FrameKinds, DecisionKinds
    <3> QED BY <1>2, <3>1, <3>2
  <2> QED BY <1>4, <2>1
<1> QED BY <1>3, <1>4 DEF Unmatched

LEMMA HeadAcceptStep ==
  ASSUME ClusterInv, NEW b \in KeptBlocks, HeadAccept(b)
  PROVE  ClusterInv'
<1>1. TypeOK
  BY DEF ClusterInv
<1> DEFINE n == Len(rank[0].tokens)
           m0 == HeadFrame("Accept", b, Last(b) = Eos)
           stopped(cut) == cancelled /\ ~(cut = Len(b) /\ m0.stop)
           m1(cut) == [m0 EXCEPT !.stop = @ \/ stopped(cut)]
           f0(cut) == IF stopped(cut) /\ n + cut < NGen THEN <<m0, EndMarker(b)>> ELSE <<m0>>
<1>2. /\ Up(0) /\ rank[0].pc = "accept"
      /\ UNCHANGED <<snaps, proc, entered, aborted, back, exiting, requests>>
  BY DEF HeadAccept, counts
<1>3. \/ Failed(0) /\ chan' = Sent(<<m0>>) /\ UNCHANGED <<kv, saveable>>
      \/ \E cut \in (IF cancelled THEN 1..Len(b) ELSE {Len(b)}) :
           Adopt(0, m1(cut), CutTo(b, cut)) /\ chan' = Sent(f0(cut))
  BY DEF HeadAccept
<1>4. b \in Seq(Tokens) /\ b # <<>> /\ Len(b) \in Nat \ {0} /\ rank[0].tokens \in Seq(Tokens) /\ n \in Nat
  BY <1>1, BlockType, RankZero, RankTypes
<1>5. /\ m0 \in Frames /\ m0.type = "Accept" /\ m0.req = rank[0].req /\ m0.step = n
      /\ m0.tokens = b /\ m0.stop \in BOOLEAN
  BY <1>1, FrameTypes DEF HeadFrame
<1>6. PICK e \in Frames : /\ e = EndMarker(b) /\ e.type = "Draft" /\ e.req = rank[0].req
                          /\ e.step = n + Len(b) /\ e.tokens = <<>>
  BY <1>1, FrameTypes DEF EndMarker, HeadFrame
<1>7. \A cut : /\ m1(cut) = [m0 EXCEPT !.stop = m1(cut).stop]
               /\ m1(cut).stop \in BOOLEAN /\ (stopped(cut) => m1(cut).stop)
  BY <1>5 DEF HeadFrame
<1> HIDE DEF m0, m1
<1>8. PICK m \in Frames : m = m0 /\ m \in Decisions
  BY <1>5, FrameKinds
<1>9. CASE Failed(0) /\ chan' = Sent(<<m0>>) /\ UNCHANGED <<kv, saveable>>
  BY <1>2, <1>5, <1>8, <1>9, HeadSendFails
<1>10. ASSUME NEW cut \in (IF cancelled THEN 1..Len(b) ELSE {Len(b)}),
              Adopt(0, m1(cut), CutTo(b, cut)), chan' = Sent(f0(cut))
       PROVE  ClusterInv'
  <2>1. cut \in 1..Len(b) /\ (cut # Len(b) => stopped(cut))
    BY <1>4, <1>10
  <2>2. PICK kept \in Seq(Tokens) : /\ kept = CutTo(b, cut) /\ Len(kept) = cut /\ kept # <<>>
                                    /\ \A k \in 1..cut : kept[k] = b[k]
                                    /\ cut = Len(b) => kept = b
    <3>1. cut \in Nat
      BY <2>1, <1>4
    <3>2. /\ CutTo(b, cut) \in Seq(Tokens) /\ Len(CutTo(b, cut)) = (IF cut < Len(b) THEN cut ELSE Len(b))
          /\ \A k \in 1..Len(CutTo(b, cut)) : CutTo(b, cut)[k] = b[k]
          /\ cut >= Len(b) => CutTo(b, cut) = b
      BY <3>1, <1>4, CutProps
    <3>3. Len(CutTo(b, cut)) = cut /\ CutTo(b, cut) # <<>>
      BY <3>2, <2>1, <1>4
    <3> QED BY <3>2, <3>3, <2>1, <1>4
  <2>3. PICK d \in Decisions : /\ d = m1(cut) /\ d.type = "Accept" /\ d.tokens = b
                               /\ d.stop \in BOOLEAN /\ (stopped(cut) => d.stop)
    <3>1. m1(cut) = [m EXCEPT !.stop = m1(cut).stop]
      BY <1>7, <1>8
    <3>2. ASSUME NEW z \in BOOLEAN
          PROVE  /\ [m EXCEPT !.stop = z] \in Decisions /\ [m EXCEPT !.stop = z].type = "Accept"
                 /\ [m EXCEPT !.stop = z].tokens = b
      BY <1>5, <1>8 DEF Decisions
    <3> QED BY <3>1, <3>2, <1>7
  <2>4. PICK f \in Seq(Frames) : f = f0(cut) /\ Range(f) \subseteq {m, e}
    <3>1. f0(cut) = <<m, e>> \/ f0(cut) = <<m>>
      BY <1>6, <1>8
    <3>2. <<m, e>> \in Seq(Frames) /\ Range(<<m, e>>) = {m, e} /\ <<m>> \in Seq(Frames) /\ Range(<<m>>) = {m}
      BY SmallSeqs
    <3> HIDE DEF f0
    <3>3. f0(cut) \in Seq(Frames) /\ Range(f0(cut)) \subseteq {m, e}
      BY <3>1, <3>2
    <3> QED BY <3>3
  <2> HIDE DEF stopped, f0
  <2>5. /\ rank'[0].tokens = rank[0].tokens \o kept /\ (d.stop => rank'[0].pc = "end")
        /\ \A w \in Workers : rank'[w] = rank[w]
    <3>1. /\ Adopt(0, d, kept) /\ rank[0].pc \in {"decide", "draft", "accept"}
          /\ rank[0].pc # "draft" => kept # <<>>
          /\ d.type = "Accept" => rank[0].pc = "accept"
      BY <2>2, <2>3, <1>2, <1>10
    <3>2. TypeOK /\ 0 \in Ranks /\ \A w \in Workers : w \in Ranks \ {0}
      BY <1>1, RankZero
    <3>3. rank'[0].tokens = rank[0].tokens \o kept
      BY <3>1, <3>2, AdoptMoves
    <3>4. \A j \in Ranks \ {0} : rank'[j] = rank[j]
      BY <3>1, <3>2, AdoptMoves
    <3>5. d.stop => rank'[0].pc = "end"
      BY <3>1, <3>2, AdoptMoves
    <3> QED BY <3>2, <3>3, <3>4, <3>5
  <2>6. /\ Len(rank'[0].tokens) = n + cut
        /\ \A k \in 1..cut : rank'[0].tokens[n + k] = kept[k]
    <3>1. PICK u \in Seq(Tokens) : u = rank[0].tokens
      BY <1>4
    <3>2. /\ Len(u \o kept) = Len(u) + Len(kept)
          /\ \A k \in DOMAIN kept : (u \o kept)[Len(u) + k] = kept[k]
      BY ConcatProps
    <3>3. DOMAIN kept = 1..cut
      BY <2>2
    <3> QED BY <3>1, <3>2, <3>3, <2>2, <2>5
  <2>7. cut # Len(b) => rank'[0].pc = "end"
    BY <2>1, <2>3, <2>5
  <2>8. HeadsOwn(m.step, m.tokens)' /\ HeadsOwn(e.step, e.tokens)'
    <3>1. m.step = n /\ m.tokens = b /\ e.step = n + Len(b) /\ e.tokens = <<>>
      BY <1>5, <1>6, <1>8
    <3>2. ASSUME NEW k \in 1..Len(b), n + k <= Len(rank'[0].tokens)
          PROVE  rank'[0].tokens[n + k] = b[k]
      <4>1. k \in 1..cut
        BY <3>2, <2>1, <2>6, <1>4
      <4> QED BY <4>1, <2>2, <2>6
    <3>3. n + Len(b) > Len(rank'[0].tokens) => rank'[0].pc = "end"
      BY <2>1, <2>6, <2>7, <1>4
    <3>4. HeadsOwn(m.step, m.tokens)'
      BY <3>1, <3>2, <3>3 DEF HeadsOwn
    <3>5. Len(<<>>) = 0 /\ 1..Len(<<>>) = {} /\ n + Len(b) + 0 = n + Len(b)
      BY <1>4
    <3>6. HeadsOwn(e.step, e.tokens)'
      BY <3>1, <3>3, <3>5 DEF HeadsOwn
    <3> QED BY <3>4, <3>6
  <2>9. ASSUME cut # Len(b), NEW begun \in Seq(Int), \A v \in Workers : Follows(v, begun)
        PROVE  Unmatched'
    <3>1. n + cut \in Nat /\ n + cut > n /\ Len(rank'[0].tokens) = n + cut
      <4>1. cut \in Nat /\ cut > 0
        BY <2>1, <1>4
      <4>2. n \in Nat
        BY <1>4
      <4>3. n + cut \in Nat /\ n + cut > n
        BY <4>1, <4>2
      <4> QED BY <4>3, <2>6
    <3>2. \A x \in Range(f) : x.step + Len(x.tokens) # n + cut
      <4>1. Len(<<>>) = 0
        OBVIOUS
      <4>2. m.step = n /\ m.tokens = b /\ e.step = n + Len(b) /\ e.tokens = <<>>
        BY <1>5, <1>6, <1>8
      <4>3. n + Len(b) # n + cut /\ (n + Len(b)) + 0 = n + Len(b)
        BY <2>1, <2>9, <1>4
      <4>4. m.step + Len(m.tokens) # n + cut /\ e.step + Len(e.tokens) # n + cut
        BY <4>1, <4>2, <4>3
      <4> QED BY <4>4, <2>4
    <3>3. /\ rank[0].pc \notin {"end", "gather"} /\ requests' = requests
          /\ \A w \in Workers : rank'[w] = rank[w]
          /\ \A w \in Workers : \A x \in Range(chan'[w]) : x \in Range(chan[w]) \/ x \in Range(f)
      BY <1>1, <1>2, <1>10, <2>4, <2>5, SentFrames
    <3> QED BY <1>1, <2>9, <3>1, <3>2, <3>3, HeadStopsInside
  <2>10. kept = d.tokens \/ (d.stop /\ \A begun \in Seq(Int) : (\A v \in Workers : Follows(v, begun)) => Unmatched')
    BY <2>1, <2>2, <2>3, <2>9
  <2>11. \A x \in Range(f) :
           x.type \in {"Decision", "Draft", "Accept"} /\ x.req = rank[0].req /\ HeadsOwn(x.step, x.tokens)'
    BY <2>4, <2>8, <1>5, <1>6, <1>8
  <2> QED BY <2>2, <2>3, <2>4, <2>10, <2>11, <1>2, <1>10, HeadAdopts
<1> QED BY <1>3, <1>9, <1>10
(* What makes the head give up.                                            *)
LEMMA HeadGivesUp ==
  ASSUME ClusterInv, rank' \in [Ranks -> Generations],
         \A j \in Ranks : WellFormed(rank'[j]) /\ rank'[j].inside = rank[j].inside,
         exiting' = TRUE, aborted' \in [Ranks -> BOOLEAN], \A i \in Ranks : aborted[i] => aborted'[i],
         chan' \in [Workers -> Seq(Frames)], back' \in [Workers -> Seq(Reports)], requests' \in Nat,
         snaps' \in [Ranks -> [Slots -> Seq(Int)]], UNCHANGED <<kv, saveable, proc, entered>>
  PROVE  ClusterInv'
<1>1. TypeOK /\ Lockstep
  BY DEF ClusterInv
<1>2. TypeOK'
  BY <1>1 DEF TypeOK
<1>3. Lockstep'
  BY <1>1, LockstepKept
<1> QED BY <1>2, <1>3, GivesUp

(* exit_scheduled_ is set, the communicator aborted, and the workers told. *)
LEMMA AbortSent ==
  ASSUME TypeOK, NEW f \in Seq(Frames), chan' = Sent(f),
         exiting' = TRUE, aborted' = [aborted EXCEPT ![0] = TRUE]
  PROVE  /\ aborted' \in [Ranks -> BOOLEAN] /\ \A i \in Ranks : aborted[i] => aborted'[i]
         /\ chan' \in [Workers -> Seq(Frames)]
<1>1. aborted' \in [Ranks -> BOOLEAN] /\ \A i \in Ranks : aborted[i] => aborted'[i]
  BY RankZero DEF TypeOK
<1> QED BY <1>1, SentFrames

LEMMA HeadReturnsFailed ==
  ASSUME ClusterInv, rank[0].pc \in {"end", "gather"}, Return(FALSE), FatalExit,
         back' \in [Workers -> Seq(Reports)], UNCHANGED <<kv, saveable, snaps, proc, entered, requests>>
  PROVE  ClusterInv'
<1>1. TypeOK
  BY DEF ClusterInv
<1>2. /\ rank' \in [Ranks -> Generations]
      /\ \A j \in Ranks : WellFormed(rank'[j]) /\ rank'[j].inside = rank[j].inside
  BY <1>1, ReturnProps
<1>3. /\ exiting' = TRUE /\ aborted' \in [Ranks -> BOOLEAN] /\ \A i \in Ranks : aborted[i] => aborted'[i]
      /\ chan' \in [Workers -> Seq(Frames)]
  BY <1>1, FatalExitProps
<1>4. requests' \in Nat /\ snaps' \in [Ranks -> [Slots -> Seq(Int)]]
  BY <1>1 DEF TypeOK
<1> QED BY <1>2, <1>3, <1>4, HeadGivesUp

LEMMA HeadWatchdogStep ==
  ASSUME ClusterInv, HeadWatchdog
  PROVE  ClusterInv'
<1>1. TypeOK
  BY DEF ClusterInv
<1>2. FatalExit /\ UNCHANGED <<rank, kv, saveable, snaps, proc, entered, back, requests>>
  BY DEF HeadWatchdog, data, counts
<1>3. /\ exiting' = TRUE /\ aborted' \in [Ranks -> BOOLEAN] /\ \A i \in Ranks : aborted[i] => aborted'[i]
      /\ chan' \in [Workers -> Seq(Frames)]
  BY <1>1, <1>2, FatalExitProps
<1> QED BY <1>1, <1>2, <1>3, HeadGivesUp DEF TypeOK

LEMMA HeadGatherFailsStep ==
  ASSUME ClusterInv, NEW w \in Workers, HeadGatherFails(w)
  PROVE  ClusterInv'
<1>1. /\ rank[0].pc = "gather" /\ Return(FALSE) /\ FatalExit
      /\ UNCHANGED <<kv, saveable, snaps, proc, entered, back, requests>>
  BY DEF HeadGatherFails, data, counts
<1> QED BY <1>1, HeadReturnsFailed DEF ClusterInv, TypeOK

LEMMA HeadEndStep ==
  ASSUME ClusterInv, HeadEnd
  PROVE  ClusterInv'
<1>1. TypeOK /\ Lockstep
  BY DEF ClusterInv
<1> DEFINE e0 == [type |-> "RequestEnd", req |-> rank[0].req, ok |-> rank[0].ok, steps |-> Len(rank[0].tokens)]
<1>2. /\ Up(0) /\ rank[0].pc = "end"
      /\ UNCHANGED <<kv, saveable, snaps, proc, entered, back, requests>>
      /\ \/ Return(FALSE) /\ FatalExit
         \/ /\ rank' = [rank EXCEPT ![0].pc = "gather", ![0].gathered = {}]
            /\ chan' = Sent(<<e0>>) /\ UNCHANGED <<exiting, aborted>>
         \/ /\ Return(FALSE) /\ exiting' = TRUE /\ aborted' = [aborted EXCEPT ![0] = TRUE]
            /\ chan' = Sent(<<e0>>) \/ chan' = Sent(<<e0, [type |-> "Abort"]>>)
  BY DEF HeadEnd, data, counts
<1>3. PICK e \in Frames : /\ e = e0 /\ e.type = "RequestEnd" /\ e.req = rank[0].req
                          /\ e.ok = rank[0].ok /\ e.steps = Len(rank[0].tokens)
  BY <1>1, FrameTypes
<1> HIDE DEF e0
<1>4. requests' \in Nat /\ snaps' \in [Ranks -> [Slots -> Seq(Int)]] /\ back' \in [Workers -> Seq(Reports)]
  BY <1>1, <1>2 DEF TypeOK
<1>5. CASE Return(FALSE) /\ FatalExit
  BY <1>2, <1>4, <1>5, HeadReturnsFailed
<1>6. CASE /\ Return(FALSE) /\ exiting' = TRUE /\ aborted' = [aborted EXCEPT ![0] = TRUE]
           /\ chan' = Sent(<<e0>>) \/ chan' = Sent(<<e0, [type |-> "Abort"]>>)
  <2>1. PICK f \in Seq(Frames) : chan' = Sent(f)
    <3>1. <<e>> \in Seq(Frames) /\ <<e, [type |-> "Abort"]>> \in Seq(Frames)
      BY <1>1, FrameTypes, SmallSeqs
    <3> QED BY <3>1, <1>3, <1>6
  <2>2. /\ aborted' \in [Ranks -> BOOLEAN] /\ \A i \in Ranks : aborted[i] => aborted'[i]
        /\ chan' \in [Workers -> Seq(Frames)]
    BY <2>1, <1>1, <1>6, AbortSent
  <2>3. /\ rank' \in [Ranks -> Generations]
        /\ \A j \in Ranks : WellFormed(rank'[j]) /\ rank'[j].inside = rank[j].inside
    BY <1>1, <1>2, <1>6, ReturnProps
  <2> QED BY <2>2, <2>3, <1>2, <1>4, <1>6, HeadGivesUp
<1>7. CASE /\ rank' = [rank EXCEPT ![0].pc = "gather", ![0].gathered = {}]
           /\ chan' = Sent(<<e0>>) /\ UNCHANGED <<exiting, aborted>>
  <2>1. PICK f \in Seq(Frames) : f = <<e>> /\ Range(f) = {e}
    BY SmallSeqs
  <2>2. /\ chan' \in [Workers -> Seq(Frames)]
        /\ \A w \in Workers : chan'[w] = chan[w] \/ chan'[w] = chan[w] \o f
    BY <2>1, <1>1, <1>3, <1>7, SentFrames
  <2>3. PICK r \in Generations : r = rank[0] /\ WellFormed(r)
    BY <1>1, RankZero, RankTypes
  <2>4. PICK q \in Generations :
          /\ q = [r EXCEPT !.pc = "gather", !.gathered = {}] /\ WellFormed(q) /\ q.pc = "gather"
          /\ q.req = r.req /\ q.snap = r.snap /\ q.tokens = r.tokens /\ q.ok = r.ok
          /\ q.gathered = {} /\ q.inside = r.inside
    <3>1. [r EXCEPT !.pc = "gather", !.gathered = {}] \in Generations
      BY DEF Generations, Places, Forwards
    <3>2. WellFormed([r EXCEPT !.pc = "gather", !.gathered = {}])
      BY <2>3, <1>2 DEF Generations, WellFormed, Forwards
    <3> QED BY <3>1, <3>2 DEF Generations
  <2>5. rank' = [rank EXCEPT ![0] = q]
    BY <2>3, <2>4, <1>7
  <2>6. /\ rank' \in [Ranks -> Generations] /\ \A j \in Ranks : WellFormed(rank'[j])
        /\ rank'[0] = q /\ \A j \in Ranks \ {0} : rank'[j] = rank[j]
    BY <2>4, <2>5, <1>1, RankZero, RankMoves
  <2>7. TypeOK'
    BY <2>2, <2>6, <1>1, <1>2, <1>7 DEF TypeOK
  <2>8. Lockstep'
    BY <2>3, <2>4, <2>6, <1>1, <1>2, <1>7, LockstepKept
  <2>9. CASE exiting
    BY <2>7, <2>8, <2>9, <1>7, GivesUp DEF TypeOK
  <2>10. CASE ~exiting
    <3>1. Serving /\ rank[0].tokens \in Seq(Tokens)
      BY <2>10, <1>2, HeadUp
    <3>2. ASSUME NEW begun \in Seq(Int), HeadHolds(begun)
          PROVE  HeadHolds(begun)' /\ \A v \in Workers : Paced(v)'
      <4>1. Unmatched => Unmatched'
        <5>1. ASSUME NEW w \in Workers, NEW x \in Range(chan'[w])
              PROVE  x \in Range(chan[w]) \/ x = e
          BY <5>1, <2>1, <2>2, <1>1, MoreFrames
        <5>2. \A w \in Workers : rank'[w] = rank[w]
          BY <2>6, RankZero
        <5>3. rank'[0].tokens = rank[0].tokens /\ requests' = requests
              /\ e.type \notin {"Decision", "Draft", "Accept"}
          BY <2>3, <2>4, <2>6, <1>2, <1>3
        <5> QED BY <5>1, <5>2, <5>3 DEF Unmatched, Runs
      <4> QED BY <4>1, <3>2, <2>3, <2>4, <2>6, <1>2 DEF HeadHolds, Holds, Paced
    <3>3. \A w \in Workers : rank'[w] = rank[w] /\ kv'[w] = kv[w] /\ snaps'[w] = snaps[w]
      BY <2>6, <1>2, RankZero
    <3>4. PICK t \in Seq(Tokens) : t = <<>>
      BY SmallSeqs
    <3>5. rank'[0].tokens = rank[0].tokens \o t
      BY <3>1, <3>4, <2>3, <2>4, <2>6
    <3>6. \A s \in Slots : snaps'[0][s] = snaps[0][s]
      BY <1>2
    <3>7. \A x \in Range(f) : /\ x.type = "RequestEnd" /\ x.req = rank[0].req
                              /\ rank'[0].pc = "gather" /\ x.ok = rank'[0].ok
                              /\ x.steps = Len(rank'[0].tokens)
      BY <2>1, <2>3, <2>4, <2>6, <1>3
    <3>8. rank[0].pc = "end" /\ rank'[0].pc = "gather"
          /\ rank'[0].gathered = {} /\ rank'[0].req = rank[0].req /\ rank'[0].snap = rank[0].snap
          /\ UNCHANGED <<exiting, proc, aborted, requests, back>>
      BY <2>3, <2>4, <2>6, <1>2, <1>7
    <3> HIDE <1>2, <1>7, <2>3, <2>4
    <3> QED BY <2>2, <2>7, <2>8, <3>1, <3>2, <3>3, <3>4, <3>5, <3>6, <3>7, <3>8, HeadMoves
  <2> QED BY <2>9, <2>10
<1> QED BY <1>2, <1>5, <1>6, <1>7
(* A report that is right.  The last one returns the request, and then all *)
(* that was asked of each worker's report makes the replicas agree.        *)
LEMMA LastReport ==
  ASSUME ClusterInv, NEW begun \in Seq(Int), HeadHolds(begun), NEW v \in Workers, Follows(v, begun),
         Reported(v), rank'[0].pc = "idle", rank'[0].ok = rank[0].ok, rank'[0].tokens = rank[0].tokens,
         rank'[v] = rank[v], UNCHANGED <<kv, chan>>
  PROVE  Agrees(v)'
<1>1. TypeOK
  BY DEF ClusterInv
<1>2. rank[0].pc = "gather" /\ Runs(v) /\ rank[v].pc = "idle"
      /\ (rank[0].ok => rank[v].ok /\ Len(rank[v].tokens) = Len(rank[0].tokens))
  BY DEF Follows, ReportRight
<1>3. PICK t \in Seq(Tokens), u \in Seq(Tokens) : t = rank[0].tokens /\ u = rank[v].tokens
  BY <1>1, RankZero, RankTypes
<1>4. ASSUME rank[0].ok PROVE kv[v] = kv[0] /\ rank[v].tokens = rank[0].tokens
  <2>1. t = u
    <3>1. \A k \in 1..Len(u) : 0 + k <= Len(t) => t[0 + k] = u[k]
      BY <1>2, <1>3 DEF Follows, Copies, HeadsOwn
    <3>2. Len(t) = Len(u)
      BY <1>2, <1>3, <1>4
    <3>3. \A k \in 1..Len(u) : t[k] = u[k]
      BY <3>1, <3>2
    <3> QED BY <3>2, <3>3, SeqEqual, Zenon
  <2>2. Holds(v, begun)
    BY <1>2, <1>4 DEF Follows, Copies, StuckAtStart
  <2>3. rank[v].tokens # <<>> /\ kv[v] = begun \o Front(rank[v].tokens)
    BY <2>2, <1>2 DEF Holds
  <2>4. ~Unmatched
    BY <1>2, <1>4 DEF Unmatched
  <2>5. Holds(0, begun)
    BY <2>1, <2>3, <2>4, <1>2, <1>3, <1>4 DEF HeadHolds
  <2>6. kv[0] = begun \o Front(rank[0].tokens)
    BY <2>5, <1>2 DEF Holds
  <2> QED BY <2>1, <2>3, <2>6, <1>3
<1>5. \A m \in Range(chan[v]) : m.type # "Request"
  BY <1>2 DEF Follows, FramesRight, FrameRight
<1> QED BY <1>2, <1>4, <1>5 DEF Agrees

LEMMA HeadGatherStep ==
  ASSUME ClusterInv, NEW w \in Workers, HeadGather(w)
  PROVE  ClusterInv'
<1>1. TypeOK /\ Lockstep
  BY DEF ClusterInv
<1> DEFINE all == rank[0].gathered \cup {w}
<1>2. /\ Up(0) /\ rank[0].pc = "gather" /\ back[w] # <<>>
      /\ back' = [back EXCEPT ![w] = Tail(@)]
      /\ UNCHANGED <<kv, saveable, snaps, proc, entered, requests>>
      /\ \/ /\ Head(back[w]).type = "Report" /\ Head(back[w]).req = rank[0].req
            /\ rank' = [rank EXCEPT ![0].gathered = IF all = Workers THEN {} ELSE all,
                                    ![0].pc = IF all = Workers THEN "idle" ELSE @]
            /\ UNCHANGED <<exiting, aborted, chan>>
         \/ Return(FALSE) /\ FatalExit
  BY DEF HeadGather, data, counts
<1>3. back[w] \in Seq(Reports) /\ Head(back[w]) \in Reports /\ Head(back[w]) \in Range(back[w])
      /\ Tail(back[w]) \in Seq(Reports) /\ Range(Tail(back[w])) \subseteq Range(back[w])
  <2>1. back[w] \in Seq(Reports)
    BY <1>1, QueueTypes
  <2> QED BY <2>1, <1>2, TailProps
<1>4. /\ back' \in [Workers -> Seq(Reports)] /\ back'[w] = Tail(back[w])
      /\ \A v \in Workers \ {w} : back'[v] = back[v]
  BY <1>1, <1>2, <1>3 DEF TypeOK
<1>5. \A v \in Workers : Range(back'[v]) \subseteq Range(back[v])
  BY <1>3, <1>4
<1>6. CASE Return(FALSE) /\ FatalExit
  BY <1>2, <1>4, <1>6, HeadReturnsFailed
<1>7. CASE /\ Head(back[w]).type = "Report" /\ Head(back[w]).req = rank[0].req
           /\ rank' = [rank EXCEPT ![0].gathered = IF all = Workers THEN {} ELSE all,
                                   ![0].pc = IF all = Workers THEN "idle" ELSE @]
           /\ UNCHANGED <<exiting, aborted, chan>>
  <2>1. PICK r \in Generations : r = rank[0] /\ WellFormed(r)
    BY <1>1, RankZero, RankTypes
  <2>2. PICK q \in Generations :
          /\ q = [r EXCEPT !.gathered = IF all = Workers THEN {} ELSE all,
                           !.pc = IF all = Workers THEN "idle" ELSE @]
          /\ WellFormed(q) /\ q.pc = (IF all = Workers THEN "idle" ELSE "gather")
          /\ q.gathered = (IF all = Workers THEN {} ELSE all)
          /\ q.req = r.req /\ q.snap = r.snap /\ q.tokens = r.tokens /\ q.ok = r.ok
          /\ q.inside = r.inside /\ r.pc = "gather"
    <3>1. r.pc = "gather" /\ all \in SUBSET Workers
      BY <2>1, <1>2 DEF Generations
    <3> HIDE DEF all
    <3>2. (IF all = Workers THEN {} ELSE all) \in SUBSET Workers
          /\ (IF all = Workers THEN "idle" ELSE r.pc) \in {"idle", "gather"}
      BY <3>1
    <3>3. PICK g \in SUBSET Workers, p \in {"idle", "gather"} :
            /\ g = (IF all = Workers THEN {} ELSE all)
            /\ p = (IF all = Workers THEN "idle" ELSE r.pc)
      BY <3>2
    <3> DEFINE c == [r EXCEPT !.gathered = g, !.pc = p]
    <3>4. c \in Generations /\ WellFormed(c)
      BY <2>1, <3>1 DEF Generations, Places, Forwards, WellFormed
    <3>5. /\ c.pc = p /\ c.gathered = g /\ c.req = r.req /\ c.snap = r.snap
          /\ c.tokens = r.tokens /\ c.ok = r.ok /\ c.inside = r.inside
      BY <2>1 DEF Generations
    <3>6. c = [r EXCEPT !.gathered = g, !.pc = p]
      OBVIOUS
    <3> HIDE DEF c
    <3>7. c = [r EXCEPT !.gathered = IF all = Workers THEN {} ELSE all,
                        !.pc = IF all = Workers THEN "idle" ELSE @]
      BY <3>3, <3>6
    <3>8. g = (IF all = Workers THEN {} ELSE all) /\ p = (IF all = Workers THEN "idle" ELSE "gather")
      BY <3>1, <3>3
    <3> QED BY <3>1, <3>4, <3>5, <3>7, <3>8
  <2>3. rank' = [rank EXCEPT ![0] = q]
    BY <2>1, <2>2, <1>7, Zenon
  <2>4. /\ rank' \in [Ranks -> Generations] /\ \A j \in Ranks : WellFormed(rank'[j])
        /\ rank'[0] = q /\ \A j \in Ranks \ {0} : rank'[j] = rank[j]
    BY <2>2, <2>3, <1>1, RankZero, RankMoves
  <2>5. TypeOK'
    BY <2>4, <1>1, <1>2, <1>4, <1>7 DEF TypeOK
  <2>6. Lockstep'
    BY <2>1, <2>2, <2>4, <1>1, <1>2, <1>7, LockstepKept
  <2>7. CASE exiting
    BY <2>5, <2>6, <2>7, <1>7, GivesUp DEF TypeOK
  <2>8. CASE ~exiting
    <3>1. Serving /\ Busy /\ HeadServes /\ \A v \in Workers : Known(v) /\ SnapsAgree(v)
      BY <2>8, <1>2, HeadUp DEF ClusterInv, Busy
    <3>2. PICK begun \in Seq(Int) : HeadHolds(begun) /\ \A v \in Workers : Follows(v, begun)
      BY <3>1 DEF ClusterInv, Together
    <3>3. rank[0].req = requests
      BY <3>2 DEF HeadHolds
    <3>4. \A v \in Workers : rank'[v] = rank[v]
      BY <2>4, RankZero
    <3>5. Reported(w)
      <4>1. Head(back[w]) = [type |-> "Report", req |-> requests]
        BY <3>3, <1>3, <1>7 DEF Reports
      <4> QED BY <4>1, <1>3 DEF Reported
    <3>6. ASSUME NEW v \in Workers PROVE Known(v)'
      <4>1. /\ rank'[v] = rank[v] /\ chan'[v] = chan[v] /\ requests' = requests
            /\ Range(back'[v]) \subseteq Range(back[v]) /\ Busy
        BY <3>1, <3>4, <1>2, <1>5, <1>7
      <4> QED BY <4>1, <3>1 DEF Known, Runs
    <3>7. ASSUME NEW v \in Workers PROVE SnapsAgree(v)'
      <4>1. ASSUME NEW s \in Slots, ~aborted[v] PROVE Saving(v, s) => Saving(v, s)'
        <5>1. CASE all = Workers
          <6>1. v \in rank[0].gathered \/ v = w
            BY <5>1
          <6>2. Reported(v)
            BY <6>1, <3>5 DEF Reported
          <6>3. rank[v].pc = "idle"
            BY <6>2, <3>2 DEF Follows, ReportRight
          <6> QED BY <6>3 DEF Saving
        <5>2. CASE all # Workers
          <6>1. Busy'
            BY <5>2, <2>2, <2>4 DEF Busy
          <6> QED BY <6>1, <3>4, <1>2 DEF Saving, Runs
        <5> QED BY <5>1, <5>2
      <4>2. ASSUME NEW s \in Slots, ~aborted[v], SlotAgrees(v, s) PROVE SlotAgrees(v, s)'
        BY <4>1, <4>2, <1>2, <1>7 DEF SlotAgrees, OpOn
      <4> QED BY <4>2, <3>1, <1>2, <1>7 DEF SnapsAgree
    <3>8. CASE all = Workers
      <4>1. rank'[0].pc = "idle" /\ rank'[0].gathered = {} /\ rank'[0].ok = rank[0].ok
            /\ rank'[0].tokens = rank[0].tokens
        BY <3>8, <2>1, <2>2, <2>4
      <4>2. ASSUME NEW v \in Workers PROVE Agrees(v)'
        <5>1. v \in rank[0].gathered \/ v = w
          BY <3>8
        <5>2. Reported(v)
          BY <5>1, <3>5 DEF Reported
        <5> QED BY <5>2, <4>1, <3>2, <3>4, <1>2, <1>7, LastReport
      <4>3. HeadServes'
        BY <4>1, <3>1, <1>7 DEF HeadServes
      <4> QED BY <4>1, <4>2, <4>3, <3>6, <3>7, <2>5, <2>6 DEF ClusterInv, Busy
    <3>9. CASE all # Workers
      <4>1. rank'[0].pc = "gather" /\ rank'[0].gathered = all /\ rank'[0].ok = rank[0].ok
            /\ rank'[0].tokens = rank[0].tokens /\ rank'[0].req = rank[0].req
            /\ rank'[0].snap = rank[0].snap
        BY <3>9, <2>1, <2>2, <2>4
      <4>2. HeadHolds(begun)'
        <5>1. Holds(0, begun) => Holds(0, begun)'
          BY <4>1, <1>2 DEF Holds
        <5>2. Unmatched => Unmatched'
          BY <4>1, <3>4, <1>2, <1>7 DEF Unmatched, Runs
        <5> QED BY <5>1, <5>2, <4>1, <3>2, <1>2 DEF HeadHolds
      <4>3. ASSUME NEW v \in Workers PROVE Follows(v, begun)'
        <5>1. Runs(v)' <=> Runs(v)
          BY <3>4, <1>2 DEF Runs
        <5>2. \A step, u : HeadsOwn(step, u)' <=> HeadsOwn(step, u)
          BY <4>1, <1>2 DEF HeadsOwn
        <5>3. Copies(v, begun)'
          <6>1. HeadsOwn(0, rank[v].tokens)' <=> HeadsOwn(0, rank[v].tokens)
            BY <4>1, <3>4, <1>2 DEF HeadsOwn
          <6>2. Holds(v, begun) => Holds(v, begun)'
            BY <3>4, <1>2 DEF Holds
          <6>3. StuckAtStart(v)' <=> StuckAtStart(v)
            BY <3>4, <1>7 DEF StuckAtStart
          <6> QED BY <6>1, <6>2, <6>3, <5>1, <4>1, <3>2, <3>4, <1>2 DEF Follows, Copies
        <5>4. FramesRight(v, begun)'
          BY <5>1, <5>2, <4>1, <3>2, <1>2, <1>7 DEF Follows, FramesRight, FrameRight
        <5>5. Reported(v)' => Reported(v)
          BY <4>1, <3>5, <1>2, <1>5 DEF Reported
        <5>6. ReportRight(v)'
          BY <5>1, <5>5, <4>1, <3>2, <3>4 DEF Follows, ReportRight
        <5> QED BY <5>3, <5>4, <5>6, <4>1 DEF Follows, Paced
      <4>4. HeadServes'
        BY <4>1, <3>1, <1>7 DEF HeadServes
      <4>5. Together'
        BY <4>2, <4>3 DEF Together
      <4> QED BY <4>1, <4>4, <4>5, <3>6, <3>7, <2>5, <2>6 DEF ClusterInv, Busy
    <3> QED BY <3>8, <3>9
  <2> QED BY <2>7, <2>8
<1> QED BY <1>2, <1>6, <1>7
(* A request that went out: every worker has yet to read it.               *)
LEMMA RequestSent ==
  ASSUME ClusterInv, Up(0), ~exiting, ~Busy, NEW m \in Starts, m \in Frames, m.type = "Request", m.req = requests + 1,
         m.restore # None => snaps[0][m.restore[1]] # None,
         m.snap # None => snaps[0][m.snap[1]] = None,
         requests' = requests + 1, Begin(0, m), chan' = Sent(<<m>>),
         UNCHANGED <<snaps, proc, entered, aborted, back, exiting>>
  PROVE  ClusterInv'
<1>1. TypeOK /\ Lockstep /\ Serving /\ ~aborted[0] /\ requests \in Nat
      /\ \A w \in Workers : Agrees(w) /\ Known(w) /\ SnapsAgree(w)
  BY HeadUp DEF ClusterInv, TypeOK
<1>2. /\ rank' \in [Ranks -> Generations] /\ \A j \in Ranks : WellFormed(rank'[j])
      /\ kv' \in [Ranks -> Seq(Int)] /\ saveable' \in [Ranks -> BOOLEAN]
      /\ \A j \in Ranks \ {0} : rank'[j] = rank[j] /\ kv'[j] = kv[j]
      /\ rank'[0].req = m.req /\ rank'[0].chunk = 0 /\ rank'[0].inside = FALSE
      /\ rank'[0].snap = m.snap /\ rank'[0].tokens = <<>> /\ rank'[0].gathered = {}
      /\ \/ /\ m.restore # None /\ m.restore[1] \in Slots /\ snaps[0][m.restore[1]] = None
            /\ rank'[0].pc = "end" /\ rank'[0].ok = FALSE
         \/ /\ rank'[0].pc = "prefill" /\ rank'[0].ok = TRUE
            /\ m.restore = None => kv'[0] = <<>>
            /\ m.restore # None =>
                 /\ m.restore[1] \in Slots /\ snaps[0][m.restore[1]] # None
                 /\ kv'[0] = snaps[0][m.restore[1]]
  BY <1>1, RankZero, BeginProps
<1>3. /\ rank'[0].pc = "prefill"
      /\ m.restore = None => kv'[0] = <<>>
      /\ m.restore # None => kv'[0] = snaps[0][m.restore[1]]
  BY <1>2
<1>4. PICK f \in Seq(Frames) : f = <<m>> /\ Range(f) = {m} /\ Len(f) = 1
  <2>1. <<m>> \in Seq(Frames) /\ Range(<<m>>) = {m} /\ Len(<<m>>) = 1
    BY SmallSeqs
  <2> QED BY <2>1
<1>5. /\ chan' \in [Workers -> Seq(Frames)]
      /\ \A w \in Workers : chan'[w] = chan[w] \/ chan'[w] = chan[w] \o f
  BY <1>1, <1>4, SentFrames
<1>6. TypeOK'
  <2>1. /\ snaps' \in [Ranks -> [Slots -> Seq(Int)]]
        /\ proc' \in [Ranks -> {"up", "frozen", "exited"}] /\ aborted' \in [Ranks -> BOOLEAN]
        /\ back' \in [Workers -> Seq(Reports)] /\ exiting' \in BOOLEAN /\ requests' \in Nat
    BY <1>1 DEF TypeOK
  <2> QED BY <2>1, <1>2, <1>5 DEF TypeOK
<1>7. ~rank[0].inside
  BY <1>1, RankZero, RankTypes DEF Busy, WellFormed, Forwards
<1>8. Lockstep'
  <2>1. \A j \in Ranks : ~rank'[j].inside /\ ~aborted'[j] => ~rank[j].inside /\ ~aborted[j]
    BY <1>2, <1>7
  <2> QED BY <2>1, <1>1, LockstepKept
<1>9. PICK begun \in Seq(Int) : begun = Append(kv'[0], - requests')
  <2>1. kv'[0] \in Seq(Int) /\ - requests' \in Int
    BY <1>1, <1>2, RankZero
  <2>2. Append(kv'[0], - requests') \in Seq(Int)
    BY <2>1, AppendRange
  <2> QED BY <2>2
<1>10. HeadHolds(begun)'
  <2>1. Chunks # 0
    BY ClusterAssumption
  <2>2. Holds(0, begun)'
    BY <2>1, <1>2, <1>3, <1>9 DEF Holds
  <2>3. rank'[0].snap # None => snaps'[0][rank'[0].snap[1]] = None
    BY <1>2
  <2> QED BY <2>2, <2>3, <1>2, <1>3 DEF HeadHolds
<1>11. \A w \in Workers : rank'[w] = rank[w] /\ kv'[w] = kv[w]
  BY <1>2, RankZero
<1>12. ASSUME NEW w \in Workers PROVE rank[w].req \in Nat /\ rank[w].req # requests' /\ rank[w].pc = "idle"
  BY <1>1, <1>12, RankZero, RankTypes DEF Known, Agrees
<1>13. \A w \in Workers : \A x \in Range(chan'[w]) : x \in Range(chan[w]) \/ x = m
  BY <1>1, <1>4, <1>5, MoreFrames
<1>14. ASSUME NEW w \in Workers PROVE Known(w)'
  <2>1. rank[w].req <= requests'
    BY <1>1, <1>12 DEF Known
  <2>2. \A x \in Range(back[w]) : x.type = "Report" => x.req <= requests'
    <3>1. \A x \in Range(back[w]) : x \in Reports
      BY <1>1, QueueTypes DEF Range
    <3>2. \A x \in Range(back[w]) : x.type = "Report" => x.req \in Nat
      BY <3>1 DEF Reports
    <3> QED BY <3>2, <1>1 DEF Known
  <2>3. ASSUME NEW x \in Range(chan[w]), x.type \in {"Decision", "Draft", "Accept", "RequestEnd"}
        PROVE  x.req \in Nat /\ x.req <= requests'
    <3>1. x \in Frames
      BY <2>3, <1>1, QueueTypes DEF Range
    <3>2. x.req \in Nat
      BY <3>1, <2>3, FrameKinds, DecisionKinds DEF Ends
    <3> QED BY <3>2, <2>3, <1>1 DEF Known
  <2>4. ~Runs(w)' /\ rank'[w].pc = "idle"
    BY <1>11, <1>12 DEF Runs
  <2> QED BY <2>1, <2>2, <2>3, <2>4, <1>11, <1>13 DEF Known
<1>15. ASSUME NEW w \in Workers PROVE SnapsAgree(w)'
  <2> SUFFICES ASSUME ~aborted[w], proc[w] # "exited", NEW s \in Slots, snaps[0][s] # None
               PROVE  SlotAgrees(w, s)'
    BY DEF SnapsAgree
  <2>1. SlotAgrees(w, s) /\ ~Saving(w, s)
    BY <1>1 DEF SnapsAgree, Saving
  <2>2. \A x \in Range(f) : ~OpOn(x, s)
    BY <1>4 DEF OpOn
  <2> QED BY <2>1, <2>2, <1>1, <1>5, <1>11, NoNewOps
<1>16. ASSUME NEW w \in Workers PROVE Follows(w, begun)'
  <2>1. ~Runs(w)' /\ rank'[w].pc = "idle"
    BY <1>11, <1>12 DEF Runs
  <2>2. Copies(w, begun)'
    BY <2>1 DEF Copies
  <2>3. Paced(w)'
    <3>1. entered[0] = 0
      BY <1>1, <1>7, RankZero DEF Lockstep
    <3>2. Matched(0)' = 0
      BY <3>1, <1>2 DEF Matched
    <3> QED BY <3>2, <2>1 DEF Paced
  <2>4. ASSUME NEW x \in Range(chan[w]) PROVE FrameRight(x, w, begun)'
    <3>1. x \in Frames /\ x.type # "Request"
      BY <2>4, <1>1, QueueTypes DEF Range, Agrees
    <3>2. x.type \in {"Decision", "Draft", "Accept", "RequestEnd"} => x.req \in Nat /\ x.req <= requests
      BY <2>4, <3>1, <1>1, FrameKinds, DecisionKinds DEF Ends, Known
    <3>3. x.type \in {"Decision", "Draft", "Accept", "RequestEnd"} => x.req # requests'
      BY <3>2, <1>1
    <3> QED BY <3>1, <3>3 DEF FrameRight
  <2>5. FrameRight(m, w, begun)'
    <3>1. m.restore = None => begun = <<- requests'>>
      <4>1. Append(<<>>, - requests') = <<- requests'>>
        OBVIOUS
      <4> QED BY <4>1, <1>3, <1>9
    <3>2. m.restore # None =>
            /\ m.restore # m.snap /\ snaps'[0][m.restore[1]] # None
            /\ begun = Append(snaps'[0][m.restore[1]], - requests')
      BY <1>3, <1>9
    <3> QED BY <3>1, <3>2, <2>1, <1>2 DEF FrameRight
  <2>6. FramesRight(w, begun)'
    <3>1. \A x \in Range(chan'[w]) : FrameRight(x, w, begun)'
      BY <2>4, <2>5, <1>13
    <3>2. ASSUME NEW k \in DOMAIN chan'[w], chan'[w][k].type = "Request"
          PROVE  \A l \in DOMAIN chan'[w] : l <= k
      <4>1. chan[w] \in Seq(Frames)
        BY <1>1, QueueTypes
      <4>2. \A j \in DOMAIN chan[w] : chan[w][j].type # "Request" /\ chan'[w][j] = chan[w][j]
        <5>1. \A j \in DOMAIN chan[w] : chan[w][j].type # "Request"
          BY <1>1 DEF Agrees, Range
        <5>2. \A j \in DOMAIN chan[w] : chan'[w][j] = chan[w][j]
          BY <1>1, <1>5, MoreFrames
        <5> QED BY <5>1, <5>2
      <4>3. k \notin DOMAIN chan[w]
        BY <4>2, <3>2
      <4>4. chan'[w] = chan[w] \o f
        BY <4>3, <1>5
      <4>5. Len(chan'[w]) = Len(chan[w]) + 1 /\ chan'[w] \in Seq(Frames)
        <5>1. PICK u \in Seq(Frames) : u = chan[w]
          BY <4>1
        <5>2. Len(u \o f) = Len(u) + Len(f) /\ u \o f \in Seq(Frames)
          BY ConcatProps
        <5> QED BY <5>1, <5>2, <4>4, <1>4
      <4> QED BY <4>1, <4>3, <4>5
    <3>3. \A k, l \in DOMAIN chan'[w] : chan'[w][k].type = "Request" => ~(k < l)
      <4>1. chan'[w] \in Seq(Frames)
        BY <1>5
      <4>2. \A k \in DOMAIN chan'[w] : k \in Nat
        BY <4>1
      <4> QED BY <4>2, <3>2
    <3> QED BY <3>1, <3>3 DEF FramesRight
  <2>7. ~Reported(w)'
    BY <1>1, <1>2 DEF Reported, Known
  <2> QED BY <2>2, <2>3, <2>6, <2>7 DEF Follows, ReportRight
<1>17. Together'
  BY <1>10, <1>16 DEF Together
<1>18. HeadServes'
  BY <1>1, <1>2 DEF HeadServes
<1> QED BY <1>3, <1>6, <1>8, <1>14, <1>15, <1>17, <1>18 DEF ClusterInv, Busy

LEMMA HeadStartStep ==
  ASSUME ClusterInv, NEW restore \in SlotOrNone, NEW snap \in SlotOrNone, NEW spec \in Modes,
         HeadStart(restore, snap, spec)
  PROVE  ClusterInv'
<1>1. TypeOK /\ requests \in Nat
  BY DEF ClusterInv, TypeOK
<1> DEFINE m0 == [type |-> "Request", req |-> requests + 1, restore |-> restore, snap |-> snap, spec |-> spec]
<1>2. spec \in BOOLEAN
  BY ClusterAssumption
<1>3. PICK m \in Starts : /\ m = m0 /\ m.type = "Request" /\ m.req = requests + 1
                          /\ m.restore = restore /\ m.snap = snap
  <2>1. m0 \in Starts /\ m0.type = "Request" /\ m0.req = requests + 1 /\ m0.restore = restore /\ m0.snap = snap
    BY <1>1, <1>2 DEF Starts
  <2> HIDE DEF m0
  <2> QED BY <2>1
<1>4. m \in Frames
  BY DEF Frames
<1>5. /\ Up(0) /\ rank[0].pc = "idle" /\ ~exiting
      /\ restore # None => snaps[0][restore[1]] # None
      /\ snap # None => snaps[0][snap[1]] = None
      /\ requests' = requests + 1
      /\ \/ Begin(0, m) /\ chan' = Sent(<<m>>) /\ UNCHANGED <<exiting, aborted>>
         \/ /\ rank' = [rank EXCEPT ![0] = [Idle EXCEPT !.req = m.req, !.ok = FALSE]]
            /\ exiting' = TRUE /\ aborted' = [aborted EXCEPT ![0] = TRUE]
            /\ chan' = Sent(<<m, [type |-> "Abort"]>>) /\ UNCHANGED <<kv, saveable>>
      /\ UNCHANGED <<snaps, proc, entered, back>>
  BY <1>3 DEF HeadStart
<1>6. CASE Begin(0, m) /\ chan' = Sent(<<m>>) /\ UNCHANGED <<exiting, aborted>>
  BY <1>3, <1>4, <1>5, <1>6, RequestSent DEF Busy
<1>7. CASE /\ rank' = [rank EXCEPT ![0] = [Idle EXCEPT !.req = m.req, !.ok = FALSE]]
           /\ exiting' = TRUE /\ aborted' = [aborted EXCEPT ![0] = TRUE]
           /\ chan' = Sent(<<m, [type |-> "Abort"]>>) /\ UNCHANGED <<kv, saveable>>
  <2>1. PICK f \in Seq(Frames) : chan' = Sent(f)
    <3>1. <<m, [type |-> "Abort"]>> \in Seq(Frames)
      BY <1>1, <1>4, FrameTypes, SmallSeqs
    <3> QED BY <3>1, <1>7
  <2>2. /\ aborted' \in [Ranks -> BOOLEAN] /\ \A i \in Ranks : aborted[i] => aborted'[i]
        /\ chan' \in [Workers -> Seq(Frames)]
    BY <2>1, <1>1, <1>7, AbortSent
  <2>3. PICK q \in Generations : /\ q = [Idle EXCEPT !.req = m.req, !.ok = FALSE]
                                 /\ WellFormed(q) /\ q.inside = FALSE
    <3>1. m.req \in Nat /\ 0 \in 0..Chunks /\ <<>> \in Seq(Tokens) /\ None \in SlotOrNone
      BY <1>1, <1>3, ClusterAssumption DEF SlotOrNone
    <3>2. Idle \in Generations /\ Idle.pc = "idle" /\ Idle.tokens = <<>> /\ Idle.inside = FALSE
      BY <3>1 DEF Idle, Generations, Places
    <3>3. PICK r \in Generations : r = Idle /\ r.pc = "idle" /\ r.tokens = <<>> /\ r.inside = FALSE
      BY <3>2
    <3>4. PICK q \in Generations : q = [r EXCEPT !.req = m.req, !.ok = FALSE]
      BY <3>1 DEF Generations
    <3>5. q.pc = "idle" /\ q.inside = FALSE
      BY <3>3, <3>4 DEF Generations
    <3>6. WellFormed(q)
      BY <3>5 DEF WellFormed
    <3> QED BY <3>3, <3>4, <3>5, <3>6
  <2>4. rank' = [rank EXCEPT ![0] = q]
    BY <2>3, <1>7
  <2>5. /\ rank' \in [Ranks -> Generations] /\ \A j \in Ranks : WellFormed(rank'[j])
        /\ rank'[0] = q /\ \A j \in Ranks \ {0} : rank'[j] = rank[j]
    BY <2>3, <2>4, <1>1, RankZero, RankMoves
  <2>6. rank[0].inside = FALSE
    BY <1>1, <1>5, RankZero, RankTypes DEF WellFormed, Forwards
  <2>7. \A j \in Ranks : rank'[j].inside = rank[j].inside
    BY <2>3, <2>5, <2>6
  <2>8. requests' \in Nat /\ snaps' \in [Ranks -> [Slots -> Seq(Int)]] /\ back' \in [Workers -> Seq(Reports)]
    BY <1>1, <1>5 DEF TypeOK
  <2> QED BY <2>2, <2>5, <2>7, <2>8, <1>5, <1>7, HeadGivesUp
<1> QED BY <1>5, <1>6, <1>7
(* Operations on a slot go out between requests, and the one that saves    *)
(* comes last and finds on each worker the history the head saved.         *)
LEMMA SlotWritten ==
  ASSUME ClusterInv, Up(0), ~exiting, ~Busy, NEW s \in Slots, NEW f \in Seq(Frames), chan' = Sent(f),
         \A x \in Range(f) : x.type = "Op" /\ x.slot = s,
         snaps' \in [Ranks -> [Slots -> Seq(Int)]], \A i \in Ranks \ {0} : snaps'[i] = snaps[i],
         \A s2 \in Slots \ {s} : snaps'[0][s2] = snaps[0][s2],
         snaps'[0][s] = None \/ (snaps'[0][s] = kv[0] /\ rank[0].ok /\ Len(f) = 1),
         UNCHANGED <<rank, kv, saveable, proc, entered, aborted, back, exiting, requests>>
  PROVE  ClusterInv'
<1>1. TypeOK /\ Lockstep /\ Serving /\ HeadServes
      /\ \A w \in Workers : Agrees(w) /\ Known(w) /\ SnapsAgree(w)
  BY HeadUp DEF ClusterInv
<1>2. /\ chan' \in [Workers -> Seq(Frames)]
      /\ \A w \in Workers : chan'[w] = chan[w] \/ chan'[w] = chan[w] \o f
      /\ \A w \in Workers : \A x \in Range(chan'[w]) : x \in Range(chan[w]) \/ x \in Range(f)
  BY <1>1, SentFrames
<1>3. TypeOK'
  BY <1>1, <1>2 DEF TypeOK
<1>4. Lockstep'
  BY <1>1 DEF Lockstep
<1>5. ASSUME NEW w \in Workers PROVE Agrees(w)' /\ Known(w)'
  <2>1. \A x \in Range(chan'[w]) : x \in Range(chan[w]) \/ x.type = "Op"
    BY <1>2
  <2>2. Agrees(w) /\ Known(w)
    BY <1>1
  <2>3. Agrees(w)'
    BY <2>1, <2>2 DEF Agrees
  <2>4. rank'[w].pc = "idle" /\ ~Busy'
    BY <2>2 DEF Agrees, Busy
  <2>5. Known(w)'
    BY <2>1, <2>2, <2>4 DEF Known
  <2> QED BY <2>3, <2>5
<1>6. ASSUME NEW w \in Workers PROVE SnapsAgree(w)'
  <2> SUFFICES ASSUME ~aborted[w], proc[w] # "exited", NEW z \in Slots, snaps'[0][z] # None
               PROVE  SlotAgrees(w, z)'
    BY DEF SnapsAgree
  <2>1. snaps'[w] = snaps[w] /\ w # 0
    BY RankZero
  <2>2. CASE z # s
    <3>1. \A x \in Range(f) : ~OpOn(x, z)
      BY <2>2 DEF OpOn
    <3>2. SlotAgrees(w, z) /\ snaps'[0][z] = snaps[0][z]
      BY <2>2, <1>1 DEF SnapsAgree
    <3>3. ~Saving(w, z)
      BY DEF Saving
    <3> QED BY <3>1, <3>2, <3>3, <2>1, <1>1, <1>2, NoNewOps
  <2>3. CASE z = s
    <3>1. snaps'[0][s] = kv[0] /\ rank[0].ok /\ Len(f) = 1
      BY <2>3
    <3>2. kv'[w] = snaps'[0][s]
      BY <3>1, <1>1 DEF Agrees
    <3>3. PICK u \in Seq(Frames) : u = chan[w]
      BY <1>1, QueueTypes
    <3>4. chan'[w] = u \o f
      <4>1. ~closed(w)
        BY <1>1 DEF closed, Serving
      <4> QED BY <4>1, <3>3, <1>1, SentProps
    <3>5. /\ Len(u \o f) = Len(u) + 1 /\ u \o f \in Seq(Frames)
          /\ Len(u) + 1 \in DOMAIN (u \o f) /\ (u \o f)[Len(u) + 1] = f[1] /\ f[1] \in Range(f)
      <4>1. 1 \in DOMAIN f
        BY <3>1
      <4>2. f[1] \in Range(f)
        BY <4>1 DEF Range
      <4>3. /\ Len(u \o f) = Len(u) + Len(f) /\ u \o f \in Seq(Frames)
            /\ Len(u) + 1 \in DOMAIN (u \o f) /\ (u \o f)[Len(u) + 1] = f[1]
        BY <4>1, ConcatProps
      <4> QED BY <4>2, <4>3, <3>1
    <3>6. PICK k \in DOMAIN chan'[w] : k = Len(u) + 1
      BY <3>4, <3>5
    <3>7. OpOn(chan'[w][k], s)
      BY <3>4, <3>5, <3>6 DEF OpOn
    <3>8. \A l \in DOMAIN chan'[w] : ~(k < l)
      BY <3>3, <3>4, <3>5, <3>6
    <3> QED BY <2>3, <3>2, <3>7, <3>8 DEF SlotAgrees, OpOn
  <2> QED BY <2>2, <2>3
<1>7. ~Busy' /\ HeadServes'
  BY <1>1 DEF Busy, HeadServes
<1> QED BY <1>3, <1>4, <1>5, <1>6, <1>7 DEF ClusterInv

LEMMA OpFrames ==
  ASSUME TypeOK, NEW s \in Slots
  PROVE  /\ \E f \in Seq(Frames) :
              f = <<Op(TRUE, s)>> /\ Len(f) = 1 /\ \A x \in Range(f) : x.type = "Op" /\ x.slot = s
         /\ \E f \in Seq(Frames) :
              f = <<Op(FALSE, s)>> /\ \A x \in Range(f) : x.type = "Op" /\ x.slot = s
         /\ \E f \in Seq(Frames) :
              f = <<Op(TRUE, s), Op(FALSE, s), Op(FALSE, s)>> /\ \A x \in Range(f) : x.type = "Op" /\ x.slot = s
         /\ \A save \in BOOLEAN : <<Op(save, s), [type |-> "Abort"]>> \in Seq(Frames)
<1>1. PICK a \in Frames, b \in Frames, c \in Frames :
        /\ a = Op(TRUE, s) /\ b = Op(FALSE, s) /\ c = [type |-> "Abort"]
        /\ a.type = "Op" /\ a.slot = s /\ b.type = "Op" /\ b.slot = s
  BY FrameTypes DEF Op
<1>2. <<a>> \in Seq(Frames) /\ Range(<<a>>) = {a} /\ Len(<<a>>) = 1
      /\ <<b>> \in Seq(Frames) /\ Range(<<b>>) = {b}
      /\ <<a, c>> \in Seq(Frames) /\ <<b, c>> \in Seq(Frames)
  BY SmallSeqs
<1>3. <<a, b, b>> \in Seq(Frames) /\ Range(<<a, b, b>>) = {a, b}
  <2>1. DOMAIN <<a, b, b>> = {1, 2, 3} /\ <<a, b, b>>[1] = a /\ <<a, b, b>>[2] = b /\ <<a, b, b>>[3] = b
    OBVIOUS
  <2> QED BY <2>1 DEF Range
<1>4. \E f \in Seq(Frames) : f = <<a>> /\ Len(f) = 1 /\ \A x \in Range(f) : x.type = "Op" /\ x.slot = s
  BY <1>1, <1>2
<1>5. \E f \in Seq(Frames) : f = <<b>> /\ \A x \in Range(f) : x.type = "Op" /\ x.slot = s
  BY <1>1, <1>2
<1>6. \E f \in Seq(Frames) : f = <<a, b, b>> /\ \A x \in Range(f) : x.type = "Op" /\ x.slot = s
  BY <1>1, <1>3
<1>7. \A save \in BOOLEAN : <<Op(save, s), c>> \in Seq(Frames)
  BY <1>1, <1>2
<1> QED BY <1>1, <1>4, <1>5, <1>6, <1>7

(* A snapshot operation that did not go out to everybody.                  *)
LEMMA OpLost ==
  ASSUME ClusterInv, NEW s \in Slots, NEW save \in BOOLEAN,
         exiting' = TRUE, aborted' = [aborted EXCEPT ![0] = TRUE],
         chan' = Sent(<<Op(save, s), [type |-> "Abort"]>>), snaps' \in [Ranks -> [Slots -> Seq(Int)]],
         UNCHANGED <<rank, kv, saveable, proc, entered, back, requests>>
  PROVE  ClusterInv'
<1>1. TypeOK
  BY DEF ClusterInv
<1>2. PICK f \in Seq(Frames) : chan' = Sent(f)
  BY <1>1, OpFrames
<1>3. /\ aborted' \in [Ranks -> BOOLEAN] /\ \A i \in Ranks : aborted[i] => aborted'[i]
      /\ chan' \in [Workers -> Seq(Frames)]
  BY <1>1, <1>2, AbortSent
<1> QED BY <1>1, <1>3, HeadGivesUp DEF TypeOK

LEMMA SaveTurnStep ==
  ASSUME ClusterInv, NEW s \in Slots, SaveTurn(s)
  PROVE  ClusterInv'
<1>1. TypeOK /\ kv[0] \in Seq(Int)
  BY RankZero, RankTypes DEF ClusterInv
<1>2. /\ Up(0) /\ ~exiting /\ ~Busy /\ rank[0].ok /\ snaps[0][s] = None
      /\ UNCHANGED <<rank, kv, saveable, proc, entered, back, requests>>
      /\ \/ /\ exiting' = TRUE /\ aborted' = [aborted EXCEPT ![0] = TRUE]
            /\ chan' = Sent(<<Op(TRUE, s), [type |-> "Abort"]>>) /\ UNCHANGED snaps
         \/ /\ chan' = Sent(<<Op(TRUE, s)>>) /\ snaps' = [snaps EXCEPT ![0][s] = kv[0]]
            /\ UNCHANGED <<exiting, aborted>>
         \/ /\ chan' = Sent(<<Op(TRUE, s), Op(FALSE, s), Op(FALSE, s)>>)
            /\ UNCHANGED <<snaps, exiting, aborted>>
  BY DEF SaveTurn, Busy
<1>3. CASE /\ exiting' = TRUE /\ aborted' = [aborted EXCEPT ![0] = TRUE]
           /\ chan' = Sent(<<Op(TRUE, s), [type |-> "Abort"]>>) /\ UNCHANGED snaps
  BY <1>1, <1>2, <1>3, OpLost DEF TypeOK
<1>4. CASE /\ chan' = Sent(<<Op(TRUE, s)>>) /\ snaps' = [snaps EXCEPT ![0][s] = kv[0]]
           /\ UNCHANGED <<exiting, aborted>>
  <2>1. PICK f \in Seq(Frames) :
          f = <<Op(TRUE, s)>> /\ Len(f) = 1 /\ \A x \in Range(f) : x.type = "Op" /\ x.slot = s
    BY <1>1, OpFrames
  <2>2. /\ snaps' \in [Ranks -> [Slots -> Seq(Int)]] /\ snaps'[0][s] = kv[0]
        /\ \A i \in Ranks \ {0} : snaps'[i] = snaps[i]
        /\ \A s2 \in Slots \ {s} : snaps'[0][s2] = snaps[0][s2]
    BY <1>1, <1>4, RankZero DEF TypeOK
  <2> QED BY <2>1, <2>2, <1>2, <1>4, SlotWritten
<1>5. CASE /\ chan' = Sent(<<Op(TRUE, s), Op(FALSE, s), Op(FALSE, s)>>)
           /\ UNCHANGED <<snaps, exiting, aborted>>
  <2>1. PICK f \in Seq(Frames) : /\ f = <<Op(TRUE, s), Op(FALSE, s), Op(FALSE, s)>>
                                 /\ \A x \in Range(f) : x.type = "Op" /\ x.slot = s
    BY <1>1, OpFrames
  <2>2. snaps' \in [Ranks -> [Slots -> Seq(Int)]]
    BY <1>1, <1>5 DEF TypeOK
  <2> QED BY <2>1, <2>2, <1>2, <1>5, SlotWritten
<1> QED BY <1>2, <1>3, <1>4, <1>5

LEMMA FreeSlotStep ==
  ASSUME ClusterInv, NEW s \in Slots, FreeSlot(s)
  PROVE  ClusterInv'
<1>1. TypeOK
  BY DEF ClusterInv
<1>2. /\ Up(0) /\ ~exiting /\ ~Busy /\ snaps' = [snaps EXCEPT ![0][s] = None]
      /\ UNCHANGED <<rank, kv, saveable, proc, entered, back, requests>>
      /\ \/ /\ exiting' = TRUE /\ aborted' = [aborted EXCEPT ![0] = TRUE]
            /\ chan' = Sent(<<Op(FALSE, s), [type |-> "Abort"]>>)
         \/ chan' = Sent(<<Op(FALSE, s)>>) /\ UNCHANGED <<exiting, aborted>>
  BY DEF FreeSlot, Busy
<1>3. /\ snaps' \in [Ranks -> [Slots -> Seq(Int)]] /\ snaps'[0][s] = None
      /\ \A i \in Ranks \ {0} : snaps'[i] = snaps[i]
      /\ \A s2 \in Slots \ {s} : snaps'[0][s2] = snaps[0][s2]
  <2>1. None \in Seq(Int)
    BY DEF None
  <2> QED BY <2>1, <1>1, <1>2, RankZero DEF TypeOK
<1>4. CASE /\ exiting' = TRUE /\ aborted' = [aborted EXCEPT ![0] = TRUE]
           /\ chan' = Sent(<<Op(FALSE, s), [type |-> "Abort"]>>)
  BY <1>2, <1>3, <1>4, OpLost
<1>5. CASE chan' = Sent(<<Op(FALSE, s)>>) /\ UNCHANGED <<exiting, aborted>>
  <2>1. PICK f \in Seq(Frames) : f = <<Op(FALSE, s)>> /\ \A x \in Range(f) : x.type = "Op" /\ x.slot = s
    BY <1>1, OpFrames
  <2> QED BY <2>1, <1>2, <1>3, <1>5, SlotWritten
<1> QED BY <1>2, <1>4, <1>5

(***************************************************************************)
(* The invariant, and the agreement.                                       *)
(***************************************************************************)

LEMMA InitOK == Init => ClusterInv
<1> SUFFICES ASSUME Init PROVE ClusterInv
  OBVIOUS
<1>1. Idle \in Generations /\ WellFormed(Idle) /\ Idle.pc = "idle" /\ Idle.tokens = <<>>
      /\ Idle.inside = FALSE /\ Idle.gathered = {} /\ Idle.req = 0
  BY ClusterAssumption DEF Idle, Generations, Places, SlotOrNone, WellFormed
<1>2. TypeOK
  <2>1. <<>> \in Seq(Int) /\ None \in Seq(Int) /\ <<>> \in Seq(Frames) /\ <<>> \in Seq(Reports)
    BY DEF None
  <2> QED BY <2>1, <1>1 DEF Init, TypeOK
<1>3. Lockstep
  BY RankZero DEF Init, Lockstep
<1>4. ASSUME NEW w \in Workers
      PROVE  /\ rank[w] = Idle /\ rank[0] = Idle /\ chan[w] = <<>> /\ back[w] = <<>>
             /\ kv[w] = <<>> /\ kv[0] = <<>> /\ \A s \in Slots : snaps[0][s] = None
  BY RankZero DEF Init
<1>5. ~Busy /\ \A w \in Workers : Range(chan[w]) = {} /\ Range(back[w]) = {}
  BY <1>1, <1>4, RankZero DEF Busy, Range, Init
<1>6. ASSUME NEW w \in Workers PROVE Agrees(w) /\ Known(w) /\ SnapsAgree(w)
  <2>1. 0 <= requests
    BY DEF Init
  <2> QED BY <2>1, <1>1, <1>4, <1>5 DEF Agrees, Known, SnapsAgree
<1>7. HeadServes
  BY <1>1, RankZero DEF Init, HeadServes
<1> QED BY <1>2, <1>3, <1>5, <1>6, <1>7 DEF ClusterInv

LEMMA HeadSteps ==
  ASSUME ClusterInv, HeadStep
  PROVE  ClusterInv'
<1>1. ASSUME NEW restore \in SlotOrNone, NEW snap \in SlotOrNone, NEW spec \in Modes,
             HeadStart(restore, snap, spec)
      PROVE  ClusterInv'
  BY <1>1, HeadStartStep
<1>2. CASE CancelPrefill
  BY <1>2, CancelPrefillStep
<1>3. ASSUME NEW t \in Tokens, HeadDecide(t) PROVE ClusterInv'
  BY <1>3, HeadDecideStep
<1>4. CASE HeadDraft
  BY <1>4, HeadDraftStep
<1>5. ASSUME NEW b \in KeptBlocks, HeadAccept(b) PROVE ClusterInv'
  BY <1>5, HeadAcceptStep
<1>6. CASE HeadEnd
  BY <1>6, HeadEndStep
<1>7. CASE HeadWatchdog
  BY <1>7, HeadWatchdogStep
<1>8. CASE HeadExit
  BY <1>8, HeadDiesStep
<1>9. CASE HeadShutdown
  BY <1>9, HeadShutdownStep
<1>10. ASSUME NEW w \in Workers, HeadGather(w) \/ HeadGatherFails(w) PROVE ClusterInv'
  BY <1>10, HeadGatherStep, HeadGatherFailsStep
<1>11. ASSUME NEW s \in Slots, SaveTurn(s) \/ FreeSlot(s) PROVE ClusterInv'
  BY <1>11, SaveTurnStep, FreeSlotStep
<1> QED BY <1>1, <1>2, <1>3, <1>4, <1>5, <1>6, <1>7, <1>8, <1>9, <1>10, <1>11 DEF HeadStep

LEMMA NextOK ==
  ASSUME ClusterInv, [Next]_vars
  PROVE  ClusterInv'
<1>1. CASE HeadStep
  BY <1>1, HeadSteps
<1>2. CASE ClientLeaves
  BY <1>2, ClientLeavesStep
<1>3. ASSUME NEW w \in Workers, WorkerStep(w) \/ HeartbeatOverdue(w) \/ HeartbeatHeard(w)
      PROVE  ClusterInv'
  BY <1>3, WorkerSteps, HeartbeatStep
<1>4. ASSUME NEW i \in Ranks, Compute(i) PROVE ClusterInv'
  <2>1. CASE i = 0
    BY <2>1, <1>4, HeadEnterForwardStep, HeadLeaveForwardStep, HeadFailsStep, HeadStartDecodeStep DEF Compute
  <2>2. CASE i \in Workers
    BY <2>2, <1>4, WorkerSteps
  <2> QED BY <2>1, <2>2 DEF Ranks
<1>5. ASSUME NEW i \in Ranks, Dies(i) PROVE ClusterInv'
  BY <1>5, HeadDiesStep, WorkerDiesStep DEF Ranks
<1>6. ASSUME NEW i \in Ranks, Freezes(i) PROVE ClusterInv'
  BY <1>6, FreezesStep
<1>7. CASE UNCHANGED vars
  <2>1. UNCHANGED <<rank, kv, saveable, snaps, proc, entered, aborted, chan, back, exiting, requests>>
    BY <1>7 DEF vars, data, links, counts
  <2>2. HeadKept /\ (\A w \in Workers : Kept(w)) /\ (Serving' => Serving)
    BY <2>1 DEF HeadKept, Kept, Serving
  <2>3. TypeOK'
    BY <2>1 DEF ClusterInv, TypeOK
  <2> QED BY <2>1, <2>2, <2>3, NobodyMoves
<1> QED BY <1>1, <1>2, <1>3, <1>4, <1>5, <1>6, <1>7 DEF Next

(* Every rank follows the head through its request, whichever of them      *)
(* fail, die, freeze or are late, until the head gives up: the collectives *)
(* stay in lockstep, and frames, answers, caches, snapshots and reports    *)
(* fit (ClusterInv).                                                       *)
THEOREM ClusterInvariant == Spec => []ClusterInv
<1>1. Init => ClusterInv
  BY InitOK
<1>2. ClusterInv /\ [Next]_vars => ClusterInv'
  BY NextOK
<1> QED BY <1>1, <1>2, PTL DEF Spec

(* A request that the head answers with success has left every rank with   *)
(* the same tokens and the same history in its cache.                      *)
THEOREM ReplicasAgreed == Spec => []ReplicasAgree
<1>1. ClusterInv => ReplicasAgree
  BY DEF ClusterInv, Agrees, Busy, ReplicasAgree
<1> QED BY <1>1, ClusterInvariant, PTL

-----------------------------------------------------------------------------
(* Every rank ends as the head does.  Frames as a script first.            *)

(* A script without frames. *)
LEMMA LeadEmpty ==
  ASSUME NEW a, NEW b, NEW spec
  PROVE  Lead(a, <<>>, spec, b) <=> a = b
BY DEF Lead

(* One frame more. *)
LEMMA LeadAppend ==
  ASSUME NEW f \in Seq(Frames), NEW m \in Frames, NEW a, NEW b, NEW spec,
         Lead(a, f, spec, b), Takes(m) = b
  PROVE  Lead(a, f \o <<m>>, spec, LeadsTo(m, spec))
<1>1. f \o <<m>> \in Seq(Frames) /\ Len(f \o <<m>>) = Len(f) + 1 /\ Len(f) \in Nat
      /\ (f \o <<m>>)[Len(f) + 1] = m /\ \A k \in 1..Len(f) : (f \o <<m>>)[k] = f[k]
  OBVIOUS
<1> DEFINE g == f \o <<m>>
<1> HIDE DEF g
<1>2. ASSUME NEW k \in 0..Len(g)
      PROVE  (IF k = 0 THEN a ELSE LeadsTo(g[k], spec))
               = (IF k = Len(g) THEN LeadsTo(m, spec) ELSE Takes(g[k + 1]))
  <2>1. CASE k = Len(g)
    BY <1>1, <2>1 DEF g
  <2>2. CASE k = Len(f)
    <3>1. (IF k = 0 THEN a ELSE LeadsTo(f[k], spec)) = b
      BY <1>1, <2>2 DEF Lead
    <3>2. k # 0 => g[k] = f[k]
      BY <1>1, <2>2 DEF g
    <3> QED  BY <1>1, <2>2, <3>1, <3>2 DEF g
  <2>3. CASE k < Len(f)
    <3>1. (IF k = 0 THEN a ELSE LeadsTo(f[k], spec)) = Takes(f[k + 1])
      BY <1>1, <2>3 DEF Lead
    <3>2. (k # 0 => g[k] = f[k]) /\ g[k + 1] = f[k + 1]
      BY <1>1, <2>3 DEF g
    <3> QED  BY <1>1, <2>3, <3>1, <3>2 DEF g
  <2> QED  BY <1>1, <2>1, <2>2, <2>3 DEF g
<1> QED  BY <1>2 DEF Lead, g

(* The first frame read. *)
LEMMA LeadTail ==
  ASSUME NEW f \in Seq(Frames), f # <<>>, NEW a, NEW b, NEW spec, Lead(a, f, spec, b)
  PROVE  Takes(Head(f)) = a /\ Lead(LeadsTo(Head(f), spec), Tail(f), spec, b)
<1>1. Len(f) \in Nat \ {0} /\ Len(Tail(f)) = Len(f) - 1 /\ Head(f) = f[1]
      /\ \A k \in 1..Len(f) - 1 : Tail(f)[k] = f[k + 1]
  OBVIOUS
<1>2. Takes(Head(f)) = a
  <2>1. 0 \in 0..Len(f) /\ 0 # Len(f) /\ 0 + 1 = 1
    BY <1>1
  <2>2. (IF 0 = 0 THEN a ELSE LeadsTo(f[0], spec)) = (IF 0 = Len(f) THEN b ELSE Takes(f[0 + 1]))
    BY <2>1 DEF Lead
  <2> QED  BY <1>1, <2>1, <2>2
<1> DEFINE g == Tail(f)
<1> HIDE DEF g
<1>3. ASSUME NEW k \in 0..Len(g)
      PROVE  (IF k = 0 THEN LeadsTo(Head(f), spec) ELSE LeadsTo(g[k], spec))
               = (IF k = Len(g) THEN b ELSE Takes(g[k + 1]))
  <2>1. k + 1 \in 0..Len(f) /\ k + 1 # 0 /\ (k + 1 = Len(f) <=> k = Len(g)) /\ Len(g) = Len(f) - 1
        /\ k \in Nat /\ k <= Len(g) /\ Len(f) \in Nat
    BY <1>1 DEF g
  <2>2. LeadsTo(f[k + 1], spec) = (IF k + 1 = Len(f) THEN b ELSE Takes(f[(k + 1) + 1]))
    BY <2>1 DEF Lead
  <2>3. k # 0 => g[k] = f[k + 1]
    BY <1>1, <2>1 DEF g
  <2>4. k # Len(g) => k + 1 \in 1..Len(f) - 1
    <3>1. PICK l \in Nat : l = Len(g) /\ l = Len(f) - 1
      BY <2>1
    <3>2. k # l => k + 1 \in 1..l
      BY <2>1, <3>1
    <3> QED  BY <3>1, <3>2
  <2>5. k # Len(g) => g[k + 1] = f[(k + 1) + 1]
    BY <1>1, <2>4, Zenon DEF g
  <2>6. CASE k = 0
    BY <1>1, <2>1, <2>2, <2>5, <2>6
  <2>7. CASE k # 0
    BY <2>1, <2>2, <2>3, <2>5, <2>7
  <2> QED  BY <2>6, <2>7
<1> QED  BY <1>2, <1>3 DEF Lead, g

(* Operations on snapshots read alike in either mode. *)
LEMMA LeadOps ==
  ASSUME NEW f \in Seq(Frames), \A m \in Range(f) : m.type = "Op", NEW a, NEW b, NEW spec, NEW spec2,
         Lead(a, f, spec, b)
  PROVE  Lead(a, f, spec2, b)
<1>1. \A k \in 1..Len(f) : f[k].type = "Op"
  BY DEF Range
<1>2. \A k \in 1..Len(f) : LeadsTo(f[k], spec) = LeadsTo(f[k], spec2)
  BY <1>1 DEF LeadsTo
<1> QED  BY <1>2 DEF Lead

(* One frame more, or the first one read, about a slot. *)
LEMMA WillHaveAppend ==
  ASSUME NEW f \in Seq(Frames), NEW m \in Frames, NEW used, NEW s, NEW there,
         OpOn(m, s) \/ WillHave(f, used, s, there)
  PROVE  WillHave(f \o <<m>>, used, s, IF OpOn(m, s) THEN m.save ELSE there)
<1> DEFINE g == f \o <<m>>
<1>1. DOMAIN g = 1..Len(f) + 1 /\ Len(f) \in Nat /\ DOMAIN f = 1..Len(f)
      /\ g[Len(f) + 1] = m /\ \A k \in 1..Len(f) : g[k] = f[k]
  OBVIOUS
<1> HIDE DEF g
<1>2. CASE OpOn(m, s)
  <2>1. Len(f) + 1 \in DOMAIN g /\ OpOn(g[Len(f) + 1], s) /\ g[Len(f) + 1].save = m.save
        /\ \A l \in DOMAIN g : ~(Len(f) + 1 < l)
    BY <1>1, <1>2
  <2> QED  BY <1>2, <2>1 DEF WillHave, g
<1>3. CASE ~OpOn(m, s)
  <2>1. CASE \A k \in DOMAIN f : ~OpOn(f[k], s)
    <3>1. \A k \in DOMAIN g : ~OpOn(g[k], s)
      BY <1>1, <1>3, <2>1
    <3>2. used = there
      BY <1>3, <2>1 DEF WillHave
    <3> QED  BY <1>3, <3>1, <3>2 DEF WillHave, g
  <2>2. CASE ~\A k \in DOMAIN f : ~OpOn(f[k], s)
    <3>1. PICK k \in DOMAIN f : OpOn(f[k], s) /\ f[k].save = there /\ \A l \in DOMAIN f : k < l => ~OpOn(f[l], s)
      BY <1>3, <2>2 DEF WillHave
    <3>2. k \in DOMAIN g /\ OpOn(g[k], s) /\ g[k].save = there /\ \A l \in DOMAIN g : k < l => ~OpOn(g[l], s)
      BY <1>1, <1>3, <3>1
    <3> QED  BY <1>3, <3>2 DEF WillHave, g
  <2> QED  BY <2>1, <2>2
<1> QED  BY <1>2, <1>3

LEMMA WillHaveTail ==
  ASSUME NEW f \in Seq(Frames), f # <<>>, NEW used, NEW s, NEW there, WillHave(f, used, s, there)
  PROVE  WillHave(Tail(f), IF OpOn(Head(f), s) THEN Head(f).save ELSE used, s, there)
<1> DEFINE g == Tail(f)
<1>1. DOMAIN g = 1..Len(f) - 1 /\ Len(f) \in Nat \ {0} /\ DOMAIN f = 1..Len(f)
      /\ Head(f) = f[1] /\ \A k \in 1..Len(f) - 1 : g[k] = f[k + 1]
  OBVIOUS
<1> HIDE DEF g
<1>2. CASE \A k \in DOMAIN f : ~OpOn(f[k], s)
  <2>1. (\A k \in DOMAIN g : ~OpOn(g[k], s)) /\ ~OpOn(Head(f), s)
    BY <1>1, <1>2
  <2>2. used = there
    BY <1>2 DEF WillHave
  <2> QED  BY <2>1, <2>2 DEF WillHave, g
<1>3. CASE ~\A k \in DOMAIN f : ~OpOn(f[k], s)
  <2>1. PICK k \in DOMAIN f : OpOn(f[k], s) /\ f[k].save = there /\ \A l \in DOMAIN f : k < l => ~OpOn(f[l], s)
    BY <1>3 DEF WillHave
  <2>2. CASE k = 1
    <3>1. \A l \in DOMAIN g : ~OpOn(g[l], s)
      BY <1>1, <2>1, <2>2
    <3> QED  BY <1>1, <2>1, <2>2, <3>1 DEF WillHave, g
  <2>3. CASE k # 1
    <3>1. k - 1 \in DOMAIN g /\ OpOn(g[k - 1], s) /\ g[k - 1].save = there
          /\ \A l \in DOMAIN g : k - 1 < l => ~OpOn(g[l], s)
      BY <1>1, <2>1, <2>3
    <3> QED  BY <3>1 DEF WillHave, g
  <2> QED  BY <2>2, <2>3
<1> QED  BY <1>2, <1>3

-----------------------------------------------------------------------------
(* What order says of the moment. *)
LEMMA Orderly ==
  ASSUME ClusterInv, InOrder
  PROVE  /\ TypeOK /\ Lockstep /\ Serving /\ HeadServes
         /\ \A w \in Workers : ~closed(w) /\ alive(w) /\ Known(w)
         /\ all_alive /\ SendResults = {TRUE} /\ \A i \in Ranks : ~async_error(i)
         /\ \A i \in Ranks : Up(i) /\ ~aborted[i] /\ (~rank[i].inside => entered[i] = 0)
         /\ Busy => Together
         /\ ~Busy => \A w \in Workers : Agrees(w)
<1>1. \A i \in Ranks : Up(i) /\ ~aborted[i]
  BY DEF InOrder, Ordinary
<1>2. \A w \in Workers : fresh[w]
  BY DEF InOrder, InStride
<1>3. Serving
  BY <1>1, RankZero DEF Serving, InOrder, Up
<1>4. \A w \in Workers : ~closed(w) /\ alive(w)
  BY <1>1, <1>2, RankZero DEF closed, alive, Up
<1>5. all_alive /\ SendResults = {TRUE}
  BY <1>4 DEF all_alive, SendResults
<1>6. \A i \in Ranks : ~async_error(i)
  BY <1>1 DEF async_error, Up
<1>7. TypeOK /\ Lockstep
  BY DEF ClusterInv
<1>8. HeadServes /\ (\A w \in Workers : Known(w)) /\ (Busy => Together)
  BY <1>3 DEF ClusterInv
<1>9. ~Busy => \A w \in Workers : Agrees(w)
  BY DEF ClusterInv, InOrder
<1>10. \A i \in Ranks : ~rank[i].inside => entered[i] = 0
  BY <1>1, <1>7 DEF Lockstep
<1> QED  BY <1>1, <1>3, <1>4, <1>5, <1>6, <1>7, <1>8, <1>9, <1>10

(* A worker that is about to read the end of its request. *)
LEMMA OrderEndsAlike ==
  ASSUME ClusterInv, InOrder, NEW w \in Workers, rank[w].pc = "end", Reads(w)
  PROVE  /\ Head(chan[w]).type = "RequestEnd" /\ Head(chan[w]).ok /\ rank[w].ok
         /\ rank[w].req = Head(chan[w]).req /\ Len(rank[w].tokens) = Head(chan[w]).steps
<1>1. TypeOK /\ (Busy => Together) /\ (~Busy => \A v \in Workers : Agrees(v))
  BY Orderly
<1>2. chan[w] \in Seq(Frames) /\ chan[w] # <<>>
  BY <1>1 DEF TypeOK, Reads
<1>3. Head(chan[w]) \in Range(chan[w]) /\ Head(chan[w]) \in Frames
  BY <1>2, TailProps
<1>4. Takes(Head(chan[w])) = Due(rank[w])
  BY <1>2, LeadTail DEF InOrder, InStride, Script
<1>5. Due(rank[w]) = <<"RequestEnd", Len(rank[w].tokens)>>
  BY DEF Due
<1>6. Head(chan[w]).type = "RequestEnd" /\ Len(rank[w].tokens) = Head(chan[w]).steps
  BY <1>4, <1>5 DEF Takes
<1>7. rank[w].req = requests
  BY <1>1 DEF Agrees, Together, Follows, Copies, Runs
<1>8. Head(chan[w]).ok /\ Head(chan[w]).req = requests
  BY <1>3, <1>6 DEF InOrder, InStride, Current
<1>9. rank[w].ok
  BY RankZero DEF InOrder, Ordinary, Normal
<1> QED  BY <1>6, <1>7, <1>8, <1>9

LEMMA EndingImplies ==
  ASSUME ClusterInv, EndingInv
  PROVE  SameEnding
<1> SUFFICES ASSUME faults = 0, ~StoppedAlone, NEW w \in Workers, rank[w].pc = "end", Reads(w)
             PROVE  /\ Head(chan[w]).type = "RequestEnd" /\ rank[w].ok = Head(chan[w]).ok
                    /\ rank[w].req = Head(chan[w]).req /\ Len(rank[w].tokens) = Head(chan[w]).steps
  BY DEF SameEnding
<1>1. ~Done(w)
  BY DEF Done, Reads, Up
<1>2. ~Alone
  BY DEF Alone
<1>3. InOrder
  BY <1>1, <1>2 DEF EndingInv
<1>4. Head(chan[w]).ok = TRUE /\ rank[w].ok = TRUE
  <2>1. rank[w].ok \in BOOLEAN
    BY RankZero, RankTypes, Orderly, <1>3
  <2>2. Head(chan[w]) \in Frames
    BY Orderly, <1>3, TailProps DEF TypeOK, Reads
  <2>3. Head(chan[w]).ok \in BOOLEAN
    BY <2>2, <1>3, OrderEndsAlike, FrameKinds DEF Ends
  <2> QED  BY <1>3, <2>1, <2>3, OrderEndsAlike
<1> QED  BY <1>3, <1>4, OrderEndsAlike

-----------------------------------------------------------------------------
(* What a step leaves alone.                                               *)

(* A worker's step is its own. *)
LEMMA WorkerLeaves ==
  ASSUME TypeOK, NEW v \in Workers, WorkerStep(v) \/ Compute(v), NEW j \in Ranks \ {v}
  PROVE  /\ rank'[j] = rank[j] /\ kv'[j] = kv[j] /\ saveable'[j] = saveable[j] /\ snaps'[j] = snaps[j]
         /\ proc'[j] = proc[j] /\ aborted'[j] = aborted[j]
         /\ j \in Workers => chan'[j] = chan[j] /\ back'[j] = back[j]
         /\ UNCHANGED <<fresh, exiting, cancelled, counts>>
<1>1. j # v /\ v \in Ranks /\ 0 # v
  BY RankZero
<1>2. CASE WorkerStart(v)
  BY <1>1, <1>2 DEF WorkerStart, Begin, Consumes, TypeOK, counts
<1>3. CASE WorkerOp(v)
  BY <1>1, <1>3 DEF WorkerOp, WorkerAborts, WorkerGone, Consumes, TypeOK, counts
<1>4. CASE WorkerOther(v)
  BY <1>1, <1>4 DEF WorkerOther, WorkerAborts, WorkerQuits, WorkerGone, Consumes, TypeOK, counts, data
<1>5. CASE WorkerFollows(v)
  BY <1>1, <1>5 DEF WorkerFollows, Failed, Adopt, Consumes, TypeOK, counts
<1>6. CASE WorkerMisses(v)
  BY <1>1, <1>6 DEF WorkerMisses, Failed, TypeOK, counts, data, links
<1>7. CASE WorkerEnd(v)
  BY <1>1, <1>7 DEF WorkerEnd, WorkerAborts, WorkerQuits, WorkerGone, Consumes, TypeOK, counts, data
<1>8. CASE WorkerEndMissing(v)
  BY <1>1, <1>8 DEF WorkerEndMissing, WorkerAborts, WorkerGone, TypeOK, counts, data
<1>9. CASE WorkerAlone(v)
  BY <1>1, <1>9 DEF WorkerAlone, WorkerGone, TypeOK, counts, data
<1>10. CASE WorkerWatchdog(v)
  BY <1>1, <1>10 DEF WorkerWatchdog, TypeOK, counts, data, links
<1>11. CASE EnterForward(v)
  BY <1>1, <1>11 DEF EnterForward, Failed, TypeOK, counts, data, links
<1>12. CASE LeaveForward(v)
  BY <1>1, <1>12 DEF LeaveForward, TypeOK, counts, links
<1>13. CASE BreakForward(v) \/ LocalFailure(v)
  BY <1>1, <1>13 DEF BreakForward, LocalFailure, Failed, TypeOK, counts, data, links
<1>14. CASE StartDecode(v)
  BY <1>1, <1>14 DEF StartDecode, TypeOK, counts, data, links
<1> QED  BY <1>2, <1>3, <1>4, <1>5, <1>6, <1>7, <1>8, <1>9, <1>10, <1>11, <1>12, <1>13, <1>14
            DEF WorkerStep, Compute

(* A step of the head: to a worker it is frames, if anything. *)
LEMMA HeadLeaves ==
  ASSUME TypeOK, HeadStep \/ Compute(0), ~HeadExit, NEW w \in Workers
  PROVE  /\ rank'[w] = rank[w] /\ kv'[w] = kv[w] /\ saveable'[w] = saveable[w] /\ snaps'[w] = snaps[w]
         /\ proc'[w] = proc[w] /\ aborted'[w] = aborted[w] /\ Up(0)
         /\ \E f \in Seq(Frames) : chan'[w] = chan[w] \/ chan'[w] = chan[w] \o f
<1>1. w # 0 /\ w \in Ranks /\ 0 \in Ranks /\ requests \in Nat
  BY RankZero DEF TypeOK
<1>2. ASSUME NEW f \in Seq(Frames), chan' = Sent(f) PROVE chan'[w] = chan[w] \/ chan'[w] = chan[w] \o f
  BY <1>2, SentFrames
<1>3. \A x \in Frames : <<x>> \in Seq(Frames) /\ <<x, [type |-> "Abort"]>> \in Seq(Frames)
  BY FrameTypes, SmallSeqs
<1>4. FatalExit => /\ aborted'[w] = aborted[w]
                   /\ \E f \in Seq(Frames) : chan'[w] = chan[w] \/ chan'[w] = chan[w] \o f
  <2>1. <<[type |-> "Abort"]>> \in Seq(Frames)
    BY <1>3, FrameTypes
  <2>2. \E f \in Seq(Frames) : TRUE
    BY SmallSeqs
  <2> QED  BY <1>1, <1>2, <2>1, <2>2 DEF FatalExit, TypeOK
<1>5. \E f \in Seq(Frames) : f = <<>>
  BY SmallSeqs
<1>6. ASSUME NEW restore \in SlotOrNone, NEW snap \in SlotOrNone, NEW spec \in Modes, HeadStart(restore, snap, spec)
      PROVE  /\ rank'[w] = rank[w] /\ kv'[w] = kv[w] /\ saveable'[w] = saveable[w] /\ snaps'[w] = snaps[w]
             /\ proc'[w] = proc[w] /\ aborted'[w] = aborted[w] /\ Up(0)
             /\ \E f \in Seq(Frames) : chan'[w] = chan[w] \/ chan'[w] = chan[w] \o f
  <2> DEFINE m == [type |-> "Request", req |-> requests + 1, restore |-> restore, snap |-> snap, spec |-> spec]
  <2>1. m \in Frames
    BY <1>1, ClusterAssumption DEF Frames, Starts
  <2>2. /\ chan' = Sent(<<m>>) \/ chan' = Sent(<<m, [type |-> "Abort"]>>)
        /\ aborted' = aborted \/ aborted' = [aborted EXCEPT ![0] = TRUE]
        /\ UNCHANGED <<snaps, proc>> /\ Up(0)
        /\ Begin(0, m) \/ (rank' = [rank EXCEPT ![0] = [Idle EXCEPT !.req = m.req, !.ok = FALSE]]
                           /\ UNCHANGED <<kv, saveable>>)
    BY <1>6 DEF HeadStart
  <2>3. rank'[w] = rank[w] /\ kv'[w] = kv[w] /\ saveable'[w] = saveable[w]
    BY <1>1, <2>2 DEF Begin, TypeOK
  <2> HIDE DEF m
  <2>4. \E f \in Seq(Frames) : chan'[w] = chan[w] \/ chan'[w] = chan[w] \o f
    BY <1>2, <1>3, <2>1, <2>2
  <2>5. aborted'[w] = aborted[w]
    BY <1>1, <2>2 DEF TypeOK
  <2> QED  BY <2>2, <2>3, <2>4, <2>5
<1>7. CASE CancelPrefill
  BY <1>1, <1>5, <1>7 DEF CancelPrefill, TypeOK, data, links
<1>8. ASSUME NEW t \in Tokens, HeadDecide(t)
      PROVE  /\ rank'[w] = rank[w] /\ kv'[w] = kv[w] /\ saveable'[w] = saveable[w] /\ UNCHANGED <<snaps, proc, aborted>>
             /\ Up(0) /\ \E f \in Seq(Frames) : chan' = Sent(f)
  <2>1. HeadFrame("Decision", <<t>>, t = Eos \/ cancelled) \in Frames
    BY FrameTypes
  <2>2. \E f \in Seq(Frames) : chan' = Sent(f)
    BY <1>3, <1>8, <2>1 DEF HeadDecide
  <2> QED  BY <1>1, <1>8, <2>2 DEF HeadDecide, Adopt, Failed, TypeOK
<1>9. CASE HeadDraft
  <2>1. \E f \in Seq(Frames) : chan' = Sent(f)
    BY <1>3, <1>9, FrameTypes DEF HeadDraft
  <2>2. /\ rank'[w] = rank[w] /\ kv'[w] = kv[w] /\ saveable'[w] = saveable[w]
        /\ UNCHANGED <<snaps, proc, aborted>> /\ Up(0)
    BY <1>1, <1>9 DEF HeadDraft, Failed, TypeOK, data
  <2> QED  BY <1>2, <2>1, <2>2
<1>10. ASSUME NEW b \in KeptBlocks, HeadAccept(b)
       PROVE  /\ rank'[w] = rank[w] /\ kv'[w] = kv[w] /\ saveable'[w] = saveable[w] /\ UNCHANGED <<snaps, proc, aborted>>
              /\ Up(0) /\ \E f \in Seq(Frames) : chan' = Sent(f)
  <2>1. HeadFrame("Accept", b, Last(b) = Eos) \in Frames /\ EndMarker(b) \in Frames
    BY FrameTypes
  <2>2. chan' = Sent(<<HeadFrame("Accept", b, Last(b) = Eos)>>)
        \/ chan' = Sent(<<HeadFrame("Accept", b, Last(b) = Eos), EndMarker(b)>>)
    BY <1>10 DEF HeadAccept
  <2>3. \E f \in Seq(Frames) : chan' = Sent(f)
    BY <2>1, <2>2, SmallSeqs
  <2> QED  BY <1>1, <1>10, <2>3 DEF HeadAccept, Adopt, Failed, TypeOK
<1>11. CASE HeadEnd
  <2> DEFINE end == [type |-> "RequestEnd", req |-> rank[0].req, ok |-> rank[0].ok, steps |-> Len(rank[0].tokens)]
  <2>1. end \in Frames
    BY FrameTypes
  <2>2. /\ \/ FatalExit
           \/ /\ chan' = Sent(<<end>>) \/ chan' = Sent(<<end, [type |-> "Abort"]>>)
              /\ aborted' = aborted \/ aborted' = [aborted EXCEPT ![0] = TRUE]
        /\ UNCHANGED <<kv, saveable, snaps, proc>> /\ Up(0)
        /\ Return(FALSE) \/ rank' = [rank EXCEPT ![0].pc = "gather", ![0].gathered = {}]
    BY <1>11 DEF HeadEnd, data
  <2>3. rank'[w] = rank[w]
    BY <1>1, <2>2 DEF Return, TypeOK
  <2> HIDE DEF end
  <2>4. aborted'[w] = aborted[w] /\ \E f \in Seq(Frames) : chan'[w] = chan[w] \/ chan'[w] = chan[w] \o f
    BY <1>1, <1>2, <1>3, <1>4, <2>1, <2>2 DEF TypeOK
  <2> QED  BY <2>2, <2>3, <2>4
<1>12. CASE HeadWatchdog
  BY <1>4, <1>12 DEF HeadWatchdog, data
<1>13. CASE HeadShutdown
  <2>1. <<[type |-> "Shutdown"]>> \in Seq(Frames)
    BY <1>3, FrameTypes
  <2>2. proc'[w] = proc[w]
    BY <1>1, <1>13 DEF HeadShutdown, TypeOK
  <2> QED  BY <1>2, <1>13, <2>1, <2>2 DEF HeadShutdown, data
<1>14. ASSUME NEW v \in Workers, HeadGather(v) \/ HeadGatherFails(v)
       PROVE  /\ rank'[w] = rank[w] /\ UNCHANGED <<kv, saveable, snaps, proc>> /\ Up(0)
              /\ FatalExit \/ UNCHANGED <<aborted, chan>>
  BY <1>1, <1>14 DEF HeadGather, HeadGatherFails, Return, TypeOK, data
<1>15. ASSUME NEW s \in Slots, SaveTurn(s) \/ FreeSlot(s)
       PROVE  /\ UNCHANGED <<rank, kv, saveable, proc>> /\ snaps'[w] = snaps[w] /\ Up(0)
              /\ aborted' = aborted \/ aborted' = [aborted EXCEPT ![0] = TRUE]
              /\ \E f \in Seq(Frames) : chan' = Sent(f)
  <2>1. \/ chan' = Sent(<<Op(TRUE, s)>>) \/ chan' = Sent(<<Op(FALSE, s)>>)
        \/ chan' = Sent(<<Op(TRUE, s), Op(FALSE, s), Op(FALSE, s)>>)
        \/ chan' = Sent(<<Op(TRUE, s), [type |-> "Abort"]>>)
        \/ chan' = Sent(<<Op(FALSE, s), [type |-> "Abort"]>>)
    BY <1>15 DEF SaveTurn, FreeSlot
  <2>2. \E f \in Seq(Frames) : chan' = Sent(f)
    BY <2>1, OpFrames
  <2> QED  BY <1>1, <1>15, <2>2 DEF SaveTurn, FreeSlot, TypeOK
<1>16. CASE EnterForward(0)
  BY <1>1, <1>5, <1>16 DEF EnterForward, Failed, TypeOK, data, links
<1>17. CASE LeaveForward(0)
  BY <1>1, <1>5, <1>17 DEF LeaveForward, TypeOK, links
<1>18. CASE BreakForward(0) \/ LocalFailure(0) \/ StartDecode(0)
  BY <1>1, <1>5, <1>18 DEF BreakForward, LocalFailure, StartDecode, Failed, TypeOK, data, links
<1>19. ASSUME NEW v \in Workers, HeadGather(v) \/ HeadGatherFails(v)
       PROVE  aborted'[w] = aborted[w] /\ \E f \in Seq(Frames) : chan'[w] = chan[w] \/ chan'[w] = chan[w] \o f
  BY <1>4, <1>5, <1>14, <1>19
<1>20. ASSUME NEW s \in Slots, SaveTurn(s) \/ FreeSlot(s)
       PROVE  aborted'[w] = aborted[w] /\ \E f \in Seq(Frames) : chan'[w] = chan[w] \/ chan'[w] = chan[w] \o f
  BY <1>1, <1>2, <1>15, <1>20 DEF TypeOK
<1>21. CASE Compute(0)
  BY <1>16, <1>17, <1>18, <1>21 DEF Compute
<1> HIDE <1>3, <1>4, <1>5
<1>22. CASE HeadStep
  <2>1. CASE \E t \in Tokens : HeadDecide(t)
    BY <1>2, <1>8, <2>1
  <2>2. CASE \E b \in KeptBlocks : HeadAccept(b)
    BY <1>2, <1>10, <2>2
  <2>3. CASE \E v \in Workers : HeadGather(v) \/ HeadGatherFails(v)
    BY <1>14, <1>19, <2>3
  <2>4. CASE \E s \in Slots : SaveTurn(s) \/ FreeSlot(s)
    BY <1>15, <1>20, <2>4
  <2>5. CASE \E restore, snap \in SlotOrNone, spec \in Modes : HeadStart(restore, snap, spec)
    BY <1>6, <2>5
  <2> QED  BY <1>7, <1>9, <1>11, <1>12, <1>13, <1>22, <2>1, <2>2, <2>3, <2>4, <2>5 DEF HeadStep
<1> QED  BY <1>21, <1>22

-----------------------------------------------------------------------------
(* A worker that is done begins no other request, whatever happens.        *)

LEMMA DoneGrows ==
  ASSUME TypeOK, NEW w \in Workers, Done(w), proc[0] # "exited", proc'[w] = proc[w], rank'[w] = rank[w],
         saveable'[w] = saveable[w], NEW f \in Seq(Frames), chan'[w] = chan[w] \/ chan'[w] = chan[w] \o f
  PROVE  Done(w)'
<1>1. CASE proc[w] = "exited"
  BY <1>1 DEF Done
<1>2. CASE proc[w] # "exited"
  <2>1. PICK k \in DOMAIN chan[w] : /\ chan[w][k].type = "Op" /\ chan[w][k].save
                                    /\ \A l \in 1..k : chan[w][l].type # "Request"
    BY <1>2 DEF Done
  <2>2. \A l \in 1..k : l \in DOMAIN chan[w]
    BY DEF TypeOK
  <2>3. \A l \in DOMAIN chan[w] : l \in DOMAIN chan'[w] /\ chan'[w][l] = chan[w][l]
    BY MoreFrames
  <2>4. rank'[w].pc = "idle" /\ ~saveable'[w]
    BY <1>2 DEF Done
  <2> QED  BY <2>1, <2>2, <2>3, <2>4 DEF Done
<1> QED  BY <1>1, <1>2

LEMMA DoneCut ==
  ASSUME TypeOK, NEW w \in Workers, Done(w), proc'[0] = "exited", proc[w] = "exited" => proc'[w] = "exited",
         rank'[w] = rank[w], saveable'[w] = saveable[w], NEW n \in Nat, chan'[w] = CutTo(chan[w], n)
  PROVE  Done(w)'
<1>1. CASE proc[w] = "exited"
  BY <1>1 DEF Done
<1>2. CASE proc[w] # "exited"
  <2> DEFINE q == chan[w]
             c == CutTo(q, n)
  <2>1. /\ q \in Seq(Frames) /\ c \in Seq(Frames) /\ chan'[w] = c
        /\ DOMAIN c = 1..Len(c) /\ DOMAIN q = 1..Len(q) /\ Len(c) \in Nat
        /\ \A k \in 1..Len(c) : k \in DOMAIN q /\ c[k] = q[k]
    BY CutProps DEF TypeOK
  <2> HIDE DEF c, q
  <2>2. rank'[w].pc = "idle"
    BY <1>2 DEF Done
  <2>3. CASE \A k \in DOMAIN q : q[k].type # "Request"
    <3>1. \A k \in DOMAIN chan'[w] : chan'[w][k].type # "Request"
      BY <2>1, <2>3
    <3> QED  BY <2>2, <3>1 DEF Done
  <2>4. CASE ~\A k \in DOMAIN q : q[k].type # "Request"
    <3>1. PICK k \in DOMAIN q : q[k].type = "Op" /\ q[k].save /\ \A l \in 1..k : q[l].type # "Request"
      BY <1>2, <2>4 DEF Done, q
    <3>2. ~saveable'[w]
      BY <1>2, <2>4 DEF Done, q
    <3>3. CASE k <= Len(c)
      <4>1. k \in DOMAIN c /\ c[k] = q[k] /\ \A l \in 1..k : c[l] = q[l]
        BY <2>1, <3>1, <3>3
      <4> QED  BY <2>1, <2>2, <3>1, <3>2, <4>1 DEF Done
    <3>4. CASE ~(k <= Len(c))
      <4>1. \A l \in DOMAIN c : l \in 1..k /\ c[l] = q[l]
        BY <2>1, <3>1, <3>4
      <4> QED  BY <2>1, <2>2, <3>1, <4>1 DEF Done
    <3> QED  BY <3>3, <3>4
  <2> QED  BY <2>3, <2>4
<1> QED  BY <1>1, <1>2

LEMMA DoneReads ==
  ASSUME TypeOK, NEW w \in Workers, Done(w), Up(w), chan[w] # <<>>, Consumes(w),
         Head(chan[w]).type = "Op" /\ Head(chan[w]).save => saveable[w],
         UNCHANGED <<rank, saveable, proc>>
  PROVE  Done(w)'
<1> DEFINE q == chan[w]
           t == Tail(q)
<1>1. /\ q \in Seq(Frames) /\ chan'[w] = t /\ t \in Seq(Frames)
      /\ DOMAIN q = 1..Len(q) /\ DOMAIN t = 1..Len(q) - 1 /\ Len(q) \in Nat
      /\ \A k \in 1..Len(q) - 1 : t[k] = q[k + 1]
      /\ Head(q) = q[1]
  BY ConsumesProps DEF TypeOK
<1>2. rank[w].pc = "idle" /\ proc[w] # "exited"
  BY DEF Done, Up
<1> HIDE DEF q, t
<1>3. CASE proc[0] = "exited" /\ \A k \in DOMAIN q : q[k].type # "Request"
  <2>1. \A k \in DOMAIN t : t[k].type # "Request"
    BY <1>1, <1>3
  <2> QED  BY <1>1, <1>2, <1>3, <2>1 DEF Done
<1>4. CASE ~saveable[w] /\ \E k \in DOMAIN q : q[k].type = "Op" /\ q[k].save /\ \A l \in 1..k : q[l].type # "Request"
  <2>1. PICK k \in DOMAIN q : q[k].type = "Op" /\ q[k].save /\ \A l \in 1..k : q[l].type # "Request"
    BY <1>4
  <2>2. k # 1
    BY <1>1, <1>4, <2>1 DEF q
  <2>3. k - 1 \in DOMAIN t /\ t[k - 1] = q[k] /\ \A l \in 1..k - 1 : t[l] = q[l + 1] /\ l + 1 \in 1..k
    BY <1>1, <2>1, <2>2
  <2> QED  BY <1>1, <1>2, <1>4, <2>1, <2>3 DEF Done
<1> QED  BY <1>2, <1>3, <1>4 DEF Done, q

LEMMA DoneStep ==
  ASSUME ClusterInv, [Next]_vars, NEW w \in Workers, Done(w)
  PROVE  Done(w)'
<1>1. TypeOK /\ w \in Ranks /\ w # 0
  BY RankZero DEF ClusterInv
<1>2. CASE HeadExit \/ Dies(0)
  <2>1. HeadGone(TRUE) /\ UNCHANGED <<rank, saveable>>
    BY <1>2 DEF HeadExit, Dies, data
  <2>2. PICK n \in [Workers -> 0..3] : chan' = [v \in Workers |-> CutTo(chan[v], n[v])]
    BY <2>1 DEF HeadGone
  <2>3. n[w] \in Nat /\ chan'[w] = CutTo(chan[w], n[w])
    BY <2>2
  <2>4. proc'[0] = "exited" /\ proc'[w] = proc[w]
    BY <1>1, <2>1, RankZero DEF HeadGone, TypeOK
  <2> QED  BY <1>1, <2>1, <2>3, <2>4, DoneCut
<1>3. CASE (HeadStep \/ Compute(0)) /\ ~HeadExit
  <2>1. /\ rank'[w] = rank[w] /\ saveable'[w] = saveable[w] /\ proc'[w] = proc[w] /\ Up(0)
        /\ \E f \in Seq(Frames) : chan'[w] = chan[w] \/ chan'[w] = chan[w] \o f
    BY <1>1, <1>3, HeadLeaves
  <2>2. proc[0] # "exited"
    BY <2>1 DEF Up
  <2> QED  BY <1>1, <2>1, <2>2, DoneGrows
<1>4. ASSUME UNCHANGED <<rank, saveable, chan>>, proc[w] = "exited" => proc'[w] = "exited",
             proc[0] = "exited" => proc'[0] = "exited"
      PROVE  Done(w)'
  BY <1>4 DEF Done
<1>5. ASSUME NEW v \in Workers, v # w, WorkerStep(v) \/ Compute(v) \/ Dies(v)
      PROVE  Done(w)'
  <2>1. w \in Ranks \ {v} /\ 0 \in Ranks \ {v}
    BY <1>1, <1>5, RankZero
  <2>2. CASE Dies(v)
    <3>1. proc'[w] = proc[w] /\ proc'[0] = proc[0] /\ chan'[w] = chan[w]
      BY <1>1, <1>5, <2>1, <2>2 DEF Dies, WorkerGone, TypeOK
    <3> QED  BY <2>2, <3>1 DEF Dies, Done, data
  <2>3. CASE WorkerStep(v) \/ Compute(v)
    <3>1. proc'[w] = proc[w] /\ proc'[0] = proc[0] /\ chan'[w] = chan[w] /\ rank'[w] = rank[w]
          /\ saveable'[w] = saveable[w]
      BY <1>1, <1>5, <2>1, <2>3, WorkerLeaves
    <3> QED  BY <3>1 DEF Done
  <2> QED  BY <1>5, <2>2, <2>3
<1>6. ASSUME WorkerGone(w, <<>>) \/ WorkerGone(w, <<[type |-> "Abort"]>>) PROVE Done(w)'
  BY <1>1, <1>6 DEF WorkerGone, Done, TypeOK
<1>7. CASE WorkerStep(w) \/ Compute(w)
  <2>1. CASE ~Up(w)
    BY <1>7, <2>1 DEF WorkerStep, Compute, WorkerStart, WorkerOp, WorkerOther, WorkerFollows, WorkerMisses, WorkerEnd,
       WorkerEndMissing, WorkerAlone, WorkerWatchdog, EnterForward, LeaveForward, BreakForward, LocalFailure,
       StartDecode, Reads
  <2>2. CASE Up(w)
    <3>1. rank[w].pc = "idle" /\ ~rank[w].inside
      BY <1>1, <2>2, RankTypes DEF Done, Up, WellFormed, Forwards
    <3>2. CASE WorkerStart(w)
      <4>1. chan[w] # <<>> /\ chan[w] \in Seq(Frames) /\ Head(chan[w]).type = "Request"
        BY <1>1, <3>2 DEF WorkerStart, Reads, TypeOK
      <4>2. 1 \in DOMAIN chan[w] /\ chan[w][1].type = "Request" /\ \A k \in DOMAIN chan[w] : 1 \in 1..k
        BY <4>1
      <4> QED  BY <2>2, <4>2 DEF Done, Up
    <3>3. CASE WorkerOp(w)
      <4>1. CASE Consumes(w) /\ UNCHANGED proc
        <5>1. CASE Head(chan[w]).type = "Op" /\ Head(chan[w]).save => saveable[w]
          BY <1>1, <2>2, <3>3, <4>1, <5>1, DoneReads DEF WorkerOp, Reads
        <5>2. CASE ~(Head(chan[w]).type = "Op" /\ Head(chan[w]).save => saveable[w])
          BY <1>6, <3>3, <5>2 DEF WorkerOp, WorkerAborts
        <5> QED  BY <5>1, <5>2
      <4> QED  BY <1>6, <3>3, <4>1 DEF WorkerOp, WorkerAborts
    <3>4. CASE WorkerOther(w)
      <4>1. CASE Consumes(w) /\ UNCHANGED proc
        BY <1>1, <2>2, <3>4, <4>1, DoneReads DEF WorkerOther, Reads, data
      <4> QED  BY <1>6, <3>4, <4>1 DEF WorkerOther, WorkerAborts, WorkerQuits
    <3>5. CASE WorkerAlone(w)
      BY <1>6, <3>5 DEF WorkerAlone
    <3> QED  BY <1>7, <3>1, <3>2, <3>3, <3>4, <3>5 DEF WorkerStep, Compute, WorkerFollows, WorkerMisses, WorkerEnd,
               WorkerEndMissing, WorkerWatchdog, EnterForward, LeaveForward, BreakForward, LocalFailure,
               StartDecode, Forwards, FrameOf
  <2> QED  BY <2>1, <2>2
<1>8. CASE Dies(w)
  BY <1>1, <1>6, <1>8 DEF Dies
<1>9. ASSUME NEW i \in Ranks, Freezes(i) PROVE Done(w)'
  <2>1. (proc[w] = "exited" => proc'[w] = "exited") /\ (proc[0] = "exited" => proc'[0] = "exited")
    BY <1>1, <1>9, RankZero DEF Freezes, TypeOK, Up
  <2> QED  BY <1>4, <1>9, <2>1 DEF Freezes, data, links
<1>10. ASSUME NEW v \in Workers, HeartbeatOverdue(v) \/ HeartbeatHeard(v) PROVE Done(w)'
  BY <1>4, <1>10 DEF HeartbeatOverdue, HeartbeatHeard, data
<1>11. CASE ClientLeaves \/ UNCHANGED vars
  BY <1>4, <1>11 DEF ClientLeaves, vars, data, links
<1>12. ASSUME NEW i \in Ranks, Compute(i) \/ Dies(i) \/ Freezes(i) PROVE Done(w)'
  <2>1. CASE i = 0
    <3>1. CASE HeadExit
      BY <1>2, <3>1
    <3> QED  BY <1>2, <1>3, <1>9, <1>12, <2>1, <3>1
  <2>2. CASE i = w
    BY <1>7, <1>8, <1>9, <1>12, <2>2
  <2>3. CASE i \in Workers /\ i # w
    BY <1>5, <1>9, <1>12, <2>3
  <2> QED  BY <1>12, <2>1, <2>2, <2>3 DEF Ranks
<1>13. ASSUME NEW v \in Workers, WorkerStep(v) \/ HeartbeatOverdue(v) \/ HeartbeatHeard(v) PROVE Done(w)'
  BY <1>5, <1>7, <1>10, <1>13
<1>14. CASE HeadStep
  BY <1>2, <1>3, <1>14
<1> QED  BY <1>11, <1>12, <1>13, <1>14 DEF Next

-----------------------------------------------------------------------------
(* A head that has stopped alone stays so.                                 *)

(* Most steps of a worker leave it its request and its answer. *)
LEMMA WorkerKeepsAnswer ==
  ASSUME TypeOK, Lockstep, NEW w \in Workers, WorkerStep(w) \/ Compute(w), ~WorkerStart(w), ~WorkerFollows(w)
  PROVE  /\ rank'[w].req = rank[w].req /\ rank'[w].tokens = rank[w].tokens
         /\ Range(chan'[w]) \subseteq Range(chan[w])
         /\ rank'[w].ok /\ rank'[w].pc \in {"end", "idle"} => rank[w].ok /\ rank[w].pc \in {"end", "idle"}
<1>1. w \in Ranks /\ rank[w] \in Generations /\ chan[w] \in Seq(Frames) /\ Range(<<>>) = {}
  BY RankZero, RankTypes, SmallSeqs DEF TypeOK
<1>2. ASSUME Consumes(w), chan[w] # <<>> PROVE Range(chan'[w]) \subseteq Range(chan[w])
  BY <1>1, <1>2, ConsumesProps, TailProps
<1>3. ASSUME NEW sent \in Seq(Reports), WorkerGone(w, sent) PROVE Range(chan'[w]) \subseteq Range(chan[w])
  BY <1>1, <1>3, WorkerGoneProps
<1>4. <<>> \in Seq(Reports) /\ <<[type |-> "Abort"]>> \in Seq(Reports)
  BY DEF Reports
<1>5. ASSUME Failed(w) PROVE rank'[w].req = rank[w].req /\ rank'[w].tokens = rank[w].tokens /\ ~rank'[w].ok
  BY <1>1, <1>5, FailedProps
<1>6. CASE WorkerOp(w)
  BY <1>2, <1>3, <1>4, <1>6 DEF WorkerOp, WorkerAborts, Reads
<1>7. CASE WorkerOther(w)
  BY <1>2, <1>3, <1>4, <1>7 DEF WorkerOther, WorkerAborts, WorkerQuits, Reads
<1>8. CASE WorkerMisses(w)
  BY <1>5, <1>8 DEF WorkerMisses, links
<1>9. CASE WorkerEnd(w)
  <2>1. Range(chan'[w]) \subseteq Range(chan[w])
    BY <1>2, <1>3, <1>4, <1>9 DEF WorkerEnd, WorkerAborts, WorkerQuits, Reads
  <2>2. rank' = rank \/ rank' = [rank EXCEPT ![w].pc = "idle"]
    BY <1>9 DEF WorkerEnd
  <2>3. rank[w].pc = "end"
    BY <1>9 DEF WorkerEnd
  <2>4. rank'[w].req = rank[w].req /\ rank'[w].tokens = rank[w].tokens /\ rank'[w].ok = rank[w].ok
    BY <1>1, <2>2 DEF TypeOK, Generations
  <2> QED  BY <2>1, <2>3, <2>4
<1>10. CASE WorkerEndMissing(w)
  BY <1>3, <1>4, <1>10 DEF WorkerEndMissing, WorkerAborts
<1>11. CASE WorkerAlone(w)
  BY <1>3, <1>4, <1>11 DEF WorkerAlone
<1>12. CASE WorkerWatchdog(w)
  BY <1>12 DEF WorkerWatchdog, links
<1>13. CASE EnterForward(w)
  <2>1. chan' = chan /\ (Failed(w) \/ rank' = [rank EXCEPT ![w].inside = TRUE])
    BY <1>13 DEF EnterForward, links
  <2>2. CASE Failed(w)
    BY <1>5, <2>1, <2>2
  <2>3. CASE rank' = [rank EXCEPT ![w].inside = TRUE]
    <3>1. rank'[w] = [rank[w] EXCEPT !.inside = TRUE]
      BY <1>1, <2>3 DEF TypeOK
    <3> QED  BY <1>1, <2>1, <3>1 DEF Generations
  <2> QED  BY <2>1, <2>2, <2>3
<1>14. CASE LeaveForward(w)
  <2>1. chan' = chan
    BY <1>14 DEF LeaveForward, links
  <2> QED  BY <1>1, <1>14, <2>1, LeaveForwardDoes
<1>15. CASE BreakForward(w) \/ LocalFailure(w)
  BY <1>5, <1>15 DEF BreakForward, LocalFailure, links
<1>16. CASE StartDecode(w)
  <2>1. rank'[w] = [rank[w] EXCEPT !.pc = "decide"] /\ chan' = chan
    BY <1>1, <1>16 DEF StartDecode, TypeOK, links
  <2> QED  BY <1>1, <2>1 DEF Generations
<1> HIDE <1>2, <1>3, <1>5
<1> QED  BY <1>6, <1>7, <1>8, <1>9, <1>10, <1>11, <1>12, <1>13, <1>14, <1>15, <1>16 DEF WorkerStep, Compute

(* No worker ends with as many tokens as the head. *)
LEMMA UnmatchedStep ==
  ASSUME ClusterInv, Unmatched, rank[0].tokens # <<>>, NEW w \in Workers, WorkerStep(w) \/ Compute(w)
  PROVE  Unmatched'
<1>1. TypeOK /\ Lockstep /\ w \in Ranks /\ w # 0 /\ rank[0].tokens \in Seq(Tokens) /\ rank[w].tokens \in Seq(Tokens)
  BY RankZero, RankTypes DEF ClusterInv
<1>2. rank'[0] = rank[0] /\ requests' = requests
  BY <1>1, RankZero, WorkerLeaves DEF counts
<1>3. ASSUME NEW v \in Workers, v # w PROVE rank'[v] = rank[v] /\ chan'[v] = chan[v]
  <2>1. v \in Ranks \ {w}
    BY <1>3, RankZero
  <2> QED  BY <1>1, <2>1, WorkerLeaves
<1>4. CASE ~WorkerStart(w) /\ ~WorkerFollows(w)
  <2>1. /\ rank'[w].req = rank[w].req /\ rank'[w].tokens = rank[w].tokens
        /\ Range(chan'[w]) \subseteq Range(chan[w])
    BY <1>1, <1>4, WorkerKeepsAnswer
  <2> QED  BY <1>2, <1>3, <2>1, UnmatchedKept
<1>5. SUFFICES ASSUME WorkerStart(w) \/ WorkerFollows(w)
               PROVE  /\ Runs(w)' => Len(rank'[w].tokens) # Len(rank[0].tokens)
                      /\ Range(chan'[w]) \subseteq Range(chan[w])
  BY <1>2, <1>3, <1>4 DEF Unmatched, Runs
<1>6. chan[w] \in Seq(Frames) /\ chan[w] # <<>>
  BY <1>1, <1>5 DEF WorkerStart, WorkerFollows, Reads, TypeOK
<1>7. Head(chan[w]) \in Frames /\ Head(chan[w]) \in Range(chan[w]) /\ Range(Tail(chan[w])) \subseteq Range(chan[w])
  BY <1>6, TailProps
<1>8. Consumes(w) => Range(chan'[w]) \subseteq Range(chan[w])
  BY <1>1, <1>6, <1>7, ConsumesProps
<1>9. CASE WorkerStart(w)
  <2>1. Head(chan[w]) \in Starts /\ Begin(w, Head(chan[w])) /\ Consumes(w)
    BY <1>7, <1>9, FrameKinds DEF WorkerStart
  <2>2. rank'[w].tokens = <<>>
    BY <1>1, <2>1, BeginProps
  <2>3. Len(rank[0].tokens) # 0
    BY <1>1
  <2> QED  BY <1>8, <2>1, <2>2, <2>3
<1>10. CASE WorkerFollows(w)
  <2> DEFINE m == Head(chan[w])
             r == rank[w]
  <2>1. /\ r.pc \in {"decide", "draft", "accept"}
        /\ \/ Failed(w) /\ chan' = chan
           \/ Consumes(w) /\ Failed(w)
           \/ /\ Consumes(w) /\ m.type = FrameOf[r.pc] /\ m.req = r.req /\ m.step = Len(r.tokens)
              /\ Adopt(w, m, m.tokens)
    BY <1>10 DEF WorkerFollows, FrameOf
  <2>2. CASE Failed(w)
    <3>1. rank'[w].req = rank[w].req /\ rank'[w].tokens = rank[w].tokens
      BY <1>1, <2>2, FailedProps
    <3>2. Failed(w) /\ ~Consumes(w) => chan' = chan
      BY <2>1, <2>2 DEF Failed, Adopt, Consumes
    <3>3. Range(chan'[w]) \subseteq Range(chan[w])
      BY <1>8, <2>1
    <3> QED  BY <1>2, <3>1, <3>3 DEF Unmatched, Runs
  <2>3. CASE /\ Consumes(w) /\ m.type = FrameOf[r.pc] /\ m.req = r.req /\ m.step = Len(r.tokens)
             /\ Adopt(w, m, m.tokens)
    <3>1. m.type \in {"Decision", "Draft", "Accept"} /\ (m.type = "Accept" => r.pc = "accept")
          /\ (r.pc # "draft" => m.type # "Draft")
      BY <2>1, <2>3 DEF FrameOf
    <3>2. PICK d \in Decisions : d = m
      BY <1>7, <3>1, FrameKinds
    <3>3. d.tokens \in Seq(Tokens) /\ (d.type # "Draft" => d.tokens # <<>>) /\ d.step \in Nat
      <4>1. d.type \in {"Decision", "Draft", "Accept"}
        BY <3>1, <3>2
      <4>2. \A t \in Tokens : <<t>> # <<>>
        OBVIOUS
      <4> QED  BY <4>1, <4>2, DecisionKinds
    <3>4. rank'[w].tokens = rank[w].tokens \o d.tokens /\ rank'[w].req = rank[w].req
      BY <1>1, <2>1, <2>3, <3>1, <3>2, <3>3, AdoptProps
    <3>5. Len(rank'[w].tokens) = d.step + Len(d.tokens)
      <4>1. PICK u \in Seq(Tokens), v \in Seq(Tokens) : u = rank[w].tokens /\ v = d.tokens
        BY <1>1, <3>3
      <4>2. Len(u \o v) = Len(u) + Len(v)
        BY ConcatProps
      <4> QED  BY <2>3, <3>2, <3>4, <4>1, <4>2
    <3>6. Runs(w)' => d.req = requests
      BY <1>2, <2>3, <3>2, <3>4 DEF Runs
    <3> QED  BY <1>7, <1>8, <2>3, <3>1, <3>2, <3>5, <3>6 DEF Unmatched
  <2> QED  BY <2>1, <2>2, <2>3
<1> QED  BY <1>5, <1>9, <1>10

(* Nor without any token. *)
LEMMA EmptyHandedStep ==
  ASSUME TypeOK, Lockstep, NEW w \in Workers, WorkerStep(w) \/ Compute(w),
         Runs(w) /\ rank[w].ok /\ rank[w].pc \in {"end", "idle"} => rank[w].tokens # <<>>,
         Runs(w)', rank'[w].ok, rank'[w].pc \in {"end", "idle"}
  PROVE  rank'[w].tokens # <<>>
<1>1. w \in Ranks /\ w # 0
  BY RankZero
<1>2. CASE ~WorkerStart(w) /\ ~WorkerFollows(w)
  <2>1. requests' = requests
    BY <1>1, RankZero, WorkerLeaves DEF counts
  <2> QED  BY <1>2, <2>1, WorkerKeepsAnswer DEF Runs
<1>3. CASE WorkerStart(w)
  <2>1. Head(chan[w]) \in Starts /\ Begin(w, Head(chan[w]))
    BY <1>3, TailProps, FrameKinds DEF WorkerStart, Reads, TypeOK
  <2> QED  BY <1>1, <2>1, BeginProps
<1>4. CASE WorkerFollows(w)
  <2>1. rank[w].pc \in {"decide", "draft", "accept"}
        /\ (Failed(w) \/ (Adopt(w, Head(chan[w]), Head(chan[w]).tokens) /\ Head(chan[w]).type = FrameOf[rank[w].pc]))
    BY <1>4 DEF WorkerFollows, FrameOf
  <2>2. ~Failed(w)
    BY <1>1, FailedProps
  <2>3. Head(chan[w]).type \in {"Decision", "Draft", "Accept"} /\ (Head(chan[w]).type = "Accept" => rank[w].pc = "accept")
        /\ (rank[w].pc # "draft" => Head(chan[w]).type # "Draft")
    BY <2>1, <2>2 DEF FrameOf
  <2>4. PICK d \in Decisions : d = Head(chan[w])
    BY <1>4, <2>3, TailProps, FrameKinds DEF WorkerFollows, Reads, TypeOK
  <2>5. d.tokens \in Seq(Tokens) /\ (d.type # "Draft" => d.tokens # <<>>)
    <3>1. d.type \in {"Decision", "Draft", "Accept"}
      BY <2>3, <2>4
    <3>2. \A t \in Tokens : <<t>> # <<>>
      OBVIOUS
    <3> QED  BY <3>1, <3>2, DecisionKinds
  <2> QED  BY <1>1, <2>1, <2>2, <2>3, <2>4, <2>5, AdoptProps
<1> QED  BY <1>2, <1>3, <1>4

LEMMA AloneHeadStep ==
  ASSUME ClusterInv, Alone, HeadStep
  PROVE  Alone'
<1>1. TypeOK /\ 0 \in Ranks /\ rank[0] \in Generations
  BY RankZero, RankTypes DEF ClusterInv
<1>2. Up(0) /\ proc[0] # "exited"
  BY DEF HeadStep, HeadStart, CancelPrefill, HeadDecide, HeadDraft, HeadAccept, HeadEnd, HeadWatchdog, HeadExit,
         HeadShutdown, HeadGather, HeadGatherFails, SaveTurn, FreeSlot, Up
<1>3. cancelled /\ rank[0].pc \in {"end", "gather", "idle"} /\ (rank[0].pc # "idle" \/ exiting)
      /\ (rank[0].spec \/ rank[0].tokens = <<>>)
  BY <1>2 DEF Alone, StoppedAlone
<1>4. ASSUME NEW pc \in {"end", "gather", "idle"}, rank'[0].pc = pc, rank'[0].spec = rank[0].spec,
             rank'[0].tokens = rank[0].tokens, exiting' \/ proc'[0] = "exited", cancelled' = cancelled
      PROVE  Alone'
  BY <1>3, <1>4 DEF Alone, StoppedAlone
<1>5. CASE HeadWatchdog \/ HeadExit
  <2>1. rank' = rank /\ cancelled' = cancelled /\ (exiting' \/ proc'[0] = "exited")
    BY <1>1, <1>5 DEF HeadWatchdog, HeadExit, FatalExit, HeadGone, TypeOK
  <2> QED  BY <1>3, <1>4, <2>1
<1>6. ASSUME Return(FALSE) PROVE rank'[0].pc = "idle" /\ rank'[0].spec = rank[0].spec /\ rank'[0].tokens = rank[0].tokens
  <2>1. rank'[0] = [rank[0] EXCEPT !.pc = "idle", !.ok = FALSE]
    BY <1>1, <1>6 DEF Return, TypeOK
  <2>2. PICK r, q : r \in Generations /\ r = rank[0] /\ q = rank'[0] /\ q = [r EXCEPT !.pc = "idle", !.ok = FALSE]
    BY <1>1, <2>1
  <2>3. q.pc = "idle" /\ q.spec = r.spec /\ q.tokens = r.tokens
    BY <2>2 DEF Generations
  <2> QED  BY <2>2, <2>3
<1>7. FatalExit => exiting'
  BY DEF FatalExit
<1>8. CASE HeadEnd
  <2> DEFINE e0 == [type |-> "RequestEnd", req |-> rank[0].req, ok |-> rank[0].ok, steps |-> Len(rank[0].tokens)]
  <2>1. /\ cancelled' = cancelled /\ requests' = requests
        /\ \/ Return(FALSE) /\ exiting'
           \/ /\ rank' = [rank EXCEPT ![0].pc = "gather", ![0].gathered = {}]
              /\ chan' = Sent(<<e0>>) /\ exiting' = exiting
    BY <1>7, <1>8 DEF HeadEnd, counts
  <2>2. CASE Return(FALSE) /\ exiting'
    BY <1>4, <1>6, <2>1, <2>2
  <2>3. CASE /\ rank' = [rank EXCEPT ![0].pc = "gather", ![0].gathered = {}]
             /\ chan' = Sent(<<e0>>) /\ exiting' = exiting
    <3>1. rank'[0] = [rank[0] EXCEPT !.pc = "gather", !.gathered = {}]
      BY <1>1, <2>3 DEF TypeOK
    <3>2. rank'[0].pc = "gather" /\ rank'[0].spec = rank[0].spec /\ rank'[0].tokens = rank[0].tokens
          /\ rank'[0].ok = rank[0].ok
      <4>1. PICK r, q : r \in Generations /\ r = rank[0] /\ q = rank'[0] /\ q = [r EXCEPT !.pc = "gather", !.gathered = {}]
        BY <1>1, <3>1
      <4>2. q.pc = "gather" /\ q.spec = r.spec /\ q.tokens = r.tokens /\ q.ok = r.ok
        BY <4>1 DEF Generations
      <4> QED  BY <4>1, <4>2
    <3>3. CASE exiting
      BY <1>4, <2>1, <2>3, <3>2, <3>3
    <3>4. CASE ~exiting
      <4>1. \A w \in Workers : rank'[w] = rank[w]
        BY <1>1, <2>3, RankZero DEF TypeOK
      <4>2. PICK e \in Frames : e = e0 /\ e.type = "RequestEnd"
        BY <1>1, FrameTypes
      <4>3. PICK f \in Seq(Frames) : f = <<e>> /\ Range(f) = {e}
        BY SmallSeqs
      <4> HIDE DEF e0
      <4>4. \A w \in Workers : \A x \in Range(chan'[w]) : x \in Range(chan[w]) \/ x = e
        BY <1>1, <2>3, <4>2, <4>3, SentFrames
      <4>5. Unmatched => Unmatched'
        BY <2>1, <3>2, <4>1, <4>2, <4>4 DEF Unmatched, Runs
      <4> QED  BY <1>2, <1>3, <2>1, <2>3, <3>2, <3>4, <4>1, <4>5 DEF Alone, StoppedAlone, Runs
    <3> QED  BY <3>3, <3>4
  <2> HIDE DEF e0
  <2> QED  BY <2>1, <2>2, <2>3
<1>9. ASSUME NEW w \in Workers, HeadGatherFails(w)
      PROVE  Alone'
  BY <1>4, <1>6, <1>7, <1>9 DEF HeadGatherFails
<1>10. ASSUME NEW w \in Workers, HeadGather(w)
       PROVE  Alone'
  <2>1. rank[0].pc = "gather" /\ back[w] # <<>> /\ cancelled' = cancelled
    BY <1>10 DEF HeadGather
  <2>2. CASE Return(FALSE) /\ FatalExit
    BY <1>4, <1>6, <1>7, <2>1, <2>2
  <2>3. CASE ~(Return(FALSE) /\ FatalExit)
    <3>1. /\ Head(back[w]).type = "Report" /\ Head(back[w]).req = rank[0].req /\ exiting' = exiting
          /\ rank' = [rank EXCEPT ![0].gathered = rank'[0].gathered, ![0].pc = rank'[0].pc]
          /\ rank'[0].pc \in {"idle", "gather"}
      <4>1. \E g, p : /\ rank' = [rank EXCEPT ![0].gathered = g, ![0].pc = p]
                      /\ p \in {"idle", "gather"}
        BY <1>10, <2>3, <2>1 DEF HeadGather
      <4>2. PICK g, p : /\ rank' = [rank EXCEPT ![0].gathered = g, ![0].pc = p]
                        /\ p \in {"idle", "gather"}
        BY <4>1
      <4>3. rank'[0] = [rank[0] EXCEPT !.gathered = g, !.pc = p]
        BY <1>1, <4>2 DEF TypeOK
      <4>4. rank'[0].gathered = g /\ rank'[0].pc = p
        BY <1>1, <4>3 DEF Generations
      <4> QED  BY <1>10, <2>3, <4>2, <4>4 DEF HeadGather
    <3>2. rank'[0] = [rank[0] EXCEPT !.gathered = rank'[0].gathered, !.pc = rank'[0].pc]
      BY <1>1, <3>1 DEF TypeOK
    <3>3. rank'[0].spec = rank[0].spec /\ rank'[0].tokens = rank[0].tokens
      BY <1>1, <3>2 DEF Generations
    <3>4. CASE exiting
      BY <1>4, <2>1, <3>1, <3>3, <3>4
    <3>5. CASE ~exiting
      <4>1. Serving /\ Busy
        BY <1>2, <2>1, <3>5 DEF Serving, Busy
      <4>2. PICK begun \in Seq(Int) : HeadHolds(begun) /\ Follows(w, begun)
        BY <4>1 DEF ClusterInv, Together
      <4>3. Head(back[w]) \in Reports /\ Head(back[w]) \in Range(back[w])
        BY <1>1, <2>1, QueueTypes
      <4>4. Head(back[w]) = [type |-> "Report", req |-> requests]
        BY <3>1, <4>2, <4>3 DEF HeadHolds, Reports
      <4>5. Reported(w)
        BY <4>3, <4>4 DEF Reported
      <4>6. /\ Runs(w) /\ rank[w].pc = "idle"
            /\ rank[0].ok => rank[w].ok /\ Len(rank[w].tokens) = Len(rank[0].tokens)
        BY <4>2, <4>5 DEF Follows, ReportRight
      <4>7. rank[0].ok
        BY <1>2, <2>1, <3>5 DEF Alone
      <4>8. CASE Unmatched
        BY <4>6, <4>7, <4>8 DEF Unmatched
      <4>9. CASE rank[0].tokens = <<>> /\ rank[w].tokens # <<>>
        <5>1. rank[w].tokens \in Seq(Tokens)
          BY <1>1, RankZero, RankTypes
        <5>2. Len(rank[w].tokens) # 0 /\ Len(rank[0].tokens) = 0
          BY <4>9, <5>1
        <5> QED  BY <4>6, <4>7, <5>2
      <4> QED  BY <1>2, <2>1, <3>5, <4>6, <4>7, <4>8, <4>9 DEF Alone
    <3> QED  BY <3>4, <3>5
  <2> QED  BY <2>2, <2>3
<1> HIDE <1>4, <1>6
<1> QED  BY <1>2, <1>3, <1>5, <1>8, <1>9, <1>10 DEF HeadStep, HeadStart, CancelPrefill, HeadDecide, HeadDraft, HeadAccept,
            HeadShutdown, SaveTurn, FreeSlot

LEMMA AloneStep ==
  ASSUME ClusterInv, [Next]_vars, Alone
  PROVE  Alone'
<1>1. TypeOK /\ Lockstep /\ 0 \in Ranks
  BY RankZero DEF ClusterInv
<1>2. cancelled /\ rank[0].pc \in {"end", "gather", "idle"} /\ ~rank[0].inside
  BY <1>1, RankTypes DEF Alone, StoppedAlone, WellFormed, Forwards
<1>3. CASE HeadStep
  BY <1>3, AloneHeadStep
<1>4. ASSUME NEW w \in Workers, WorkerStep(w) \/ Compute(w)
      PROVE  Alone'
  <2>1. 0 \in Ranks \ {w}
    BY RankZero, <1>1
  <2>2. rank'[0] = rank[0] /\ proc'[0] = proc[0] /\ UNCHANGED <<exiting, cancelled, requests>>
    BY <1>1, <1>4, <2>1, WorkerLeaves DEF counts
  <2>3. rank[0].tokens # <<>> /\ Unmatched => Unmatched'
    BY <1>4, UnmatchedStep
  <2>4. ASSUME NEW v \in Workers,
               Runs(v) /\ rank[v].ok /\ rank[v].pc \in {"end", "idle"} => rank[v].tokens # <<>>
        PROVE  Runs(v)' /\ rank'[v].ok /\ rank'[v].pc \in {"end", "idle"} => rank'[v].tokens # <<>>
    <3>1. CASE v = w
      BY <1>1, <1>4, <2>4, <3>1, EmptyHandedStep
    <3>2. CASE v # w
      <4>1. v \in Ranks \ {w}
        BY <3>2, RankZero
      <4> QED  BY <1>1, <1>4, <2>2, <2>4, <4>1, WorkerLeaves DEF Runs
    <3> QED  BY <3>1, <3>2
  <2> QED  BY <2>2, <2>3, <2>4 DEF Alone, StoppedAlone
<1>5. ASSUME UNCHANGED <<rank, exiting, cancelled, requests>>, proc[0] = "exited" => proc'[0] = "exited",
             \A w \in Workers : Range(chan'[w]) \subseteq Range(chan[w])
      PROVE  Alone'
  <2>1. Unmatched => Unmatched'
    BY <1>5, UnmatchedKept
  <2> QED  BY <1>5, <2>1 DEF Alone, StoppedAlone, Runs
<1>6. ASSUME NEW w \in Workers, HeartbeatOverdue(w) \/ HeartbeatHeard(w)
      PROVE  Alone'
  BY <1>5, <1>6 DEF HeartbeatOverdue, HeartbeatHeard, counts
<1>7. ASSUME NEW i \in Ranks, Freezes(i)
      PROVE  Alone'
  <2>1. proc[0] = "exited" => proc'[0] = "exited"
    BY <1>1, <1>7 DEF Freezes, TypeOK, Up
  <2> QED  BY <1>5, <1>7, <2>1 DEF Freezes, counts, links
<1>8. ASSUME NEW i \in Ranks, Dies(i)
      PROVE  Alone'
  <2>1. CASE i = 0
    <3>1. proc'[0] = "exited" /\ \A w \in Workers : Range(chan'[w]) \subseteq Range(chan[w])
      BY <1>1, <1>8, <2>1, HeadGoneProps DEF Dies
    <3> QED  BY <1>5, <1>8, <3>1 DEF Dies, counts
  <2>2. CASE i # 0
    <3>1. i \in Workers /\ WorkerGone(i, <<>>) /\ <<>> \in Seq(Reports)
      BY <1>8, <2>2 DEF Dies, Ranks
    <3>2. \A w \in Workers \ {i} : chan'[w] = chan[w]
      BY <1>1, <3>1, WorkerGoneProps
    <3>3. chan'[i] = <<>> /\ proc'[0] = proc[0]
      BY <1>1, <2>2, <3>1, WorkerGoneProps
    <3>4. \A w \in Workers : Range(chan'[w]) \subseteq Range(chan[w])
      BY <3>2, <3>3, SmallSeqs
    <3> QED  BY <1>5, <1>8, <3>3, <3>4 DEF Dies, counts
  <2> QED  BY <2>1, <2>2
<1>9. CASE ClientLeaves
  BY <1>2, <1>9 DEF ClientLeaves
<1>10. CASE UNCHANGED vars
  BY <1>5, <1>10 DEF vars, counts, links
<1>11. CASE Compute(0)
  BY <1>2, <1>11 DEF Compute, EnterForward, LeaveForward, BreakForward, LocalFailure, StartDecode, Forwards
<1>12. ASSUME NEW i \in Ranks, Compute(i)
       PROVE  Alone'
  BY <1>4, <1>11, <1>12 DEF Ranks
<1> HIDE <1>5
<1> QED  BY <1>3, <1>4, <1>6, <1>7, <1>8, <1>9, <1>10, <1>12 DEF Next

-----------------------------------------------------------------------------
(* The collectives a rank has entered since its last frame.                *)

LEMMA PassedIs ==
  ASSUME NEW r \in Generations, WellFormed(r)
  PROVE  /\ Passed(r) \in Nat
         /\ r.pc = "prefill" => Passed(r) = r.chunk + (IF r.inside THEN 1 ELSE 0) /\ Passed(r) <= Chunks
         /\ r.pc \in {"forward", "verify"} => Passed(r) = IF r.inside THEN 1 ELSE 0
         /\ r.pc \in {"decide", "accept"} => Passed(r) = IF r.tokens = <<>> THEN Chunks ELSE 1
         /\ r.pc \notin Forwards \cup {"decide", "accept"} => Passed(r) = 0
         /\ Through(r) <=> /\ r.pc = "prefill" => Passed(r) = Chunks
                           /\ r.pc \in {"forward", "verify"} => Passed(r) = 1
<1>1. r.pc \in Places /\ r.chunk \in 0..Chunks /\ r.inside \in BOOLEAN /\ Chunks \in Nat \ {0}
      /\ (r.pc = "prefill" /\ r.inside => r.chunk < Chunks)
  BY ClusterAssumption DEF Generations, WellFormed
<1>2. r.chunk \in Nat /\ r.chunk <= Chunks
  BY <1>1
<1>3. CASE r.pc = "prefill"
  <2>1. Passed(r) = r.chunk + (IF r.inside THEN 1 ELSE 0)
    BY <1>3 DEF Passed, Forwards
  <2> QED  BY <1>1, <1>2, <1>3, <2>1 DEF Through, Forwards
<1>4. CASE r.pc \in {"forward", "verify"}
  <2>1. Passed(r) = 0 + (IF r.inside THEN 1 ELSE 0)
    BY <1>4 DEF Passed, Forwards
  <2> QED  BY <1>4, <2>1 DEF Through, Forwards
<1>5. CASE r.pc \in {"decide", "accept"}
  <2>1. Passed(r) = IF r.tokens = <<>> THEN Chunks ELSE 1
    BY <1>5 DEF Passed, Forwards
  <2> QED  BY <1>1, <1>5, <2>1 DEF Through, Forwards
<1>6. CASE r.pc \notin Forwards \cup {"decide", "accept"}
  <2>1. Passed(r) = 0
    BY <1>6 DEF Passed
  <2> QED  BY <1>6, <2>1 DEF Through, Forwards
<1> QED  BY <1>3, <1>4, <1>5, <1>6 DEF Forwards

(* Who waits for the same frame has not entered more. *)
LEMMA PassedAlike ==
  ASSUME NEW h \in Generations, WellFormed(h), NEW r \in Generations, WellFormed(r),
         h.pc \in {"decide", "accept", "draft"}, Due(r) = Due(h)
  PROVE  Passed(r) <= Passed(h) /\ (Passed(r) = Passed(h) => Through(r))
<1>1. r.pc \in Places /\ Len(r.tokens) \in Nat /\ Len(h.tokens) \in Nat /\ Chunks \in Nat \ {0}
      /\ r.inside \in BOOLEAN
  BY ClusterAssumption DEF Generations
<1>2. Len(r.tokens) = Len(h.tokens) /\ r.pc \notin {"idle", "gather", "end"}
  BY <1>1 DEF Due, Places, Forwards
<1>3. (r.tokens = <<>>) <=> (h.tokens = <<>>)
  <2>1. r.tokens \in Seq(Tokens) /\ h.tokens \in Seq(Tokens)
    BY DEF Generations
  <2> QED  BY <1>2, <2>1
<1>4. CASE h.pc = "decide"
  <2>1. r.pc \in {"prefill", "forward", "decide"}
    BY <1>1, <1>4 DEF Due, Places, Forwards
  <2>2. (r.pc = "prefill" => r.tokens = <<>>) /\ (r.pc = "forward" => r.tokens # <<>>)
    BY DEF WellFormed
  <2>3. Passed(h) = IF h.tokens = <<>> THEN Chunks ELSE 1
    BY <1>4, PassedIs
  <2> QED  BY <1>1, <1>3, <2>1, <2>2, <2>3, PassedIs
<1>5. CASE h.pc = "accept"
  <2>1. r.pc \in {"verify", "accept"}
    BY <1>1, <1>5 DEF Due, Places, Forwards
  <2>2. Passed(h) = 1 /\ r.tokens # <<>>
    BY <1>3, <1>5, PassedIs DEF WellFormed
  <2> QED  BY <1>1, <2>1, <2>2, PassedIs
<1>6. CASE h.pc = "draft"
  <2>1. r.pc = "draft"
    BY <1>1, <1>6 DEF Due, Places, Forwards
  <2> QED  BY <1>6, <2>1, PassedIs DEF Forwards
<1> QED  BY <1>4, <1>5, <1>6

(* A frame read. *)
LEMMA PaceReads ==
  ASSUME NEW f \in Seq(Frames), f # <<>>, NEW h, NEW r, NEW q \in Generations, WellFormed(q), NEW lead, NEW spec, NEW to,
         InPace(f, h, r, lead), Passed(h) \in Nat, Passed(q) = 0, Lead(Due(q), Tail(f), spec, to)
  PROVE  InPace(Tail(f), h, q, lead)
<1>1. /\ lead = Passed(h) /\ h.pc \notin {"decide", "accept"} /\ (h.pc = "prefill" => h.chunk = 0)
      /\ \A k \in DOMAIN f : k > 1 => f[k].type \notin {"Decision", "Accept"}
  BY DEF InPace
<1>2. Tail(f) \in Seq(Frames) /\ DOMAIN f = 1..Len(f) /\ DOMAIN Tail(f) = 1..Len(f) - 1 /\ Len(f) \in Nat
      /\ \A k \in 1..Len(f) - 1 : Tail(f)[k] = f[k + 1]
  OBVIOUS
<1>3. CASE Tail(f) = <<>>
  <2>1. lead = Passed(h) - Passed(q)
    BY <1>1
  <2> QED  BY <1>3, <2>1 DEF InPace
<1>4. CASE Tail(f) # <<>>
  <2> DEFINE m == Head(Tail(f))
  <2>1. Takes(m) = Due(q)
    BY <1>2, <1>4, LeadTail
  <2>2. 1 \in 1..Len(f) - 1 /\ m = f[2] /\ 2 \in DOMAIN f
    BY <1>2, <1>4
  <2>3. m.type \notin {"Decision", "Accept"}
    BY <1>1, <2>2
  <2> HIDE DEF m
  <2>4. q.pc \notin Forwards
    BY <2>1, <2>3 DEF Due, Takes, Forwards
  <2>5. Through(q)
    BY <2>4 DEF Through
  <2>6. \A k \in DOMAIN Tail(f) : k > 1 => Tail(f)[k].type \notin {"Decision", "Accept"}
    <3> SUFFICES ASSUME NEW k \in DOMAIN Tail(f), k > 1 PROVE Tail(f)[k].type \notin {"Decision", "Accept"}
      OBVIOUS
    <3>1. k + 1 \in DOMAIN f /\ k + 1 > 1 /\ Tail(f)[k] = f[k + 1]
      BY <1>2
    <3> QED  BY <1>1, <3>1
  <2> QED  BY <1>1, <1>4, <2>5, <2>6 DEF InPace
<1> QED  BY <1>3, <1>4

(* A frame sent. *)
LEMMA PaceSends ==
  ASSUME NEW f \in Seq(Frames), NEW m \in Frames, NEW h, NEW g, NEW r, NEW lead, InPace(f, h, r, lead),
         Through(r), lead = Passed(g), g.pc \notin {"decide", "accept"}, g.pc = "prefill" => g.chunk = 0,
         f = <<>> \/ m.type \notin {"Decision", "Accept"}
  PROVE  InPace(f \o <<m>>, g, r, lead)
<1>1. DOMAIN (f \o <<m>>) = 1..Len(f) + 1 /\ Len(f) \in Nat /\ DOMAIN f = 1..Len(f) /\ f \o <<m>> # <<>>
      /\ (f \o <<m>>)[Len(f) + 1] = m /\ \A k \in 1..Len(f) : (f \o <<m>>)[k] = f[k]
  OBVIOUS
<1>2. ASSUME NEW k \in DOMAIN (f \o <<m>>), k > 1
      PROVE  (f \o <<m>>)[k].type \notin {"Decision", "Accept"}
  <2>1. CASE k \in 1..Len(f)
    <3>1. f # <<>> /\ f[k].type \notin {"Decision", "Accept"}
      BY <1>1, <1>2, <2>1 DEF InPace
    <3> QED  BY <1>1, <2>1, <3>1
  <2>2. CASE k = Len(f) + 1
    <3>1. f # <<>>
      BY <1>1, <1>2, <2>2
    <3> QED  BY <1>1, <2>2, <3>1
  <2> QED  BY <1>1, <2>1, <2>2
<1> QED  BY <1>1, <1>2 DEF InPace

-----------------------------------------------------------------------------
(* In order, rank by rank.                                                 *)

(* A worker that a step leaves alone. *)
LEMMA StrideKept ==
  ASSUME NEW v \in Workers, InStride(v), rank'[0] = rank[0], rank'[v] = rank[v], chan'[v] = chan[v],
         back'[v] = back[v], saveable'[v] = saveable[v], snaps'[v] = snaps[v], snaps'[0] = snaps[0],
         fresh'[v] = fresh[v], requests' = requests, entered'[0] - entered'[v] = entered[0] - entered[v]
  PROVE  InStride(v)'
<1>1. Script(v)'
  BY DEF InStride, Script
<1>2. Pace(v)'
  BY DEF InStride, Pace
<1>3. Current(v)'
  BY DEF InStride, Current, Runs, Reported, Busy
<1>4. SlotsAlike(v)'
  BY DEF InStride, SlotsAlike, There, Busy, Runs
<1> QED  BY <1>1, <1>2, <1>3, <1>4 DEF InStride

LEMMA WorkerInOrder ==
  ASSUME ClusterInv, InOrder, NEW w \in Workers, WorkerStep(w) \/ Compute(w), Ordinary(w)',
         rank'[w].pc # "gather", Script(w)', Pace(w)', Current(w)', SlotsAlike(w)',
         \A v \in Workers \ {w} : entered'[0] - entered'[v] = entered[0] - entered[v]
  PROVE  InOrder'
<1>1. TypeOK /\ 0 \in Ranks \ {w}
  BY RankZero DEF ClusterInv
<1>2. ASSUME NEW j \in Ranks \ {w}
      PROVE  /\ rank'[j] = rank[j] /\ kv'[j] = kv[j] /\ saveable'[j] = saveable[j] /\ snaps'[j] = snaps[j]
             /\ proc'[j] = proc[j] /\ aborted'[j] = aborted[j]
             /\ j \in Workers => chan'[j] = chan[j] /\ back'[j] = back[j]
             /\ UNCHANGED <<fresh, exiting, cancelled, counts>>
  BY <1>1, <1>2, WorkerLeaves
<1>3. ASSUME NEW j \in Ranks PROVE Ordinary(j)'
  BY <1>2, <1>3 DEF InOrder, Ordinary, Up
<1>4. ASSUME NEW v \in Workers PROVE InStride(v)'
  <2>1. CASE v = w
    BY <1>1, <1>2, <2>1 DEF InOrder, InStride
  <2>2. CASE v # w
    <3>1. v \in Ranks \ {w} /\ InStride(v)
      BY <2>2, RankZero DEF InOrder
    <3> QED  BY <1>1, <1>2, <2>2, <3>1, StrideKept DEF counts
  <2> QED  BY <2>1, <2>2
<1>5. ~exiting' /\ (Busy' /\ rank'[0].snap # None => (snaps'[0][rank'[0].snap[1]] # None) = (rank'[0].chunk = Chunks))
  BY <1>1, <1>2 DEF InOrder, Busy
<1> QED  BY <1>3, <1>4, <1>5 DEF InOrder

LEMMA HeadInOrder ==
  ASSUME ClusterInv, InOrder, HeadStep \/ Compute(0), ~HeadExit, exiting' = exiting, fresh' = fresh, Ordinary(0)',
         Busy' /\ rank'[0].snap # None => (snaps'[0][rank'[0].snap[1]] # None) = (rank'[0].chunk = Chunks),
         \A w \in Workers : Script(w)' /\ Pace(w)' /\ Current(w)' /\ SlotsAlike(w)'
  PROVE  InOrder'
<1>1. TypeOK
  BY DEF ClusterInv
<1>2. ASSUME NEW w \in Workers
      PROVE  /\ rank'[w] = rank[w] /\ kv'[w] = kv[w] /\ saveable'[w] = saveable[w]
             /\ proc'[w] = proc[w] /\ aborted'[w] = aborted[w]
  BY <1>1, HeadLeaves
<1>3. ASSUME NEW i \in Ranks PROVE Ordinary(i)'
  BY <1>2, <1>3, RankZero DEF InOrder, Ordinary, Up, Ranks
<1>4. ASSUME NEW w \in Workers PROVE InStride(w)'
  BY <1>2 DEF InOrder, InStride
<1> QED  BY <1>3, <1>4 DEF InOrder

(* Slots when the first frame is read, and when one is sent. *)
LEMMA SlotsRead ==
  ASSUME TypeOK, NEW w \in Workers, SlotsAlike(w), chan[w] # <<>>, chan'[w] = Tail(chan[w]),
         \A s \in Slots : /\ There(w, s)' = There(w, s)
                          /\ (snaps'[w][s] # None) = IF OpOn(Head(chan[w]), s) THEN Head(chan[w]).save ELSE snaps[w][s] # None
  PROVE  SlotsAlike(w)'
<1> SUFFICES ASSUME NEW s \in Slots PROVE WillHave(chan[w], snaps[w][s] # None, s, There(w, s))'
  BY DEF SlotsAlike
<1>1. chan[w] \in Seq(Frames) /\ WillHave(chan[w], snaps[w][s] # None, s, There(w, s))
  BY DEF TypeOK, SlotsAlike
<1>2. PICK f, u, t, v : /\ f = chan[w] /\ u = (snaps[w][s] # None) /\ t = There(w, s)
                        /\ v = IF OpOn(Head(f), s) THEN Head(f).save ELSE u
  OBVIOUS
<1>3. WillHave(Tail(f), v, s, t)
  BY <1>1, <1>2, WillHaveTail
<1>4. chan'[w] = Tail(f) /\ (snaps'[w][s] # None) = v /\ There(w, s)' = t
  BY <1>2
<1> QED  BY <1>3, <1>4

LEMMA SlotsSent ==
  ASSUME TypeOK, NEW w \in Workers, SlotsAlike(w), NEW m \in Frames, chan'[w] = chan[w] \o <<m>>,
         \A s \in Slots : /\ There(w, s)' = IF OpOn(m, s) THEN m.save ELSE There(w, s)
                          /\ (snaps'[w][s] # None) = (snaps[w][s] # None)
  PROVE  SlotsAlike(w)'
<1> SUFFICES ASSUME NEW s \in Slots PROVE WillHave(chan[w], snaps[w][s] # None, s, There(w, s))'
  BY DEF SlotsAlike
<1>1. chan[w] \in Seq(Frames) /\ WillHave(chan[w], snaps[w][s] # None, s, There(w, s))
  BY DEF TypeOK, SlotsAlike
<1>2. PICK f, u, t, v : /\ f = chan[w] /\ u = (snaps[w][s] # None) /\ t = There(w, s)
                        /\ v = IF OpOn(m, s) THEN m.save ELSE t
  OBVIOUS
<1>3. WillHave(f \o <<m>>, u, s, v)
  BY <1>1, <1>2, WillHaveAppend
<1>4. chan'[w] = f \o <<m>> /\ (snaps'[w][s] # None) = u /\ There(w, s)' = v
  BY <1>2
<1> QED  BY <1>3, <1>4

(* No frame about slots, before or after. *)
LEMMA SlotsAsTheyAre ==
  ASSUME NEW f, NEW used, NEW s, NEW there, \A k \in DOMAIN f : ~OpOn(f[k], s)
  PROVE  WillHave(f, used, s, there) <=> used = there
BY DEF WillHave

(* What a worker at work is told. *)
LEMMA AtItsRequest ==
  ASSUME ClusterInv, InOrder, NEW w \in Workers, rank[w].pc # "idle"
  PROVE  /\ Busy /\ Runs(w) /\ rank[0].req = requests /\ rank[w].snap = rank[0].snap /\ rank[w].spec = rank[0].spec
         /\ \A m \in Range(chan[w]) : m.type # "Op" /\ m.type # "Request"
         /\ \A s \in Slots : \A k \in DOMAIN chan[w] : ~OpOn(chan[w][k], s)
         /\ ~Reported(w) /\ back[w] = <<>>
<1>1. Busy
  BY Orderly DEF Agrees
<1>2. PICK begun \in Seq(Int) : HeadHolds(begun) /\ Follows(w, begun)
  BY <1>1, Orderly DEF Together
<1>3. Runs(w) /\ rank[0].req = requests /\ rank[w].snap = rank[0].snap
  BY <1>2 DEF HeadHolds, Follows, Copies
<1>4. \A m \in Range(chan[w]) : m.type # "Op" /\ m.type # "Request"
  BY <1>3, Orderly DEF Known, InOrder, InStride, Current
<1>5. \A k \in DOMAIN chan[w] : chan[w][k] \in Range(chan[w])
  BY DEF Range
<1>6. ~Reported(w)
  BY <1>2 DEF Follows, ReportRight
<1>7. back[w] = <<>>
  <2>1. Range(<<[type |-> "Report", req |-> requests]>>) = {[type |-> "Report", req |-> requests]}
    BY DEF Range
  <2> QED  BY <1>6, <2>1 DEF InOrder, InStride, Current, Reported
<1> QED  BY <1>1, <1>3, <1>4, <1>5, <1>6, <1>7 DEF InOrder, InStride, Current, OpOn

-----------------------------------------------------------------------------
(* The forwards of a worker.                                               *)

LEMMA WorkerEnterInOrder ==
  ASSUME ClusterInv, InOrder, NEW w \in Workers, EnterForward(w)
  PROVE  InOrder'
<1>1. TypeOK /\ Lockstep /\ w \in Ranks /\ 0 \in Ranks /\ 0 # w /\ ~aborted[w]
  BY RankZero, Orderly
<1>2. rank[0] \in Generations /\ WellFormed(rank[0]) /\ rank[w] \in Generations /\ WellFormed(rank[w])
      /\ \A j \in Ranks : entered[j] \in {0, 1}
  BY <1>1, RankTypes DEF Lockstep
<1>3. /\ TypeOK'
      /\ rank'[w].req = rank[w].req /\ rank'[w].tokens = rank[w].tokens /\ rank'[w].spec = rank[w].spec
      /\ rank'[w].snap = rank[w].snap /\ rank'[w].chunk = rank[w].chunk
      /\ rank[w].pc \in Forwards /\ ~rank[w].inside
      /\ rank'[w].pc = rank[w].pc /\ rank'[w].ok = rank[w].ok /\ rank'[w].inside = TRUE /\ entered[w] = 0
      /\ \E c \in {0, 1} : entered'[w] = 1 - c /\ \A j \in Ranks \ {w} : entered'[j] = entered[j] - c
  BY <1>1, EnterForwardDoes
<1>4. /\ UNCHANGED <<kv, saveable, snaps, proc, aborted, chan, back, requests>>
      /\ rank[w].pc = "prefill" => rank[w].chunk < Chunks
  BY DEF EnterForward, data, links, counts
<1>5. PICK c \in {0, 1} : entered'[w] = 1 - c /\ \A j \in Ranks \ {w} : entered'[j] = entered[j] - c
  BY <1>3
<1>6. rank'[0] = rank[0]
  BY <1>1, WorkerLeaves DEF Compute
<1>7. \A v \in Workers \ {w} : entered'[0] - entered'[v] = entered[0] - entered[v]
  BY <1>1, <1>2, <1>5, RankZero
<1>8. entered'[0] - entered'[w] = (entered[0] - entered[w]) - 1
  BY <1>1, <1>2, <1>3, <1>5
<1>9. InStride(w) /\ Ordinary(w)
  BY <1>1 DEF InOrder
<1>10. rank'[w] \in Generations /\ WellFormed(rank'[w])
  BY <1>1, <1>3, RankTypes DEF TypeOK
<1>11. Passed(rank'[w]) = Passed(rank[w]) + 1 /\ Passed(rank[w]) \in Nat
  <2>1. rank[w].chunk \in Nat
    BY <1>2 DEF Generations
  <2> QED  BY <1>2, <1>3, <1>10, <2>1, PassedIs DEF Forwards
<1>12. ~Through(rank[w])
  <2>1. rank[w].chunk \in Nat /\ Chunks \in Nat
    BY <1>2, ClusterAssumption DEF Generations
  <2> QED  BY <1>2, <1>3, <1>4, <2>1, PassedIs DEF Forwards
<1>13. Pace(w)'
  <2>1. chan[w] = <<>> /\ entered[0] - entered[w] = Passed(rank[0]) - Passed(rank[w])
    BY <1>9, <1>12 DEF InStride, Pace, InPace
  <2>2. Passed(rank[0]) \in Nat
    BY <1>2, PassedIs
  <2>3. entered'[0] - entered'[w] = Passed(rank[0]) - Passed(rank'[w])
    BY <1>8, <1>11, <2>1, <2>2
  <2> QED  BY <1>4, <1>6, <2>1, <2>3 DEF Pace, InPace
<1>14. Due(rank'[w]) = Due(rank[w])
  BY <1>3 DEF Due
<1>15. Script(w)'
  BY <1>4, <1>6, <1>9, <1>14 DEF InStride, Script
<1>16. Current(w)'
  BY <1>3, <1>4, <1>6, <1>9 DEF InStride, Current, Runs, Reported, Busy
<1>17. SlotsAlike(w)'
  BY <1>3, <1>4, <1>6, <1>9 DEF InStride, SlotsAlike, There, Busy, Runs
<1>18. Ordinary(w)'
  BY <1>3, <1>4, <1>9 DEF Ordinary, Normal, Up, Forwards
<1> QED  BY <1>3, <1>7, <1>13, <1>15, <1>16, <1>17, <1>18, WorkerInOrder DEF Compute, Forwards

(* What a snapshot made by a prefill leaves, when nothing fails. *)
LEMMA SavedBy ==
  ASSUME TypeOK, NEW i \in Ranks, LeaveForward(i), faults \in Nat, faults' = faults,
         rank[i].pc = "prefill", rank[i].chunk + 1 = Chunks, rank[i].snap # None
  PROVE  snaps'[i][rank[i].snap[1]] # None
<1>1. rank[i].snap[1] \in Slots /\ kv[i] \in Seq(Int) /\ rank[i].req \in Nat
  BY RankTypes DEF SlotOrNone
<1>2. PICK s, q, x : s \in Slots /\ s = rank[i].snap[1] /\ q = kv[i] /\ x = - rank[i].req
  BY <1>1
<1>3. q \in Seq(Int) /\ x \in Int
  BY <1>1, <1>2
<1>4. Append(q, x) # <<>>
  BY <1>3
<1>5. \E saved \in BOOLEAN : snaps' = [snaps EXCEPT ![i][s] = IF saved THEN Append(q, x) ELSE None] /\ Fault(~saved)
  BY <1>2 DEF LeaveForward, SaveResults
<1>6. PICK saved \in BOOLEAN : snaps' = [snaps EXCEPT ![i][s] = IF saved THEN Append(q, x) ELSE None] /\ Fault(~saved)
  BY <1>5
<1>7. faults = faults + (IF ~saved THEN 1 ELSE 0)
  BY <1>6 DEF Fault
<1>8. saved = TRUE
  BY <1>7
<1>9. snaps' = [snaps EXCEPT ![i][s] = Append(q, x)]
  BY <1>6, <1>8
<1>10. snaps'[i][s] = Append(q, x)
  <2>1. snaps \in [Ranks -> [Slots -> Seq(Int)]]
    BY DEF TypeOK
  <2>2. PICK y : y = Append(q, x)
    OBVIOUS
  <2>3. snaps' = [snaps EXCEPT ![i][s] = y]
    BY <1>9, <2>2
  <2>4. snaps'[i][s] = y
    BY <1>2, <2>1, <2>3
  <2> QED  BY <2>2, <2>4
<1> QED  BY <1>2, <1>4, <1>10 DEF None

(* A rank that leaves a forward in order. *)
LEMMA LeaveInOrder ==
  ASSUME ClusterInv, InOrder, NEW i \in Ranks, LeaveForward(i), faults \in Nat, faults' = faults
  PROVE  /\ Ordinary(i)' /\ Due(rank'[i]) = Due(rank[i]) /\ Passed(rank'[i]) = Passed(rank[i]) /\ Passed(rank[i]) \in Nat \ {0}
         /\ (Through(rank[i]) => Through(rank'[i])) /\ rank'[i].pc \in {"prefill", "decide", "accept"}
         /\ (rank'[i].pc = "prefill" <=> rank[i].pc = "prefill")
         /\ rank'[i].req = rank[i].req /\ rank'[i].snap = rank[i].snap /\ rank'[i].spec = rank[i].spec
         /\ UNCHANGED <<proc, entered, aborted, chan, back, requests>>
         /\ rank[i].pc \in Forwards /\ rank'[i].gathered = rank[i].gathered
         /\ \A s \in Slots : IF rank[i].snap = <<s>> /\ rank'[i].chunk # rank[i].chunk
                             THEN (snaps'[i][s] # None) = (rank'[i].chunk = Chunks \/ snaps[i][s] # None)
                             ELSE snaps'[i][s] = snaps[i][s]
         /\ rank'[i].chunk # rank[i].chunk => rank[i].chunk # Chunks
         /\ \A j \in Ranks \ {i} : rank'[j] = rank[j] /\ snaps'[j] = snaps[j]
<1>1. TypeOK /\ Lockstep /\ Ordinary(i)
  BY Orderly DEF InOrder
<1>2. rank[i] \in Generations /\ WellFormed(rank[i]) /\ rank[i].chunk \in 0..Chunks /\ Chunks \in Nat \ {0} /\ kv[i] \in Seq(Int)
      /\ rank[i].inside
  BY <1>1, RankTypes, ClusterAssumption DEF LeaveForward
<1>3. /\ TypeOK' /\ rank'[i].req = rank[i].req /\ rank'[i].tokens = rank[i].tokens /\ rank'[i].snap = rank[i].snap
      /\ rank'[i].spec = rank[i].spec /\ rank'[i].ok = rank[i].ok /\ rank'[i].inside = FALSE
      /\ rank'[i].gathered = rank[i].gathered
      /\ \A j \in Ranks \ {i} : rank'[j] = rank[j] /\ snaps'[j] = snaps[j]
  <2>1. TypeOK'
    BY <1>1, LeaveForwardDoes
  <2>2. /\ rank'[i].req = rank[i].req /\ rank'[i].tokens = rank[i].tokens /\ rank'[i].snap = rank[i].snap
        /\ rank'[i].spec = rank[i].spec /\ rank'[i].ok = rank[i].ok /\ rank'[i].inside = FALSE
        /\ rank'[i].gathered = rank[i].gathered
    BY <1>1, LeaveForwardDoes
  <2>3. ASSUME NEW j \in Ranks \ {i} PROVE rank'[j] = rank[j] /\ snaps'[j] = snaps[j]
    BY <1>1, <2>3 DEF LeaveForward, TypeOK
  <2> QED  BY <2>1, <2>2, <2>3
<1>4. rank'[i] \in Generations /\ WellFormed(rank'[i])
  BY <1>3, RankTypes DEF TypeOK
<1>5. UNCHANGED <<proc, entered, aborted, chan, back, requests>>
  BY DEF LeaveForward, links, counts
<1>6. CASE rank[i].pc = "prefill"
  <2>1. /\ rank'[i].pc = "prefill" /\ rank[i].chunk < Chunks /\ rank'[i].chunk = rank[i].chunk + 1
        /\ saveable'[i] = TRUE
        /\ IF rank[i].chunk + 1 = Chunks
           THEN /\ kv'[i] = Append(kv[i], - rank[i].req)
                /\ rank[i].snap = None => snaps' = snaps
                /\ rank[i].snap # None => \A s \in Slots : s # rank[i].snap[1] => snaps'[i][s] = snaps[i][s]
           ELSE kv' = kv /\ snaps' = snaps
    BY <1>1, <1>6, LeaveForwardDoes
  <2>2. rank[i].chunk \in Nat /\ rank[i].tokens = <<>>
    BY <1>2, <1>6 DEF WellFormed
  <2>3. Passed(rank'[i]) = Passed(rank[i]) /\ Passed(rank[i]) \in Nat \ {0} /\ (Through(rank[i]) => Through(rank'[i]))
    BY <1>2, <1>3, <1>4, <1>6, <2>1, <2>2, PassedIs
  <2>4. Due(rank'[i]) = Due(rank[i])
    BY <1>3, <1>6, <2>1 DEF Due
  <2>5. rank'[i].chunk = Chunks => kv'[i] # <<>>
    <3>1. Append(kv[i], - rank[i].req) # <<>>
      BY <1>2
    <3> QED  BY <2>1, <3>1
  <2>6. Normal(rank'[i], saveable'[i])
    BY <1>1, <1>3, <1>6, <2>1, <2>2 DEF Ordinary, Normal
  <2>7. Ordinary(i)'
    BY <1>1, <1>5, <2>5, <2>6 DEF Ordinary, Up
  <2>8. ASSUME NEW s \in Slots
        PROVE  IF rank[i].snap = <<s>> /\ rank'[i].chunk # rank[i].chunk
               THEN (snaps'[i][s] # None) = (rank'[i].chunk = Chunks \/ snaps[i][s] # None)
               ELSE snaps'[i][s] = snaps[i][s]
    <3>1. rank[i].snap \in SlotOrNone
      BY <1>1, RankTypes
    <3>2. rank'[i].chunk # rank[i].chunk
      BY <2>1, <2>2
    <3>3. CASE rank[i].snap = <<s>>
      <4>1. rank[i].snap # None /\ rank[i].snap[1] = s
        BY <3>3 DEF None
      <4>2. rank[i].chunk + 1 = Chunks => snaps'[i][s] # None
        BY <1>1, <1>6, <4>1, SavedBy
      <4>3. rank[i].chunk + 1 # Chunks => snaps' = snaps
        BY <2>1
      <4> QED  BY <2>1, <3>2, <3>3, <4>2, <4>3
    <3>4. CASE rank[i].snap # <<s>>
      <4>1. rank[i].snap # None => rank[i].snap[1] # s
        BY <3>1, <3>4 DEF SlotOrNone
      <4> QED  BY <2>1, <3>4, <4>1
    <3> QED  BY <3>3, <3>4
  <2>9. rank'[i].chunk # rank[i].chunk => rank[i].chunk # Chunks
    BY <2>1, <2>2
  <2> QED  BY <1>3, <1>5, <1>6, <2>1, <2>3, <2>4, <2>7, <2>8, <2>9 DEF Forwards
<1>7. CASE rank[i].pc = "forward"
  <2>1. /\ rank'[i].pc = "decide" /\ rank'[i].chunk = rank[i].chunk
        /\ kv'[i] = Append(kv[i], Last(rank[i].tokens)) /\ snaps' = snaps /\ saveable'[i] = FALSE
    BY <1>1, <1>7, LeaveForwardDoes
  <2>2. rank[i].tokens # <<>>
    BY <1>2, <1>7 DEF WellFormed
  <2>3. Passed(rank'[i]) = Passed(rank[i]) /\ Passed(rank[i]) \in Nat \ {0} /\ Through(rank'[i])
    BY <1>2, <1>3, <1>4, <1>7, <2>1, <2>2, PassedIs
  <2>4. Due(rank'[i]) = Due(rank[i])
    BY <1>3, <1>7, <2>1 DEF Due
  <2>5. kv'[i] # <<>>
    <3>1. TypeOK' /\ kv[i] \in Seq(Int) /\ Last(rank[i].tokens) \in Int
      BY <1>2, <1>3, <2>2, TokensInt, FrontLast DEF Generations
    <3>2. Append(kv[i], Last(rank[i].tokens)) # <<>>
      BY <3>1
    <3> QED  BY <2>1, <3>2
  <2>6. Normal(rank'[i], saveable'[i])
    BY <1>1, <1>3, <1>7, <2>1, <2>2 DEF Ordinary, Normal
  <2>7. Ordinary(i)'
    BY <1>1, <1>5, <2>5, <2>6 DEF Ordinary, Up
  <2> QED  BY <1>3, <1>5, <1>7, <2>1, <2>3, <2>4, <2>7 DEF Forwards
<1>8. CASE rank[i].pc = "verify"
  <2>1. /\ rank'[i].pc = "accept" /\ rank'[i].chunk = rank[i].chunk
        /\ kv' = kv /\ snaps' = snaps /\ saveable'[i] = saveable[i]
    BY <1>1, <1>8, LeaveForwardDoes
  <2>2. rank[i].tokens # <<>>
    BY <1>2, <1>8 DEF WellFormed
  <2>3. Passed(rank'[i]) = Passed(rank[i]) /\ Passed(rank[i]) \in Nat \ {0} /\ Through(rank'[i])
    BY <1>2, <1>3, <1>4, <1>8, <2>1, <2>2, PassedIs
  <2>4. Due(rank'[i]) = Due(rank[i])
    BY <1>3, <1>8, <2>1 DEF Due
  <2>6. Normal(rank'[i], saveable'[i])
    BY <1>1, <1>3, <1>8, <2>1, <2>2 DEF Ordinary, Normal
  <2>7. Ordinary(i)'
    BY <1>1, <1>5, <2>1, <2>6 DEF Ordinary, Up
  <2> QED  BY <1>3, <1>5, <1>8, <2>1, <2>3, <2>4, <2>7 DEF Forwards
<1> QED  BY <1>2, <1>6, <1>7, <1>8 DEF WellFormed, Forwards

LEMMA WorkerLeaveInOrder ==
  ASSUME ClusterInv, InOrder, NEW w \in Workers, LeaveForward(w), faults \in Nat, faults' = faults
  PROVE  InOrder'
<1>1. TypeOK /\ w \in Ranks /\ 0 \in Ranks \ {w} /\ InStride(w)
  BY RankZero, Orderly DEF InOrder
<1>2. /\ Ordinary(w)' /\ Due(rank'[w]) = Due(rank[w]) /\ Passed(rank'[w]) = Passed(rank[w]) /\ Passed(rank[w]) \in Nat \ {0}
      /\ (Through(rank[w]) => Through(rank'[w])) /\ rank'[w].pc \in {"prefill", "decide", "accept"}
      /\ rank'[w].req = rank[w].req /\ rank'[w].snap = rank[w].snap /\ rank'[w].spec = rank[w].spec
      /\ UNCHANGED <<proc, entered, aborted, chan, back, requests>>
      /\ rank[w].pc \in Forwards
      /\ \A s \in Slots : IF rank[w].snap = <<s>> /\ rank'[w].chunk # rank[w].chunk
                          THEN (snaps'[w][s] # None) = (rank'[w].chunk = Chunks \/ snaps[w][s] # None)
                          ELSE snaps'[w][s] = snaps[w][s]
      /\ rank'[w].chunk # rank[w].chunk => rank[w].chunk # Chunks
      /\ rank'[0] = rank[0] /\ snaps'[0] = snaps[0]
  BY <1>1, LeaveInOrder
<1>3. /\ Busy /\ Runs(w) /\ rank[w].snap = rank[0].snap
      /\ \A m \in Range(chan[w]) : m.type # "Op"
      /\ \A s \in Slots : \A k \in DOMAIN chan[w] : ~OpOn(chan[w][k], s)
  BY <1>2, AtItsRequest DEF Forwards
<1>4. Script(w)'
  BY <1>1, <1>2 DEF InStride, Script
<1>5. Pace(w)'
  BY <1>1, <1>2 DEF InStride, Pace, InPace
<1>6. Current(w)'
  BY <1>1, <1>2, <1>3 DEF InStride, Current, Runs, Reported, Busy
<1>7. SlotsAlike(w)'
  <2> SUFFICES ASSUME NEW s \in Slots PROVE WillHave(chan[w], snaps[w][s] # None, s, There(w, s))'
    BY DEF SlotsAlike
  <2>1. WillHave(chan[w], snaps[w][s] # None, s, There(w, s))
    BY <1>1 DEF InStride, SlotsAlike
  <2>2. (snaps[w][s] # None) = There(w, s)
    BY <1>3, <2>1, SlotsAsTheyAre
  <2>3. (snaps'[w][s] # None) = There(w, s)'
    <3>1. Busy' /\ Runs(w)'
      BY <1>2, <1>3 DEF Busy, Runs
    <3>2. CASE rank[0].snap = <<s>>
      <4>1. There(w, s) = (rank[w].chunk = Chunks) /\ There(w, s)' = (rank'[w].chunk = Chunks)
        BY <1>2, <1>3, <3>1, <3>2 DEF There
      <4> QED  BY <1>2, <1>3, <2>2, <3>2, <4>1
    <3>3. CASE rank[0].snap # <<s>>
      <4>1. There(w, s) = (snaps[0][s] # None) /\ There(w, s)' = (snaps[0][s] # None)
        BY <1>2, <1>3, <3>1, <3>3 DEF There
      <4> QED  BY <1>2, <1>3, <2>2, <3>3, <4>1
    <3> QED  BY <3>2, <3>3
  <2> QED  BY <1>2, <1>3, <2>3, SlotsAsTheyAre
<1> QED  BY <1>2, <1>4, <1>5, <1>6, <1>7, WorkerInOrder DEF Compute

LEMMA WorkerStartDecodeInOrder ==
  ASSUME ClusterInv, InOrder, NEW w \in Workers, StartDecode(w)
  PROVE  InOrder'
<1>1. TypeOK /\ Lockstep /\ w \in Ranks /\ 0 \in Ranks \ {w} /\ InStride(w) /\ Ordinary(w)
  BY RankZero, Orderly DEF InOrder
<1>2. /\ TypeOK' /\ UNCHANGED <<kv, saveable, snaps, proc, entered, aborted, chan, back, requests>>
      /\ rank'[0] = rank[0] /\ rank[w].pc = "prefill" /\ rank'[w].pc = "decide" /\ rank[w].chunk = Chunks
      /\ ~rank[w].inside /\ rank'[w].req = rank[w].req /\ rank'[w].tokens = rank[w].tokens
      /\ rank'[w].snap = rank[w].snap /\ rank'[w].chunk = rank[w].chunk /\ rank'[w].ok = rank[w].ok
      /\ rank'[w].spec = rank[w].spec
  BY <1>1, StartDecodeDoes
<1>3. rank[w] \in Generations /\ WellFormed(rank[w]) /\ rank'[w] \in Generations /\ WellFormed(rank'[w])
  BY <1>1, <1>2, RankTypes DEF TypeOK
<1>4. Passed(rank'[w]) = Passed(rank[w]) /\ Through(rank'[w])
  <2>1. rank[w].tokens = <<>> /\ rank[w].chunk \in Nat
    BY <1>2, <1>3, ClusterAssumption DEF WellFormed
  <2>2. Passed(rank[w]) = Chunks
    BY <1>2, <1>3, <2>1, PassedIs
  <2> QED  BY <1>2, <1>3, <2>1, <2>2, PassedIs
<1>5. Due(rank'[w]) = Due(rank[w])
  BY <1>2 DEF Due
<1>6. Script(w)'
  BY <1>1, <1>2, <1>5 DEF InStride, Script
<1>7. Pace(w)'
  BY <1>1, <1>2, <1>4 DEF InStride, Pace, InPace
<1>8. Current(w)'
  BY <1>1, <1>2 DEF InStride, Current, Runs, Reported, Busy
<1>9. SlotsAlike(w)'
  BY <1>1, <1>2 DEF InStride, SlotsAlike, There, Busy, Runs
<1>10. Ordinary(w)'
  BY <1>1, <1>2 DEF Ordinary, Normal, Up
<1> QED  BY <1>2, <1>6, <1>7, <1>8, <1>9, <1>10, WorkerInOrder DEF Compute

-----------------------------------------------------------------------------
(* The frames of a worker.                                                 *)

(* What it reads next. *)
LEMMA NextFrame ==
  ASSUME ClusterInv, InOrder, NEW w \in Workers, chan[w] # <<>>
  PROVE  /\ chan[w] \in Seq(Frames) /\ Tail(chan[w]) \in Seq(Frames)
         /\ Head(chan[w]) \in Frames /\ Head(chan[w]) \in Range(chan[w])
         /\ Range(Tail(chan[w])) \subseteq Range(chan[w])
         /\ \A m \in Range(chan[w]) : m = Head(chan[w]) \/ m \in Range(Tail(chan[w]))
         /\ Takes(Head(chan[w])) = Due(rank[w])
         /\ Lead(LeadsTo(Head(chan[w]), rank[0].spec), Tail(chan[w]), rank[0].spec, Due(rank[0]))
         /\ Head(chan[w]).type \notin {"Abort", "Shutdown"}
<1>1. chan[w] \in Seq(Frames) /\ InStride(w)
  BY Orderly DEF TypeOK, InOrder
<1>2. PICK f \in Seq(Frames) : f = chan[w] /\ f # <<>>
  BY <1>1
<1>3. /\ Tail(f) \in Seq(Frames) /\ Head(f) \in Frames /\ Head(f) \in Range(f) /\ Range(Tail(f)) \subseteq Range(f)
      /\ \A k \in DOMAIN f : k = 1 \/ (k - 1 \in DOMAIN Tail(f) /\ f[k] = Tail(f)[k - 1])
      /\ Head(f) = f[1]
  BY <1>2, TailProps
<1>4. \A m \in Range(f) : m = Head(f) \/ m \in Range(Tail(f))
  BY <1>3 DEF Range
<1>5. Takes(Head(f)) = Due(rank[w]) /\ Lead(LeadsTo(Head(f), rank[0].spec), Tail(f), rank[0].spec, Due(rank[0]))
  BY <1>1, <1>2, LeadTail DEF InStride, Script
<1>6. Head(f).type \notin {"Abort", "Shutdown"}
  BY <1>1, <1>2, <1>3 DEF InStride, Current
<1> QED  BY <1>2, <1>3, <1>4, <1>5, <1>6

(* It reads the frame that leads to where it goes. *)
LEMMA ReadsInOrder ==
  ASSUME ClusterInv, InOrder, NEW w \in Workers, WorkerStep(w), chan[w] # <<>>, Consumes(w), TypeOK', Ordinary(w)',
         rank'[w].pc # "gather", Due(rank'[w]) = LeadsTo(Head(chan[w]), rank[0].spec), Passed(rank'[w]) = 0,
         entered' = entered, Current(w)', SlotsAlike(w)'
  PROVE  InOrder'
<1>1. TypeOK /\ w \in Ranks /\ 0 \in Ranks \ {w} /\ InStride(w)
  BY RankZero, Orderly DEF InOrder
<1>2. rank'[0] = rank[0] /\ chan'[w] = Tail(chan[w])
  BY <1>1, WorkerLeaves, ConsumesProps
<1>3. Script(w)'
  BY <1>2, NextFrame DEF Script
<1>4. Pace(w)'
  <2>1. PICK f, h, r, q, lead : /\ f = chan[w] /\ h = rank[0] /\ r = rank[w] /\ q = rank'[w]
                                /\ lead = entered[0] - entered[w]
    OBVIOUS
  <2>2. h \in Generations /\ WellFormed(h) /\ q \in Generations /\ WellFormed(q)
    BY <1>1, <2>1, RankTypes DEF TypeOK
  <2>3. f \in Seq(Frames) /\ f # <<>> /\ InPace(f, h, r, lead)
    BY <1>1, <2>1 DEF TypeOK, InStride, Pace
  <2>4. Lead(Due(q), Tail(f), rank[0].spec, Due(h))
    BY <2>1, NextFrame
  <2>5. InPace(Tail(f), h, q, lead)
    BY <2>1, <2>2, <2>3, <2>4, PassedIs, PaceReads
  <2>6. chan'[w] = Tail(f) /\ rank'[0] = h /\ entered'[0] - entered'[w] = lead
    BY <1>2, <2>1
  <2> QED  BY <2>1, <2>5, <2>6 DEF Pace
<1> QED  BY <1>3, <1>4, WorkerInOrder

LEMMA WorkerOpInOrder ==
  ASSUME ClusterInv, InOrder, NEW w \in Workers, WorkerOp(w), faults \in Nat, faults' = faults
  PROVE  InOrder'
<1> DEFINE m == Head(chan[w])
<1>1. TypeOK /\ w \in Ranks /\ 0 \in Ranks \ {w} /\ InStride(w) /\ Ordinary(w)
  BY RankZero, Orderly DEF InOrder
<1>2. chan[w] # <<>> /\ rank[w].pc = "idle" /\ m.type = "Op" /\ UNCHANGED <<rank, kv, saveable, entered, requests>>
  BY DEF WorkerOp, Reads, counts
<1>3. m \in SnapshotOps /\ m \in Range(chan[w])
  BY <1>2, NextFrame, FrameKinds
<1>4. m.slot \in Slots /\ m.save \in BOOLEAN /\ (m.save => saveable[w])
  BY <1>1, <1>2, <1>3 DEF SnapshotOps, InStride, Current
<1>5. \E saved \in BOOLEAN :
        /\ IF m.save /\ ~(saved /\ saveable[w]) THEN TRUE
           ELSE /\ snaps' = [snaps EXCEPT ![w][m.slot] = IF m.save THEN kv[w] ELSE None]
                /\ Consumes(w) /\ UNCHANGED <<proc, aborted, back>>
        /\ Fault(~saved)
  BY DEF WorkerOp, SaveResults
<1>6. /\ snaps' = [snaps EXCEPT ![w][m.slot] = IF m.save THEN kv[w] ELSE None]
      /\ Consumes(w) /\ UNCHANGED <<proc, aborted, back>>
  <2>1. PICK saved \in BOOLEAN :
        /\ IF m.save /\ ~(saved /\ saveable[w]) THEN TRUE
           ELSE /\ snaps' = [snaps EXCEPT ![w][m.slot] = IF m.save THEN kv[w] ELSE None]
                /\ Consumes(w) /\ UNCHANGED <<proc, aborted, back>>
        /\ Fault(~saved)
    BY <1>5
  <2>2. faults = faults + (IF ~saved THEN 1 ELSE 0)
    BY <2>1 DEF Fault
  <2>3. saved = TRUE
    BY <2>2
  <2> QED  BY <1>4, <2>1, <2>3
<1> HIDE DEF m
<1>7. chan'[w] = Tail(chan[w]) /\ snaps'[0] = snaps[0]
  BY <1>1, <1>2, <1>6, ConsumesProps DEF TypeOK
<1>8. m.save => kv[w] # <<>>
  <2>1. saveable[w] => rank[w].tokens # <<>>
    <3>1. Len(<<>>) # 1
      OBVIOUS
    <3> QED  BY <1>1, <1>2, <3>1 DEF Ordinary, Normal
  <2> QED  BY <1>1, <1>4, <2>1 DEF Ordinary, Normal
<1>9. ASSUME NEW s \in Slots
      PROVE  (snaps'[w][s] # None) = IF OpOn(m, s) THEN m.save ELSE snaps[w][s] # None
  <2>1. PICK p, x : p = m.slot /\ x = (IF m.save THEN kv[w] ELSE None) /\ p \in Slots
    BY <1>4
  <2>2. snaps' = [snaps EXCEPT ![w][p] = x]
    BY <1>6, <2>1
  <2>3. snaps'[w][s] = IF s = p THEN x ELSE snaps[w][s]
    BY <1>1, <2>1, <2>2 DEF TypeOK
  <2>4. OpOn(m, s) <=> s = p
    BY <1>2, <2>1 DEF OpOn, m
  <2>5. (x # None) = m.save
    BY <1>4, <1>8, <2>1 DEF None
  <2> QED  BY <2>3, <2>4, <2>5
<1>10. SlotsAlike(w)'
  <2>1. \A s \in Slots : There(w, s)' = There(w, s)
    BY <1>2, <1>7 DEF There, Busy, Runs
  <2> QED  BY <1>1, <1>2, <1>7, <1>9, <2>1, SlotsRead DEF InStride, m
<1>11. Current(w)'
  <2>1. /\ Range(chan'[w]) \subseteq Range(chan[w])
        /\ \A x \in Range(chan[w]) : x = m \/ x \in Range(chan'[w])
    BY <1>2, <1>7, NextFrame DEF m
  <2>2. m.type # "Request"
    BY <1>2 DEF m
  <2>3. (\A x \in Range(chan'[w]) : x.type # "Request") <=> (\A x \in Range(chan[w]) : x.type # "Request")
    BY <2>1, <2>2
  <2> QED  BY <1>1, <1>2, <1>6, <2>1, <2>3 DEF InStride, Current, Runs, Reported, Busy
<1>12. Ordinary(w)'
  BY <1>1, <1>2, <1>6 DEF Ordinary, Up
<1>13. TypeOK'
  BY WorkerSteps DEF ClusterInv, WorkerStep
<1>14. Due(rank'[w]) = LeadsTo(m, rank[0].spec)
  BY <1>2 DEF Due, LeadsTo, m
<1>15. Passed(rank'[w]) = 0
  BY <1>2 DEF Passed, Forwards
<1> QED  BY <1>2, <1>6, <1>10, <1>11, <1>12, <1>13, <1>14, <1>15, ReadsInOrder DEF WorkerStep, m

LEMMA WorkerStartInOrder ==
  ASSUME ClusterInv, InOrder, NEW w \in Workers, WorkerStart(w)
  PROVE  InOrder'
<1> DEFINE m == Head(chan[w])
<1>1. TypeOK /\ w \in Ranks /\ 0 \in Ranks \ {w} /\ InStride(w) /\ Ordinary(w) /\ Chunks \in Nat \ {0} /\ NGen \in Nat \ {0}
  BY RankZero, Orderly, ClusterAssumption DEF InOrder
<1>2. chan[w] # <<>> /\ rank[w].pc = "idle" /\ ~rank[w].inside /\ m.type = "Request" /\ Begin(w, m) /\ Consumes(w)
      /\ UNCHANGED <<snaps, proc, entered, aborted, back, requests>>
  BY DEF WorkerStart, Reads, counts
<1>3. m \in Starts /\ m \in Range(chan[w]) /\ chan'[w] = Tail(chan[w]) /\ chan[w] \in Seq(Frames)
  BY <1>1, <1>2, NextFrame, FrameKinds, ConsumesProps
<1> HIDE DEF m
<1>4. Busy
  BY <1>1, <1>2, <1>3 DEF InStride, Current, m
<1>5. PICK begun \in Seq(Int) : HeadHolds(begun) /\ Follows(w, begun)
  BY <1>4, Orderly DEF Together
<1>6. /\ m.req = requests /\ ~Runs(w) /\ m.snap = rank[0].snap
      /\ m.restore # None => m.restore # m.snap /\ snaps[0][m.restore[1]] # None
  BY <1>2, <1>3, <1>5 DEF Follows, FramesRight, FrameRight, m
<1>7. m.spec = rank[0].spec
  BY <1>1, <1>2, <1>3 DEF InStride, Current, m
<1>8. \A k \in DOMAIN chan[w] : chan[w][k].type # "Op" /\ (k > 1 => chan[w][k].type # "Request")
  <2>1. 1 \in DOMAIN chan[w] /\ chan[w][1].type = "Request"
    BY <1>2, <1>3 DEF m
  <2>2. \A l \in DOMAIN chan[w] : 1 < l => chan[w][l].type \notin {"Request", "Op"}
    BY <1>5, <2>1 DEF Follows, FramesRight
  <2>3. \A l \in DOMAIN chan[w] : l = 1 \/ (1 < l /\ l > 1)
    BY <1>3
  <2> QED  BY <2>1, <2>2, <2>3
<1>9. \A x \in Range(chan'[w]) : x.type # "Op" /\ x.type # "Request"
  <2>1. PICK f \in Seq(Frames) : f = chan[w] /\ f # <<>>
    BY <1>2, <1>3
  <2>2. \A k \in DOMAIN Tail(f) : k + 1 \in DOMAIN f /\ k + 1 > 1 /\ Tail(f)[k] = f[k + 1]
    BY <2>1
  <2>3. \A k \in DOMAIN Tail(f) : Tail(f)[k].type # "Op" /\ Tail(f)[k].type # "Request"
    BY <1>8, <2>1, <2>2
  <2> QED  BY <1>3, <2>1, <2>3 DEF Range
<1>10. \A s \in Slots : (\A k \in DOMAIN chan[w] : ~OpOn(chan[w][k], s)) /\ (\A k \in DOMAIN chan'[w] : ~OpOn(chan'[w][k], s))
  BY <1>8, <1>9 DEF OpOn, Range
<1>11. \A s \in Slots : (snaps[w][s] # None) = There(w, s)
  BY <1>1, <1>10, SlotsAsTheyAre DEF InStride, SlotsAlike
<1>12. m.restore # None => snaps[w][m.restore[1]] # None
  <2> SUFFICES ASSUME m.restore # None PROVE snaps[w][m.restore[1]] # None
    OBVIOUS
  <2>1. PICK s \in Slots : m.restore = <<s>>
    BY <1>3 DEF Starts, SlotOrNone
  <2>2. m.restore[1] = s /\ rank[0].snap # <<s>>
    BY <1>6, <2>1
  <2>3. There(w, s)
    BY <1>6, <2>2 DEF There
  <2> QED  BY <1>11, <2>2, <2>3
<1>13. /\ rank'[0] = rank[0] /\ rank'[w].req = m.req /\ rank'[w].chunk = 0 /\ rank'[w].inside = FALSE
       /\ rank'[w].snap = m.snap /\ rank'[w].tokens = <<>> /\ rank'[w].spec = m.spec
       /\ rank'[w].pc = "prefill" /\ rank'[w].ok = TRUE
  BY <1>1, <1>2, <1>3, <1>12, BeginProps
<1>14. requests > 0 /\ requests \in Nat
  <2>1. rank[w].req \in Nat /\ rank[w].req <= requests /\ rank[w].req # requests /\ requests \in Nat
    BY <1>1, <1>6, RankTypes, Orderly DEF Known, Runs, TypeOK
  <2> QED  BY <2>1
<1>15. Ordinary(w)'
  BY <1>1, <1>2, <1>6, <1>13, <1>14 DEF Ordinary, Normal, Up
<1>16. Runs(w)' /\ Busy' /\ rank'[w].spec = rank'[0].spec
  BY <1>2, <1>4, <1>6, <1>7, <1>13 DEF Runs, Busy
<1>17. Current(w)'
  <2>1. Range(chan'[w]) \subseteq Range(chan[w])
    BY <1>2, <1>3, NextFrame
  <2> QED  BY <1>1, <1>2, <1>9, <1>13, <1>16, <2>1 DEF InStride, Current, Reported
<1>18. SlotsAlike(w)'
  <2> SUFFICES ASSUME NEW s \in Slots PROVE WillHave(chan[w], snaps[w][s] # None, s, There(w, s))'
    BY DEF SlotsAlike
  <2>1. There(w, s)' = There(w, s)
    BY <1>1, <1>2, <1>4, <1>6, <1>13, <1>16 DEF There
  <2> QED  BY <1>2, <1>10, <1>11, <2>1, SlotsAsTheyAre
<1>19. TypeOK'
  BY WorkerSteps DEF ClusterInv, WorkerStep
<1>20. Due(rank'[w]) = LeadsTo(m, rank[0].spec)
  <2>1. Len(<<>>) = 0
    OBVIOUS
  <2> QED  BY <1>2, <1>13, <2>1 DEF Due, LeadsTo, m
<1>21. Passed(rank'[w]) = 0
  BY <1>13 DEF Passed, Forwards
<1> QED  BY <1>2, <1>13, <1>15, <1>17, <1>18, <1>19, <1>20, <1>21, ReadsInOrder DEF WorkerStep, m

LEMMA WorkerEndInOrder ==
  ASSUME ClusterInv, InOrder, NEW w \in Workers, WorkerEnd(w)
  PROVE  InOrder'
<1> DEFINE m == Head(chan[w])
<1>1. TypeOK /\ w \in Ranks /\ 0 \in Ranks \ {w} /\ InStride(w) /\ Ordinary(w) /\ ~closed(w)
  BY RankZero, Orderly DEF InOrder
<1>2. chan[w] # <<>> /\ rank[w].pc = "end" /\ ~rank[w].inside /\ Reads(w)
      /\ UNCHANGED <<kv, saveable, snaps, entered, requests>>
  BY DEF WorkerEnd, Reads, counts, data
<1>3. /\ m.type = "RequestEnd" /\ m.ok /\ rank[w].ok /\ rank[w].req = m.req /\ Len(rank[w].tokens) = m.steps
      /\ m \in Range(chan[w])
  BY <1>2, OrderEndsAlike, NextFrame
<1>4. /\ rank' = [rank EXCEPT ![w].pc = "idle"] /\ Consumes(w) /\ UNCHANGED <<proc, aborted>>
      /\ back' = [back EXCEPT ![w] = Append(@, [type |-> "Report", req |-> rank[w].req])]
  BY <1>1, <1>3 DEF WorkerEnd, Diverged
<1> HIDE DEF m
<1>5. /\ Busy /\ Runs(w) /\ rank[0].req = requests /\ rank[w].spec = rank[0].spec
      /\ (\A x \in Range(chan[w]) : x.type # "Op" /\ x.type # "Request")
      /\ (\A s \in Slots : \A k \in DOMAIN chan[w] : ~OpOn(chan[w][k], s))
      /\ ~Reported(w) /\ back[w] = <<>>
  BY <1>2, AtItsRequest
<1>6. chan'[w] = Tail(chan[w])
  BY <1>1, <1>2, <1>4, ConsumesProps
<1>7. rank[0].pc = "gather"
  <2>1. PICK begun \in Seq(Int) : Follows(w, begun)
    BY <1>5, Orderly DEF Together
  <2> QED  BY <1>3, <1>5, <2>1 DEF Follows, FramesRight, FrameRight, Runs
<1>8. /\ rank'[0] = rank[0] /\ rank'[w].pc = "idle" /\ rank'[w].req = rank[w].req /\ rank'[w].tokens = rank[w].tokens
      /\ rank'[w].spec = rank[w].spec /\ rank'[w].snap = rank[w].snap /\ rank'[w].chunk = rank[w].chunk
      /\ rank'[w].ok = rank[w].ok /\ rank'[w].inside = rank[w].inside
  <2>1. rank'[0] = rank[0] /\ rank'[w] = [rank[w] EXCEPT !.pc = "idle"]
    BY <1>1, <1>4 DEF TypeOK
  <2>2. PICK r, q : r \in Generations /\ r = rank[w] /\ q = rank'[w] /\ q = [r EXCEPT !.pc = "idle"]
    BY <1>1, <2>1, RankTypes
  <2>3. q.pc = "idle" /\ q.req = r.req /\ q.tokens = r.tokens /\ q.spec = r.spec /\ q.snap = r.snap /\ q.chunk = r.chunk
        /\ q.ok = r.ok /\ q.inside = r.inside
    BY <2>2 DEF Generations
  <2> QED  BY <2>1, <2>2, <2>3
<1>9. back'[w] = <<[type |-> "Report", req |-> requests]>> /\ [type |-> "Report", req |-> requests] \in Range(back'[w])
  <2>1. back'[w] = Append(back[w], [type |-> "Report", req |-> rank[w].req])
    BY <1>1, <1>4 DEF TypeOK
  <2>2. rank[w].req = requests
    BY <1>5 DEF Runs
  <2>3. PICK x : x = [type |-> "Report", req |-> requests]
    OBVIOUS
  <2>4. back'[w] = Append(<<>>, x)
    BY <1>5, <2>1, <2>2, <2>3
  <2>5. Append(<<>>, x) = <<x>> /\ x \in Range(<<x>>)
    BY DEF Range
  <2> QED  BY <2>3, <2>4, <2>5
<1>10. Ordinary(w)'
  BY <1>1, <1>2, <1>4, <1>8 DEF Ordinary, Normal, Up
<1>11. Range(chan'[w]) \subseteq Range(chan[w])
  BY <1>2, <1>6, NextFrame
<1>12. Runs(w)' /\ Busy' /\ w \notin rank[0].gathered
  BY <1>2, <1>5, <1>8 DEF Runs, Busy, Reported
<1>13. Reported(w)'
  BY <1>2, <1>9 DEF Reported
<1>14. Current(w)'
  BY <1>1, <1>2, <1>5, <1>7, <1>8, <1>9, <1>11, <1>12, <1>13 DEF InStride, Current
<1>15. SlotsAlike(w)'
  <2>1. Head(chan[w]).type # "Op"
    BY <1>3 DEF m
  <2>2. \A s \in Slots : There(w, s)' = There(w, s) /\ ~OpOn(Head(chan[w]), s)
    BY <1>2, <1>5, <1>8, <1>12, <2>1 DEF There, OpOn
  <2> QED  BY <1>1, <1>2, <1>6, <2>2, SlotsRead DEF InStride
<1>16. TypeOK'
  BY WorkerSteps DEF ClusterInv, WorkerStep
<1>17. Due(rank'[w]) = LeadsTo(m, rank[0].spec)
  BY <1>3, <1>8 DEF Due, LeadsTo
<1>18. Passed(rank'[w]) = 0
  BY <1>8 DEF Passed, Forwards
<1> QED  BY <1>2, <1>4, <1>8, <1>10, <1>14, <1>15, <1>16, <1>17, <1>18, ReadsInOrder DEF WorkerStep, m

(* The tokens of its frame adopted. *)
LEMMA AdoptsInOrder ==
  ASSUME TypeOK, NEW i \in Ranks, Ordinary(i), ~rank[i].inside, NEW d \in Decisions,
         rank[i].pc \in {"decide", "draft", "accept"}, d.type = FrameOf[rank[i].pc], d.step = Len(rank[i].tokens),
         d.type = "Draft" /\ d.stop => d.step > 1, Adopt(i, d, d.tokens), UNCHANGED <<proc, aborted>>
  PROVE  /\ Ordinary(i)' /\ Due(rank'[i]) = LeadsTo(d, rank[i].spec) /\ Passed(rank'[i]) = 0
         /\ rank'[i].pc \in {"forward", "draft", "verify", "end"}
         /\ rank'[i].req = rank[i].req /\ rank'[i].chunk = rank[i].chunk /\ rank'[i].snap = rank[i].snap
         /\ rank'[i].spec = rank[i].spec /\ rank'[i].ok
         /\ \A j \in Ranks \ {i} : rank'[j] = rank[j]
<1>1. NGen \in Nat /\ \A t \in Tokens : <<t>> # <<>>
  BY ClusterAssumption
<1>2. /\ d.type = "Decision" <=> rank[i].pc = "decide"
      /\ d.type = "Draft" <=> rank[i].pc = "draft"
      /\ d.type = "Accept" <=> rank[i].pc = "accept"
      /\ d.type \in {"Decision", "Draft", "Accept"}
  BY DEF FrameOf
<1>3. /\ d.tokens \in Seq(Tokens) /\ d.stop \in BOOLEAN /\ d.step \in Nat
      /\ d.type = "Decision" => \E t \in Tokens : d.tokens = <<t>>
      /\ d.type = "Draft" => d.tokens = <<>>
      /\ d.type = "Accept" => d.tokens # <<>>
  BY DecisionKinds
<1>4. PICK kept \in Seq(Tokens) : kept = d.tokens
  BY <1>3
<1>5. Adopt(i, d, kept) /\ (rank[i].pc # "draft" => kept # <<>>) /\ (d.type = "Accept" => rank[i].pc = "accept")
  BY <1>1, <1>2, <1>3, <1>4
<1>6. /\ rank' \in [Ranks -> Generations] /\ \A j \in Ranks : WellFormed(rank'[j])
      /\ rank'[i].tokens = rank[i].tokens \o kept
      /\ rank'[i].req = rank[i].req /\ rank'[i].chunk = rank[i].chunk
      /\ rank'[i].inside = rank[i].inside /\ rank'[i].ok = rank[i].ok /\ rank'[i].snap = rank[i].snap
      /\ rank'[i].pc \in {"forward", "draft", "verify", "end"}
      /\ rank'[i].tokens # <<>> /\ rank'[i].spec = rank[i].spec
      /\ \A j \in Ranks \ {i} : rank'[j] = rank[j]
  <2>1. rank' \in [Ranks -> Generations] /\ \A j \in Ranks : WellFormed(rank'[j])
    BY <1>5, AdoptMoves
  <2>2. /\ rank'[i].tokens = rank[i].tokens \o kept
        /\ rank'[i].req = rank[i].req /\ rank'[i].chunk = rank[i].chunk
        /\ rank'[i].inside = rank[i].inside /\ rank'[i].ok = rank[i].ok /\ rank'[i].snap = rank[i].snap
        /\ rank'[i].pc \in {"forward", "draft", "verify", "end"}
        /\ rank'[i].tokens # <<>> /\ rank'[i].spec = rank[i].spec
    BY <1>5, AdoptMoves
  <2>3. \A j \in Ranks \ {i} : rank'[j] = rank[j]
    BY <1>5, AdoptMoves
  <2> QED  BY <2>1, <2>2, <2>3
<1>7. rank'[i].pc = IF EndsAt(i, d, rank'[i].tokens) THEN "end"
                    ELSE IF rank[i].pc = "decide" THEN IF rank[i].spec THEN "draft" ELSE "forward"
                    ELSE IF rank[i].pc = "draft" THEN "verify" ELSE "draft"
  BY <1>5, AdoptMoves
<1>8. saveable'[i] = IF d.type = "Decision" THEN EndsAt(i, d, rank'[i].tokens) \/ ~rank[i].spec ELSE saveable[i]
  BY <1>5, AdoptProps
<1>9. kv'[i] = IF d.type = "Accept" THEN (kv[i] \o <<Last(rank[i].tokens)>>) \o Front(d.tokens) ELSE kv[i]
  BY <1>5, AdoptProps
<1>10. PICK u \in Seq(Tokens), n \in Nat, k \in Nat, l \in Nat :
         /\ u = rank[i].tokens /\ n = Len(rank[i].tokens) /\ n = d.step /\ k = Len(d.tokens) /\ l = n + k
         /\ l = Len(rank'[i].tokens)
  <2>1. PICK u \in Seq(Tokens) : u = rank[i].tokens
    BY RankTypes
  <2>2. Len(u \o kept) = Len(u) + Len(kept) /\ Len(u) \in Nat /\ Len(kept) \in Nat
    OBVIOUS
  <2>3. Len(u) + Len(kept) \in Nat
    BY <2>2
  <2> QED  BY <1>4, <1>6, <2>1, <2>2, <2>3
<1>11. EndsAt(i, d, rank'[i].tokens) <=> d.stop \/ l >= NGen
  BY <1>10 DEF EndsAt
<1>12. /\ rank[i].ok /\ rank[i].req > 0 /\ rank[i].chunk = Chunks /\ n < NGen
       /\ rank[i].spec /\ rank[i].pc = "decide" => rank[i].tokens = <<>>
       /\ rank[i].pc \in {"draft", "accept"} => rank[i].spec /\ ~saveable[i] /\ n # 0
  <2>1. rank[i].pc \in {"draft", "accept"} => rank[i].tokens # <<>>
    BY RankTypes DEF WellFormed
  <2>2. rank[i].tokens # <<>> => n # 0
    BY <1>10
  <2> QED  BY <1>10, <2>1, <2>2 DEF Ordinary, Normal
<1>13. Due(rank'[i]) = LeadsTo(d, rank[i].spec)
  <2>1. CASE d.type = "Decision"
    BY <1>2, <1>7, <1>10, <1>11, <2>1 DEF Due, LeadsTo
  <2>2. CASE d.type = "Accept"
    BY <1>2, <1>7, <1>10, <1>11, <2>2 DEF Due, LeadsTo
  <2>3. CASE d.type = "Draft"
    <3>1. rank[i].pc = "draft" /\ k = 0
      BY <1>2, <1>3, <1>10, <2>3
    <3>2. l = n /\ ~(l >= NGen)
      BY <1>1, <1>10, <1>12, <3>1
    <3> QED  BY <1>7, <1>10, <1>11, <2>3, <3>1, <3>2 DEF Due, LeadsTo
  <2> QED  BY <1>2, <2>1, <2>2, <2>3
<1>14. Passed(rank'[i]) = 0
  <2>1. rank'[i] \in Generations /\ WellFormed(rank'[i])
    BY <1>6
  <2> QED  BY <1>6, <2>1, PassedIs DEF Forwards
<1>15. rank'[i].pc # "end" => l < NGen
  <2>1. rank'[i].pc # "end" => ~(l >= NGen)
    BY <1>7, <1>11
  <2> QED  BY <1>1, <2>1
<1>16. Normal(rank'[i], saveable'[i])
  <2>1. CASE rank[i].pc = "decide"
    <3>1. d.type = "Decision" /\ k = 1
      BY <1>2, <1>3, <1>10, <2>1
    <3>2. rank[i].spec => l = 1
      <4>1. Len(<<>>) = 0
        OBVIOUS
      <4>2. rank[i].spec => n = 0
        BY <1>10, <1>12, <2>1, <4>1
      <4> QED  BY <1>10, <3>1, <4>2
    <3>3. saveable'[i] = (rank'[i].pc = "end" \/ ~rank[i].spec)
      BY <1>7, <1>8, <2>1, <3>1
    <3>4. rank[i].spec \in BOOLEAN
      BY RankTypes DEF Generations
    <3> QED  BY <1>6, <1>7, <1>10, <1>12, <1>15, <2>1, <3>2, <3>3, <3>4 DEF Normal
  <2>2. CASE rank[i].pc = "draft"
    <3>1. d.type = "Draft" /\ k = 0 /\ saveable'[i] = FALSE
      <4>1. saveable[i] \in BOOLEAN /\ ~saveable[i]
        BY <1>12, <2>2 DEF TypeOK
      <4>2. saveable[i] = FALSE
        BY <4>1
      <4> QED  BY <1>2, <1>3, <1>8, <1>10, <2>2, <4>2
    <3>2. rank'[i].pc \in {"verify", "end"}
      BY <1>7, <2>2
    <3>3. rank'[i].pc = "end" => d.stop
      BY <1>1, <1>7, <1>10, <1>11, <1>12, <2>2, <3>1
    <3>4. rank'[i].pc = "end" => n > 1
      BY <1>10, <3>1, <3>3
    <3>5. rank'[i].pc = "end" => l # 1
      <4>1. l = n + k /\ k = 0
        BY <1>10, <3>1
      <4> QED  BY <3>4, <4>1
    <3>6. rank'[i].pc = "end" => (Len(rank'[i].tokens) = 1 \/ (rank'[i].tokens # <<>> /\ ~rank'[i].spec)) = FALSE
      BY <1>6, <1>10, <1>12, <2>2, <3>5
    <3>7. rank'[i].pc = "end" => saveable'[i] = (Len(rank'[i].tokens) = 1 \/ (rank'[i].tokens # <<>> /\ ~rank'[i].spec))
      BY <3>1, <3>6
    <3>8. rank'[i].spec /\ ~saveable'[i]
      BY <1>6, <1>12, <2>2, <3>1
    <3> QED  BY <1>6, <1>10, <1>12, <1>15, <3>2, <3>7, <3>8 DEF Normal
  <2>3. CASE rank[i].pc = "accept"
    <3>1. d.type = "Accept" /\ d.tokens # <<>> /\ saveable'[i] = FALSE
      <4>1. saveable[i] \in BOOLEAN /\ ~saveable[i]
        BY <1>12, <2>3 DEF TypeOK
      <4>2. saveable[i] = FALSE
        BY <4>1
      <4> QED  BY <1>2, <1>3, <1>8, <2>3, <4>2
    <3>2. rank'[i].pc \in {"draft", "end"}
      BY <1>7, <2>3
    <3>3. k # 0
      BY <1>3, <1>10, <3>1
    <3>4. l # 1
      <4>1. l = n + k /\ n # 0 /\ k # 0
        BY <1>10, <1>12, <2>3, <3>3
      <4> QED  BY <4>1
    <3>6. (Len(rank'[i].tokens) = 1 \/ (rank'[i].tokens # <<>> /\ ~rank'[i].spec)) = FALSE
      BY <1>6, <1>10, <1>12, <2>3, <3>4
    <3>7. saveable'[i] = (Len(rank'[i].tokens) = 1 \/ (rank'[i].tokens # <<>> /\ ~rank'[i].spec))
      BY <3>1, <3>6
    <3>8. rank'[i].spec /\ ~saveable'[i]
      BY <1>6, <1>12, <2>3, <3>1
    <3> QED  BY <1>6, <1>10, <1>12, <1>15, <3>2, <3>7, <3>8 DEF Normal
  <2> QED  BY <2>1, <2>2, <2>3
<1>17. kv'[i] # <<>>
  <2>1. kv[i] # <<>>
    BY <1>12 DEF Ordinary
  <2>2. CASE d.type = "Accept"
    <3>1. PICK q \in Seq(Int), x \in Int, g \in Seq(Int) : q = kv[i] /\ x = Last(rank[i].tokens) /\ g = Front(d.tokens)
      <4>1. kv[i] \in Seq(Int) /\ u # <<>> /\ d.tokens # <<>>
        BY <1>2, <1>3, <1>10, <2>2, RankTypes DEF WellFormed
      <4>2. Last(u) \in Tokens /\ Front(d.tokens) \in Seq(Tokens)
        BY <1>3, <4>1, FrontLast
      <4> QED  BY <1>10, <4>1, <4>2, TokensInt, SeqWidens
    <3>2. (q \o <<x>>) \o g # <<>>
      OBVIOUS
    <3> QED  BY <1>9, <2>2, <3>1, <3>2
  <2> QED  BY <1>9, <2>1, <2>2
<1>18. Ordinary(i)'
  BY <1>16, <1>17 DEF Ordinary, Up
<1> QED  BY <1>6, <1>12, <1>13, <1>14, <1>18

LEMMA WorkerFollowsInOrder ==
  ASSUME ClusterInv, InOrder, NEW w \in Workers, WorkerFollows(w)
  PROVE  InOrder'
<1> DEFINE m == Head(chan[w])
<1>1. TypeOK /\ w \in Ranks /\ 0 \in Ranks \ {w} /\ InStride(w) /\ Ordinary(w)
  BY RankZero, Orderly DEF InOrder
<1>2. chan[w] # <<>> /\ rank[w].pc \in {"decide", "draft", "accept"} /\ ~rank[w].inside
      /\ UNCHANGED <<snaps, proc, entered, aborted, back, requests>>
  BY DEF WorkerFollows, Reads, counts, FrameOf
<1>3. /\ Busy /\ Runs(w) /\ rank[0].req = requests /\ rank[w].spec = rank[0].spec
      /\ (\A x \in Range(chan[w]) : x.type # "Op" /\ x.type # "Request")
      /\ (\A s \in Slots : \A k \in DOMAIN chan[w] : ~OpOn(chan[w][k], s))
      /\ ~Reported(w) /\ back[w] = <<>>
  BY <1>2, AtItsRequest
<1>4. m \in Frames /\ m \in Range(chan[w]) /\ Takes(m) = Due(rank[w])
  BY <1>2, NextFrame
<1> HIDE DEF m
<1>5. m.type = FrameOf[rank[w].pc] /\ m.step = Len(rank[w].tokens) /\ m.type \in {"Decision", "Draft", "Accept"}
  <2>1. CASE rank[w].pc = "decide"
    BY <1>4, <2>1 DEF Due, Takes, FrameOf
  <2>2. CASE rank[w].pc = "draft"
    BY <1>4, <2>2 DEF Due, Takes, FrameOf
  <2>3. CASE rank[w].pc = "accept"
    BY <1>4, <2>3 DEF Due, Takes, FrameOf
  <2> QED  BY <1>2, <2>1, <2>2, <2>3
<1>6. m.req = requests /\ m.req = rank[w].req /\ (m.type = "Draft" /\ m.stop => m.step > 1)
  BY <1>1, <1>3, <1>4, <1>5 DEF InStride, Current, Runs
<1>7. Consumes(w) /\ Adopt(w, m, m.tokens)
  BY <1>5, <1>6 DEF WorkerFollows, m
<1>8. PICK d \in Decisions : d = m
  BY <1>4, <1>5, FrameKinds
<1>9. /\ Ordinary(w)' /\ Due(rank'[w]) = LeadsTo(d, rank[w].spec) /\ Passed(rank'[w]) = 0
      /\ rank'[w].pc \in {"forward", "draft", "verify", "end"}
      /\ rank'[w].req = rank[w].req /\ rank'[w].chunk = rank[w].chunk /\ rank'[w].snap = rank[w].snap
      /\ rank'[w].spec = rank[w].spec /\ rank'[0] = rank[0]
  BY <1>1, <1>2, <1>5, <1>6, <1>7, <1>8, AdoptsInOrder
<1>10. chan'[w] = Tail(chan[w]) /\ Range(chan'[w]) \subseteq Range(chan[w])
  BY <1>1, <1>2, <1>7, NextFrame, ConsumesProps
<1>11. Runs(w)' /\ Busy'
  BY <1>2, <1>3, <1>9 DEF Runs, Busy
<1>12. Current(w)'
  BY <1>1, <1>2, <1>3, <1>9, <1>10, <1>11 DEF InStride, Current, Reported
<1>13. SlotsAlike(w)'
  <2>1. Head(chan[w]).type # "Op"
    BY <1>5 DEF m
  <2>2. \A s \in Slots : There(w, s)' = There(w, s) /\ ~OpOn(Head(chan[w]), s)
    BY <1>2, <1>3, <1>9, <1>11, <2>1 DEF There, OpOn
  <2> QED  BY <1>1, <1>2, <1>10, <2>2, SlotsRead DEF InStride
<1>14. TypeOK'
  BY WorkerSteps DEF ClusterInv, WorkerStep
<1>15. Due(rank'[w]) = LeadsTo(m, rank[0].spec)
  BY <1>3, <1>8, <1>9
<1> QED  BY <1>2, <1>7, <1>9, <1>12, <1>13, <1>14, <1>15, ReadsInOrder DEF WorkerStep, m

(* What would be a failure. *)
LEMMA WorkerFailsNot ==
  ASSUME ClusterInv, InOrder, NEW w \in Workers, faults \in Nat, faults' = faults,
         \/ WorkerOther(w) \/ WorkerMisses(w) \/ WorkerEndMissing(w) \/ WorkerAlone(w) \/ WorkerWatchdog(w)
         \/ BreakForward(w) \/ LocalFailure(w)
  PROVE  FALSE
<1>1. TypeOK /\ Lockstep /\ w \in Ranks /\ 0 \in Ranks /\ InStride(w) /\ alive(w) /\ ~closed(w) /\ ~aborted[w] /\ ~async_error(w)
      /\ Up(0)
  BY RankZero, Orderly DEF InOrder
<1>2. ASSUME Fault(~(closed(w) \/ Silent(0))) PROVE Silent(0)
  <2>1. PICK x \in BOOLEAN : x = ~(closed(w) \/ Silent(0))
    OBVIOUS
  <2>2. faults = faults + (IF x THEN 1 ELSE 0)
    BY <1>2, <2>1 DEF Fault
  <2>3. x = FALSE
    BY <2>2
  <2> QED  BY <1>1, <2>1, <2>3
<1>3. chan[w] = <<>> => Due(rank[w]) = Due(rank[0])
  BY <1>1, LeadEmpty DEF InStride, Script
<1>4. ASSUME Silent(0), chan[w] = <<>>
      PROVE  rank[0].pc \in {"idle", "gather"} \/ (rank[0].inside /\ \E j \in Ranks : entered[j] < entered[0])
  BY <1>1, <1>4 DEF Silent
<1>5. CASE WorkerOther(w)
  <2>1. chan[w] # <<>> /\ rank[w].pc = "idle" /\ Head(chan[w]).type \notin {"Request", "Op"}
    BY <1>5 DEF WorkerOther, Reads
  <2>2. Takes(Head(chan[w])) = Due(rank[w]) /\ Head(chan[w]).type \notin {"Abort", "Shutdown"} /\ Head(chan[w]) \in Frames
    BY <2>1, NextFrame
  <2>3. Due(rank[w]) = <<"Request", 0>>
    BY <2>1 DEF Due
  <2>4. Head(chan[w]).type \in {"Decision", "Draft", "Accept", "RequestEnd"}
    BY <2>1, <2>2 DEF Frames, Decisions, Starts, Ends, SnapshotOps, Signals
  <2> QED  BY <2>2, <2>3, <2>4 DEF Takes
<1>6. CASE WorkerMisses(w)
  <2>1. chan[w] = <<>> /\ rank[w].pc \in {"decide", "draft", "accept"} /\ Silent(0)
    BY <1>2, <1>6 DEF WorkerMisses, FrameOf
  <2>2. rank[0].pc \notin {"idle", "gather"}
    BY <1>3, <2>1 DEF Due
  <2>3. PICK h \in Generations, r \in Generations : h = rank[0] /\ r = rank[w] /\ WellFormed(h) /\ WellFormed(r)
    BY <1>1, RankTypes
  <2>4. Passed(h) <= Passed(r) /\ Passed(h) \in Nat /\ Passed(r) \in Nat
    BY <1>3, <2>1, <2>3, PassedAlike, PassedIs
  <2>5. PICK j \in Ranks : entered[j] < entered[0]
    BY <1>4, <2>1, <2>2
  <2>6. entered[0] = 1 /\ entered[w] = 0
    <3>1. ~rank[w].inside
      BY <2>1, <2>3 DEF WellFormed, Forwards
    <3>2. entered[w] = 0
      BY <1>1, <3>1 DEF Lockstep
    <3> QED  BY <1>1, <2>5, <3>2 DEF Lockstep
  <2>7. entered[0] - entered[w] = Passed(h) - Passed(r)
    BY <1>1, <2>1, <2>3 DEF InStride, Pace, InPace
  <2> QED  BY <2>4, <2>6, <2>7
<1>7. CASE WorkerEndMissing(w)
  <2>1. chan[w] = <<>> /\ rank[w].pc = "end" /\ Silent(0)
    BY <1>2, <1>7 DEF WorkerEndMissing
  <2>2. rank[0].pc = "end"
    <3>1. rank[0].pc \in Places
      BY <1>1, RankTypes
    <3> QED  BY <1>3, <2>1, <3>1 DEF Due, Places, Forwards
  <2>3. ~rank[0].inside
    BY <1>1, <2>2, RankTypes DEF WellFormed, Forwards
  <2> QED  BY <1>4, <2>1, <2>2, <2>3
<1>8. CASE WorkerAlone(w) \/ WorkerWatchdog(w)
  BY <1>1, <1>8 DEF WorkerAlone, WorkerWatchdog
<1>9. CASE BreakForward(w)
  BY <1>1, <1>9 DEF BreakForward
<1>10. CASE LocalFailure(w)
  <2>1. faults = faults + 1
    BY <1>10 DEF LocalFailure, Fault
  <2> QED  BY <2>1
<1> HIDE <1>2, <1>4
<1> QED  BY <1>5, <1>6, <1>7, <1>8, <1>9, <1>10

LEMMA WorkerStaysInOrder ==
  ASSUME ClusterInv, InOrder, NEW w \in Workers, WorkerStep(w) \/ Compute(w), faults \in Nat, faults' = faults
  PROVE  InOrder'
BY WorkerEnterInOrder, WorkerLeaveInOrder, WorkerStartDecodeInOrder, WorkerStartInOrder, WorkerOpInOrder,
   WorkerFollowsInOrder, WorkerEndInOrder, WorkerFailsNot DEF WorkerStep, Compute

-----------------------------------------------------------------------------
(* The head at its request.                                                *)

(* Frames that are not about the slot. *)
LEMMA WillHaveMore ==
  ASSUME NEW f \in Seq(Frames), NEW g \in Seq(Frames), NEW used, NEW s, NEW there,
         \A m \in Range(g) : ~OpOn(m, s), WillHave(f, used, s, there)
  PROVE  WillHave(f \o g, used, s, there)
<1> DEFINE h == f \o g
<1>1. /\ \A k \in DOMAIN f : k \in DOMAIN h /\ h[k] = f[k]
      /\ \A k \in DOMAIN h : k \in DOMAIN f \/ ~OpOn(h[k], s)
  <2>1. /\ \A k \in DOMAIN f : k \in DOMAIN h /\ h[k] = f[k]
        /\ \A k \in DOMAIN g : Len(f) + k \in DOMAIN h /\ h[Len(f) + k] = g[k]
        /\ \A k \in DOMAIN h : k \in DOMAIN f \/ k - Len(f) \in DOMAIN g
    BY ConcatProps
  <2>2. DOMAIN h = 1..Len(f) + Len(g) /\ Len(f) \in Nat /\ Len(g) \in Nat
    OBVIOUS
  <2> HIDE DEF h
  <2>3. ASSUME NEW k \in DOMAIN h, k \notin DOMAIN f PROVE ~OpOn(h[k], s)
    <3>1. PICK l \in DOMAIN g : l = k - Len(f)
      BY <2>1, <2>3
    <3>2. h[k] = g[l]
      <4>1. Len(f) + l = k
        BY <2>2, <3>1
      <4> QED  BY <2>1, <4>1
    <3> QED  BY <3>2 DEF Range
  <2> QED  BY <2>1, <2>3
<1> HIDE DEF h
<1>2. CASE \A k \in DOMAIN f : ~OpOn(f[k], s)
  <2>1. \A k \in DOMAIN h : ~OpOn(h[k], s)
    BY <1>1, <1>2
  <2>2. used = there
    BY <1>2 DEF WillHave
  <2> QED  BY <2>1, <2>2 DEF WillHave, h
<1>3. CASE ~\A k \in DOMAIN f : ~OpOn(f[k], s)
  <2>1. PICK k \in DOMAIN f : OpOn(f[k], s) /\ f[k].save = there /\ \A l \in DOMAIN f : k < l => ~OpOn(f[l], s)
    BY <1>3 DEF WillHave
  <2>2. k \in DOMAIN h /\ OpOn(h[k], s) /\ h[k].save = there /\ \A l \in DOMAIN h : k < l => ~OpOn(h[l], s)
    BY <1>1, <2>1
  <2> QED  BY <2>2 DEF WillHave, h
<1> QED  BY <1>2, <1>3

(* A step of the head at its request, with the frames it sends. *)
LEMMA HeadTells ==
  ASSUME ClusterInv, InOrder, HeadStep \/ Compute(0), ~HeadExit, rank[0].pc \notin {"idle", "gather"}, rank'[0].pc # "idle",
         rank'[0].spec = rank[0].spec, rank'[0].snap = rank[0].snap,
         UNCHANGED <<back, requests, exiting, fresh>>, Ordinary(0)',
         rank[0].snap # None => (snaps'[0][rank[0].snap[1]] # None) = (rank'[0].chunk = Chunks),
         \A s \in Slots : rank[0].snap # <<s>> => snaps'[0][s] = snaps[0][s],
         NEW f \in Seq(Frames), \A w \in Workers : chan'[w] = chan[w] \o f,
         \A m \in Range(f) :
           /\ m.type \in {"Decision", "Draft", "Accept", "RequestEnd"} /\ m.req = requests
           /\ m.type = "Draft" /\ m.stop => m.step > 1
           /\ m.type = "RequestEnd" => m.ok,
         \A w \in Workers : Script(w)' /\ Pace(w)'
  PROVE  InOrder'
<1>1. TypeOK /\ Busy /\ Busy'
  BY Orderly DEF Busy
<1>2. ASSUME NEW w \in Workers PROVE rank'[w] = rank[w] /\ saveable'[w] = saveable[w] /\ snaps'[w] = snaps[w]
  BY <1>1, HeadLeaves
<1>3. PICK begun \in Seq(Int) : HeadHolds(begun) /\ \A w \in Workers : Follows(w, begun)
  BY <1>1, Orderly DEF Together
<1>4. ASSUME NEW w \in Workers PROVE Current(w)' /\ SlotsAlike(w)'
  <2>1. Runs(w)' <=> Runs(w)
    BY <1>2 DEF Runs
  <2>2. chan[w] \in Seq(Frames) /\ \A m \in Range(chan'[w]) : m \in Range(chan[w]) \/ m \in Range(f)
    BY <1>1, MoreFrames DEF TypeOK
  <2>3. Range(chan[w]) \subseteq Range(chan'[w])
    <3>1. \A k \in DOMAIN chan[w] : k \in DOMAIN chan'[w] /\ chan'[w][k] = chan[w][k]
      BY <1>1, MoreFrames
    <3> QED  BY <3>1 DEF Range
  <2>4. (\A m \in Range(chan'[w]) : m.type # "Request") <=> (\A m \in Range(chan[w]) : m.type # "Request")
    BY <2>2, <2>3
  <2>5. Runs(w) => rank[w].pc # "idle"
    BY <1>3 DEF Follows, Copies
  <2>6. Current(w) /\ SlotsAlike(w)
    BY DEF InOrder, InStride
  <2>7. back[w] = <<>>
    BY <2>6 DEF Current
  <2>8. ASSUME NEW m \in Range(chan'[w])
        PROVE  /\ m.type \notin {"Abort", "Shutdown"}
               /\ m.type \in {"Decision", "Draft", "Accept", "RequestEnd"} => m.req = requests
               /\ m.type = "Op" /\ m.save => saveable[w]
               /\ m.type = "Request" => m.spec = rank[0].spec
               /\ m.type = "Draft" /\ m.stop => m.step > 1
               /\ m.type = "RequestEnd" => m.ok
    BY <2>2, <2>6, <2>8 DEF Current
  <2>9. Current(w)'
    BY <1>1, <1>2, <2>1, <2>4, <2>5, <2>6, <2>7, <2>8 DEF Current
  <2>10. SlotsAlike(w)'
    <3> SUFFICES ASSUME NEW s \in Slots PROVE WillHave(chan[w], snaps[w][s] # None, s, There(w, s))'
      BY DEF SlotsAlike
    <3>1. There(w, s)' = There(w, s)
      BY <1>1, <1>2, <2>1 DEF There
    <3>2. PICK q, u, t : q = chan[w] /\ u = (snaps[w][s] # None) /\ t = There(w, s)
      OBVIOUS
    <3>3. WillHave(q, u, s, t) /\ q \in Seq(Frames)
      BY <2>2, <2>6, <3>2 DEF SlotsAlike
    <3>4. \A m \in Range(f) : ~OpOn(m, s)
      BY DEF OpOn
    <3>5. WillHave(q \o f, u, s, t)
      BY <3>3, <3>4, WillHaveMore
    <3>6. chan'[w] = q \o f /\ (snaps'[w][s] # None) = u /\ There(w, s)' = t
      BY <1>2, <3>1, <3>2
    <3> QED  BY <3>5, <3>6
  <2> QED  BY <2>9, <2>10
<1> QED  BY <1>4, HeadInOrder

(* Behind a head between two forwards every worker is through its own. *)
LEMMA AllThrough ==
  ASSUME ClusterInv, InOrder, NEW w \in Workers, rank[0].pc \notin Forwards
  PROVE  /\ Through(rank[w]) /\ entered[0] - entered[w] = 0
         /\ chan[w] = <<>> \/ (rank[0].pc \notin {"decide", "accept"} /\ Passed(rank[0]) = 0)
<1>1. TypeOK /\ Lockstep /\ w \in Ranks /\ 0 \in Ranks /\ Pace(w) /\ ~aborted[0]
  BY RankZero, Orderly DEF InOrder, InStride
<1>2. PICK h \in Generations, r \in Generations : h = rank[0] /\ r = rank[w] /\ WellFormed(h) /\ WellFormed(r)
  BY <1>1, RankTypes
<1>3. entered[0] = 0 /\ entered[w] \in {0, 1}
  <2>1. ~rank[0].inside
    BY <1>2 DEF WellFormed
  <2> QED  BY <1>1, <2>1 DEF Lockstep
<1>4. Passed(h) \in Nat /\ Passed(r) \in Nat
  BY <1>2, PassedIs
<1>5. CASE chan[w] # <<>>
  <2>1. entered[0] - entered[w] = Passed(h) /\ Through(r) /\ h.pc \notin {"decide", "accept"}
    BY <1>1, <1>2, <1>5 DEF Pace, InPace
  <2>2. Passed(h) = 0
    BY <1>2, <2>1, PassedIs
  <2> QED  BY <1>2, <2>1, <2>2
<1>6. CASE chan[w] = <<>>
  <2>1. entered[0] - entered[w] = Passed(h) - Passed(r)
    BY <1>1, <1>2, <1>6 DEF Pace, InPace
  <2>2. Due(r) = Due(h)
    BY <1>2, <1>6, LeadEmpty DEF InOrder, InStride, Script
  <2>3. CASE h.pc \in {"decide", "accept", "draft"}
    <3>1. Passed(r) <= Passed(h) /\ (Passed(r) = Passed(h) => Through(r))
      BY <1>2, <2>2, <2>3, PassedAlike
    <3>2. entered[w] = 0 /\ Passed(r) = Passed(h)
      BY <1>3, <1>4, <2>1, <3>1
    <3> QED  BY <1>2, <1>3, <1>6, <3>1, <3>2
  <2>4. CASE h.pc \in {"end", "gather", "idle"}
    <3>1. r.pc \in {"end", "gather", "idle"}
      <4>1. r.pc \in Places
        BY DEF Generations
      <4> QED  BY <2>2, <2>4, <4>1 DEF Due, Places, Forwards
    <3>2. Passed(r) = 0 /\ Passed(h) = 0 /\ Through(r)
      BY <2>4, <3>1 DEF Passed, Through, Forwards
    <3> QED  BY <1>2, <1>6, <2>1, <3>2
  <2>5. h.pc \in Places
    BY DEF Generations
  <2> QED  BY <1>2, <2>3, <2>4, <2>5 DEF Places
<1> QED  BY <1>5, <1>6

(* The head sends the frame that every rank takes next. *)
LEMMA HeadAnswers ==
  ASSUME ClusterInv, InOrder, HeadStep, ~HeadExit, rank[0].pc \in {"decide", "draft", "accept", "end"},
         rank'[0].pc \in {"forward", "draft", "verify", "end", "gather"},
         rank'[0].spec = rank[0].spec, rank'[0].snap = rank[0].snap, rank'[0].chunk = rank[0].chunk,
         UNCHANGED <<snaps, entered, back, requests, exiting, fresh>>, Ordinary(0)',
         NEW m \in Frames, chan' = Sent(<<m>>), Takes(m) = Due(rank[0]), Due(rank'[0]) = LeadsTo(m, rank[0].spec),
         Passed(rank'[0]) = 0, m.req = requests, m.type = "Draft" /\ m.stop => m.step > 1, m.type = "RequestEnd" => m.ok
  PROVE  InOrder'
<1>1. TypeOK /\ 0 \in Ranks /\ rank[0].pc \notin Forwards
  BY RankZero, Orderly DEF Forwards
<1>2. <<m>> \in Seq(Frames) /\ Range(<<m>>) = {m}
  BY SmallSeqs
<1>3. ASSUME NEW w \in Workers PROVE chan'[w] = chan[w] \o <<m>> /\ rank'[w] = rank[w] /\ chan[w] \in Seq(Frames)
  BY <1>1, <1>2, HeadLeaves, Orderly, SentProps DEF TypeOK
<1>4. m.type \in {"Decision", "Draft", "Accept", "RequestEnd"} /\ (m.type \in {"Decision", "Accept"} => rank[0].pc \in {"decide", "accept"})
  <2>1. Takes(m)[1] \in {"Decision", "Draft", "Accept", "RequestEnd"}
        /\ (Takes(m)[1] \in {"Decision", "Accept"} => rank[0].pc \in {"decide", "accept"})
    BY DEF Due
  <2> QED  BY <2>1 DEF Takes
<1>5. ASSUME NEW w \in Workers PROVE Script(w)' /\ Pace(w)'
  <2>1. PICK f, h, g, r, lead : /\ f = chan[w] /\ h = rank[0] /\ g = rank'[0] /\ r = rank[w] /\ lead = entered[0] - entered[w]
    OBVIOUS
  <2>2. f \in Seq(Frames) /\ InPace(f, h, r, lead) /\ Lead(Due(r), f, h.spec, Due(h))
    BY <1>3, <2>1 DEF InOrder, InStride, Script, Pace
  <2>3. Lead(Due(r), f \o <<m>>, h.spec, Due(g))
    BY <2>1, <2>2, LeadAppend
  <2>4. Through(r) /\ lead = Passed(g) /\ (f = <<>> \/ m.type \notin {"Decision", "Accept"})
    BY <1>1, <1>4, <2>1, AllThrough
  <2>5. g.pc \notin {"decide", "accept"} /\ (g.pc = "prefill" => g.chunk = 0)
    BY <2>1
  <2>6. InPace(f \o <<m>>, g, r, lead)
    BY <2>2, <2>4, <2>5, PaceSends
  <2>7. chan'[w] = f \o <<m>> /\ rank'[w] = r /\ rank'[0].spec = h.spec /\ entered'[0] - entered'[w] = lead
    BY <1>3, <2>1
  <2> QED  BY <2>1, <2>3, <2>6, <2>7 DEF Script, Pace
<1>6. rank[0].snap # None => (snaps'[0][rank[0].snap[1]] # None) = (rank'[0].chunk = Chunks)
  BY DEF InOrder, Busy
<1> QED  BY <1>2, <1>3, <1>4, <1>5, <1>6, HeadTells

(* The head's own steps, that tell nobody. *)
LEMMA HeadMovesOn ==
  ASSUME ClusterInv, InOrder, HeadStep \/ Compute(0), ~HeadExit, rank[0].pc \notin {"idle", "gather"}, rank'[0].pc # "idle",
         rank'[0].spec = rank[0].spec, rank'[0].snap = rank[0].snap,
         UNCHANGED <<chan, back, requests, exiting, fresh>>, Ordinary(0)',
         rank[0].snap # None => (snaps'[0][rank[0].snap[1]] # None) = (rank'[0].chunk = Chunks),
         \A s \in Slots : rank[0].snap # <<s>> => snaps'[0][s] = snaps[0][s],
         Due(rank'[0]) = Due(rank[0]), \A w \in Workers : rank'[w] = rank[w] => Pace(w)'
  PROVE  InOrder'
<1>1. TypeOK /\ <<>> \in Seq(Frames) /\ Range(<<>>) = {}
  BY Orderly, SmallSeqs
<1>2. ASSUME NEW w \in Workers PROVE chan'[w] = chan[w] \o <<>> /\ rank'[w] = rank[w]
  <2>1. chan[w] \in Seq(Frames)
    BY <1>1 DEF TypeOK
  <2>2. chan[w] = chan[w] \o <<>>
    BY <2>1
  <2> QED  BY <1>1, <2>2, HeadLeaves
<1>3. ASSUME NEW w \in Workers PROVE Script(w)' /\ Pace(w)'
  BY <1>2 DEF InOrder, InStride, Script
<1> QED  BY <1>1, <1>2, <1>3, HeadTells

LEMMA HeadEnterInOrder ==
  ASSUME ClusterInv, InOrder, EnterForward(0)
  PROVE  InOrder'
<1>1. TypeOK /\ Lockstep /\ 0 \in Ranks /\ ~aborted[0] /\ Ordinary(0)
  BY RankZero, Orderly DEF InOrder
<1>2. rank[0] \in Generations /\ WellFormed(rank[0])
  BY <1>1, RankTypes
<1>3. /\ TypeOK'
      /\ rank'[0].req = rank[0].req /\ rank'[0].tokens = rank[0].tokens /\ rank'[0].spec = rank[0].spec
      /\ rank'[0].snap = rank[0].snap /\ rank'[0].chunk = rank[0].chunk
      /\ rank[0].pc \in Forwards /\ ~rank[0].inside
      /\ rank'[0].pc = rank[0].pc /\ rank'[0].ok = rank[0].ok /\ rank'[0].inside = TRUE /\ entered[0] = 0
      /\ \E c \in {0, 1} : entered'[0] = 1 - c /\ \A j \in Ranks \ {0} : entered'[j] = entered[j] - c
  BY <1>1, EnterForwardDoes
<1>4. UNCHANGED <<kv, saveable, snaps, proc, aborted, chan, back, fresh, exiting, requests>>
  BY DEF EnterForward, data, links, counts
<1>5. PICK c \in {0, 1} : entered'[0] = 1 - c /\ \A j \in Ranks \ {0} : entered'[j] = entered[j] - c
  BY <1>3
<1>6. rank'[0] \in Generations /\ WellFormed(rank'[0])
  BY <1>1, <1>3, RankTypes DEF TypeOK
<1>7. Passed(rank'[0]) = Passed(rank[0]) + 1 /\ Passed(rank[0]) \in Nat
  <2>1. rank[0].chunk \in Nat
    BY <1>2 DEF Generations
  <2> QED  BY <1>2, <1>3, <1>6, <2>1, PassedIs DEF Forwards
<1>8. ASSUME NEW w \in Workers, rank'[w] = rank[w] PROVE Pace(w)'
  <2>1. PICK f, h, g, r, lead, more : /\ f = chan[w] /\ h = rank[0] /\ g = rank'[0] /\ r = rank[w]
                                      /\ lead = entered[0] - entered[w] /\ more = entered'[0] - entered'[w]
    OBVIOUS
  <2>2. more = lead + 1 /\ lead \in Int
    <3>1. w \in Ranks \ {0} /\ entered[w] \in {0, 1} /\ entered'[w] = entered[w] - c
      BY <1>1, <1>5, RankZero DEF Lockstep
    <3> QED  BY <1>3, <1>5, <2>1, <3>1
  <2>3. Passed(r) \in Nat
    BY <1>1, <2>1, RankZero, RankTypes, PassedIs
  <2>4. InPace(f, h, r, lead)
    BY <2>1 DEF InOrder, InStride, Pace
  <2>5. Passed(g) = Passed(h) + 1 /\ g.pc = h.pc /\ g.chunk = h.chunk /\ Passed(h) \in Nat
    BY <1>3, <1>7, <2>1
  <2>6. f = <<>> => more = Passed(g) - Passed(r)
    BY <2>2, <2>3, <2>4, <2>5 DEF InPace
  <2>7. InPace(f, g, r, more)
    BY <2>2, <2>4, <2>5, <2>6 DEF InPace
  <2> QED  BY <1>4, <1>8, <2>1, <2>7 DEF Pace
<1>9. Due(rank'[0]) = Due(rank[0])
  BY <1>3 DEF Due
<1>10. Ordinary(0)'
  BY <1>1, <1>3, <1>4 DEF Ordinary, Normal, Up, Forwards
<1>11. rank[0].pc \notin {"idle", "gather"} /\ rank'[0].pc # "idle"
  BY <1>3 DEF Forwards
<1>12. rank[0].snap # None => (snaps'[0][rank[0].snap[1]] # None) = (rank'[0].chunk = Chunks)
  BY <1>3, <1>4, <1>11 DEF InOrder, Busy
<1>13. ~HeadExit
  BY DEF InOrder, HeadExit
<1> QED  BY <1>3, <1>4, <1>8, <1>9, <1>10, <1>11, <1>12, <1>13, HeadMovesOn DEF Compute

LEMMA HeadLeaveInOrder ==
  ASSUME ClusterInv, InOrder, LeaveForward(0), faults \in Nat, faults' = faults
  PROVE  InOrder'
<1>1. TypeOK /\ Lockstep /\ 0 \in Ranks /\ ~aborted[0]
  BY RankZero, Orderly
<1>2. /\ Ordinary(0)' /\ Due(rank'[0]) = Due(rank[0]) /\ Passed(rank'[0]) = Passed(rank[0]) /\ Passed(rank[0]) \in Nat \ {0}
      /\ rank'[0].pc \in {"prefill", "decide", "accept"} /\ rank'[0].snap = rank[0].snap /\ rank'[0].spec = rank[0].spec
      /\ UNCHANGED <<entered, chan, back, requests>> /\ rank[0].pc \in Forwards
      /\ \A s \in Slots : IF rank[0].snap = <<s>> /\ rank'[0].chunk # rank[0].chunk
                          THEN (snaps'[0][s] # None) = (rank'[0].chunk = Chunks \/ snaps[0][s] # None)
                          ELSE snaps'[0][s] = snaps[0][s]
      /\ rank'[0].chunk # rank[0].chunk => rank[0].chunk # Chunks
  BY <1>1, LeaveInOrder
<1>3. UNCHANGED <<exiting, fresh>> /\ entered[0] = 0 /\ ~HeadExit
  <2>1. entered[0] = 0
    BY <1>1, LeaveForwardDoes
  <2> QED  BY <2>1 DEF LeaveForward, links, HeadExit, InOrder
<1>4. rank[0].pc \notin {"idle", "gather"} /\ rank'[0].pc # "idle"
  BY <1>2 DEF Forwards
<1>5. ASSUME NEW w \in Workers, rank'[w] = rank[w] PROVE Pace(w)'
  <2>1. InPace(chan[w], rank[0], rank[w], entered[0] - entered[w])
    BY DEF InOrder, InStride, Pace
  <2>2. entered[w] \in {0, 1}
    BY <1>1, RankZero DEF Lockstep
  <2>3. entered[0] - entered[w] # Passed(rank[0])
    BY <1>2, <1>3, <2>2
  <2>4. chan[w] = <<>> /\ entered[0] - entered[w] = Passed(rank[0]) - Passed(rank[w])
    BY <2>1, <2>3 DEF InPace
  <2> QED  BY <1>2, <1>5, <2>4 DEF Pace, InPace
<1>6. rank[0].snap # None => (snaps'[0][rank[0].snap[1]] # None) = (rank'[0].chunk = Chunks)
  <2> SUFFICES ASSUME rank[0].snap # None
               PROVE  (snaps'[0][rank[0].snap[1]] # None) = (rank'[0].chunk = Chunks)
    OBVIOUS
  <2>1. PICK s \in Slots : rank[0].snap = <<s>>
    BY <1>1, RankTypes DEF SlotOrNone
  <2>2. rank[0].snap[1] = s
    BY <2>1
  <2>3. (snaps[0][s] # None) = (rank[0].chunk = Chunks)
    BY <1>4, <2>2 DEF InOrder, Busy
  <2> QED  BY <1>2, <2>1, <2>2, <2>3
<1>7. ASSUME NEW s \in Slots, rank[0].snap # <<s>> PROVE snaps'[0][s] = snaps[0][s]
  BY <1>2, <1>7
<1> QED  BY <1>2, <1>3, <1>4, <1>5, <1>6, <1>7, HeadMovesOn DEF Compute

LEMMA HeadStartDecodeInOrder ==
  ASSUME ClusterInv, InOrder, StartDecode(0)
  PROVE  InOrder'
<1>1. TypeOK /\ Lockstep /\ 0 \in Ranks /\ Ordinary(0)
  BY RankZero, Orderly DEF InOrder
<1>2. /\ TypeOK' /\ UNCHANGED <<kv, saveable, snaps, proc, entered, aborted, chan, back, exiting, requests>>
      /\ rank[0].pc = "prefill" /\ rank'[0].pc = "decide" /\ rank[0].chunk = Chunks
      /\ ~rank[0].inside /\ rank'[0].req = rank[0].req /\ rank'[0].tokens = rank[0].tokens
      /\ rank'[0].snap = rank[0].snap /\ rank'[0].chunk = rank[0].chunk /\ rank'[0].ok = rank[0].ok
      /\ rank'[0].spec = rank[0].spec
  BY <1>1, StartDecodeDoes
<1>3. fresh' = fresh /\ ~HeadExit
  BY DEF StartDecode, links, HeadExit, InOrder
<1>4. rank[0] \in Generations /\ WellFormed(rank[0]) /\ rank'[0] \in Generations /\ WellFormed(rank'[0])
  BY <1>1, <1>2, RankTypes DEF TypeOK
<1>5. Passed(rank'[0]) = Passed(rank[0])
  <2>1. rank[0].tokens = <<>> /\ rank[0].chunk \in Nat
    BY <1>2, <1>4, ClusterAssumption DEF WellFormed
  <2>2. Passed(rank[0]) = Chunks
    BY <1>2, <1>4, <2>1, PassedIs
  <2> QED  BY <1>2, <1>4, <2>1, <2>2, PassedIs
<1>6. Chunks # 0
  BY ClusterAssumption
<1>7. ASSUME NEW w \in Workers, rank'[w] = rank[w] PROVE Pace(w)'
  <2>1. InPace(chan[w], rank[0], rank[w], entered[0] - entered[w])
    BY DEF InOrder, InStride, Pace
  <2>2. chan[w] = <<>> /\ entered[0] - entered[w] = Passed(rank[0]) - Passed(rank[w])
    BY <1>2, <1>6, <2>1 DEF InPace
  <2> QED  BY <1>2, <1>5, <1>7, <2>2 DEF Pace, InPace
<1>8. Due(rank'[0]) = Due(rank[0])
  BY <1>2 DEF Due
<1>9. Ordinary(0)'
  BY <1>1, <1>2 DEF Ordinary, Normal, Up
<1>10. rank[0].snap # None => (snaps'[0][rank[0].snap[1]] # None) = (rank'[0].chunk = Chunks)
  BY <1>2 DEF InOrder, Busy
<1> QED  BY <1>2, <1>3, <1>7, <1>8, <1>9, <1>10, HeadMovesOn DEF Compute

(* The client has left during the prefill: the head ends without a token. *)
LEMMA CancelPrefillAlone ==
  ASSUME ClusterInv, InOrder, CancelPrefill
  PROVE  Alone'
<1>1. TypeOK /\ Ordinary(0) /\ 0 \in Ranks
  BY RankZero, Orderly DEF InOrder
<1>2. cancelled' /\ rank' = [rank EXCEPT ![0].pc = "end"] /\ requests' = requests /\ rank[0].pc = "prefill"
  BY DEF CancelPrefill, counts
<1>3. PICK r, q : r = rank[0] /\ q = rank'[0] /\ r \in Generations /\ WellFormed(r) /\ q = [r EXCEPT !.pc = "end"]
  BY <1>1, <1>2, RankTypes DEF TypeOK
<1>4. q.pc = "end" /\ q.ok = r.ok /\ q.tokens = r.tokens
  BY <1>3 DEF Generations
<1>5. r.tokens = <<>> /\ r.ok
  BY <1>1, <1>2, <1>3 DEF WellFormed, Ordinary, Normal
<1>6. ASSUME NEW w \in Workers, rank[w].req = requests, rank[w].pc \in {"end", "idle"}
      PROVE  rank[w].tokens # <<>>
  <2>1. rank[w].pc # "idle"
    BY <1>2, <1>6, Orderly DEF Busy, Together, Follows, Copies, Runs
  <2> QED  BY <1>6, <2>1, RankZero DEF InOrder, Ordinary, Normal
<1>7. \A w \in Workers : rank'[w] = rank[w]
  BY <1>1, <1>2, RankZero DEF TypeOK
<1> QED  BY <1>2, <1>3, <1>4, <1>5, <1>6, <1>7 DEF Alone, StoppedAlone, Runs

LEMMA HeadDecideInOrder ==
  ASSUME ClusterInv, InOrder, NEW t \in Tokens, HeadDecide(t)
  PROVE  InOrder'
<1> DEFINE m == HeadFrame("Decision", <<t>>, t = Eos \/ cancelled)
<1>1. TypeOK /\ Ordinary(0) /\ 0 \in Ranks /\ SendResults = {TRUE}
  BY RankZero, Orderly DEF InOrder
<1>2. /\ rank[0].pc = "decide" /\ chan' = Sent(<<m>>)
      /\ UNCHANGED <<snaps, proc, entered, aborted, back, fresh, exiting, requests>>
  BY DEF HeadDecide, counts
<1>3. Adopt(0, m, <<t>>)
  BY <1>1 DEF HeadDecide
<1>4. /\ m.type = "Decision" /\ m.req = rank[0].req /\ m.step = Len(rank[0].tokens) /\ m.tokens = <<t>>
  BY DEF HeadFrame
<1>5. m \in Frames
  BY <1>1, FrameTypes
<1> HIDE DEF m
<1>6. m \in Decisions
  BY <1>4, <1>5, FrameKinds
<1>7. ~rank[0].inside
  BY <1>1, <1>2, RankTypes DEF WellFormed, Forwards
<1>8. m.type = FrameOf[rank[0].pc] /\ Adopt(0, m, m.tokens)
  BY <1>2, <1>3, <1>4 DEF FrameOf
<1>9. /\ Ordinary(0)' /\ Due(rank'[0]) = LeadsTo(m, rank[0].spec) /\ Passed(rank'[0]) = 0
      /\ rank'[0].pc \in {"forward", "draft", "verify", "end"}
      /\ rank'[0].chunk = rank[0].chunk /\ rank'[0].snap = rank[0].snap /\ rank'[0].spec = rank[0].spec
  <2>1. m.type # "Draft" /\ rank[0].pc \in {"decide", "draft", "accept"}
    BY <1>2, <1>4
  <2>2. UNCHANGED <<proc, aborted>>
    BY <1>2
  <2> QED  BY <1>1, <1>4, <1>6, <1>7, <1>8, <2>1, <2>2, AdoptsInOrder
<1>10. Takes(m) = Due(rank[0])
  BY <1>2, <1>4 DEF Takes, Due
<1>11. m.req = requests
  BY <1>2, <1>4, Orderly DEF Busy, Together, HeadHolds
<1>12. HeadStep /\ ~HeadExit
  BY DEF HeadStep, HeadExit, InOrder
<1> QED  BY <1>2, <1>4, <1>5, <1>9, <1>10, <1>11, <1>12, HeadAnswers

LEMMA HeadDraftInOrder ==
  ASSUME ClusterInv, InOrder, HeadDraft
  PROVE  InOrder'
<1> DEFINE m == HeadFrame("Draft", <<>>, FALSE)
<1>1. TypeOK /\ Ordinary(0) /\ 0 \in Ranks /\ SendResults = {TRUE}
  BY RankZero, Orderly DEF InOrder
<1>2. /\ rank[0].pc = "draft" /\ chan' = Sent(<<m>>)
      /\ UNCHANGED <<kv, saveable, snaps, proc, entered, aborted, back, fresh, exiting, requests>>
  BY DEF HeadDraft, counts, data
<1>3. rank' = [rank EXCEPT ![0] = After(@, FALSE)]
  BY <1>1 DEF HeadDraft
<1>4. /\ m.type = "Draft" /\ m.req = rank[0].req /\ m.step = Len(rank[0].tokens) /\ m.stop = FALSE
  BY DEF HeadFrame
<1>5. m \in Frames
  BY <1>1, FrameTypes
<1> HIDE DEF m
<1>6. PICK r, q : r = rank[0] /\ q = rank'[0] /\ r \in Generations /\ q = [r EXCEPT !.pc = "verify"]
  BY <1>1, <1>2, <1>3, RankTypes DEF TypeOK, After
<1>7. /\ q.pc = "verify" /\ q.req = r.req /\ q.ok = r.ok /\ q.tokens = r.tokens /\ q.spec = r.spec
      /\ q.chunk = r.chunk /\ q.snap = r.snap /\ q.inside = r.inside
  BY <1>6 DEF Generations
<1>8. ~r.inside
  BY <1>1, <1>2, <1>6, RankTypes DEF WellFormed, Forwards
<1>9. Ordinary(0)'
  BY <1>1, <1>2, <1>6, <1>7 DEF Ordinary, Normal, Up
<1>10. Due(q) = LeadsTo(m, r.spec) /\ Takes(m) = Due(r)
  BY <1>2, <1>4, <1>6, <1>7 DEF Due, LeadsTo, Takes
<1>11. Passed(q) = 0
  BY <1>7, <1>8 DEF Passed, Forwards
<1>12. m.req = requests
  BY <1>2, <1>4, Orderly DEF Busy, Together, HeadHolds
<1>13. HeadStep /\ ~HeadExit
  BY DEF HeadStep, HeadExit, InOrder
<1> QED  BY <1>2, <1>4, <1>5, <1>6, <1>7, <1>9, <1>10, <1>11, <1>12, <1>13, HeadAnswers

LEMMA HeadEndInOrder ==
  ASSUME ClusterInv, InOrder, HeadEnd
  PROVE  InOrder'
<1> DEFINE m == [type |-> "RequestEnd", req |-> rank[0].req, ok |-> rank[0].ok, steps |-> Len(rank[0].tokens)]
<1>1. TypeOK /\ Ordinary(0) /\ 0 \in Ranks /\ SendResults = {TRUE}
  BY RankZero, Orderly DEF InOrder
<1>2. rank[0].ok
  BY <1>1 DEF Ordinary, Normal
<1>3. /\ rank[0].pc = "end" /\ UNCHANGED <<kv, saveable, snaps, proc, entered, back, fresh, requests>>
  BY DEF HeadEnd, counts, data
<1>4. /\ rank' = [rank EXCEPT ![0].pc = "gather", ![0].gathered = {}]
      /\ chan' = Sent(<<m>>) /\ UNCHANGED <<exiting, aborted>>
  BY <1>1, <1>2 DEF HeadEnd
<1>5. m.type = "RequestEnd" /\ m.req = rank[0].req /\ m.ok /\ m.steps = Len(rank[0].tokens)
  BY <1>2
<1>6. m \in Frames
  BY <1>1, FrameTypes
<1> HIDE DEF m
<1>7. PICK r, q : r = rank[0] /\ q = rank'[0] /\ r \in Generations /\ q = [r EXCEPT !.pc = "gather", !.gathered = {}]
  BY <1>1, <1>4, RankTypes DEF TypeOK
<1>8. /\ q.pc = "gather" /\ q.req = r.req /\ q.ok = r.ok /\ q.tokens = r.tokens /\ q.spec = r.spec
      /\ q.chunk = r.chunk /\ q.snap = r.snap
  BY <1>7 DEF Generations
<1>9. Ordinary(0)'
  BY <1>1, <1>3, <1>4, <1>7, <1>8 DEF Ordinary, Normal, Up
<1>10. Due(q) = LeadsTo(m, r.spec) /\ Takes(m) = Due(r)
  BY <1>3, <1>5, <1>7, <1>8 DEF Due, LeadsTo, Takes
<1>11. Passed(q) = 0
  BY <1>8 DEF Passed, Forwards
<1>12. m.req = requests
  BY <1>3, <1>5, Orderly DEF Busy, Together, HeadHolds
<1>13. HeadStep /\ ~HeadExit
  BY DEF HeadStep, HeadExit, InOrder
<1> QED  BY <1>3, <1>4, <1>5, <1>6, <1>7, <1>8, <1>9, <1>10, <1>11, <1>12, <1>13, HeadAnswers

(* A verified block: the head goes on with all of it, ends with it, or    *)
(* stops inside it, alone.                                                 *)
LEMMA HeadAcceptInOrder ==
  ASSUME ClusterInv, InOrder, NEW b \in KeptBlocks, HeadAccept(b)
  PROVE  InOrder' \/ Alone'
<1> DEFINE m0 == HeadFrame("Accept", b, Last(b) = Eos)
           stopped(cut) == cancelled /\ ~(cut = Len(b) /\ m0.stop)
           m1(cut) == [m0 EXCEPT !.stop = @ \/ stopped(cut)]
           f0(cut) == IF stopped(cut) /\ Len(rank[0].tokens) + cut < NGen THEN <<m0, EndMarker(b)>> ELSE <<m0>>
<1>1. TypeOK /\ Ordinary(0) /\ 0 \in Ranks /\ SendResults = {TRUE} /\ NGen \in Nat
  BY RankZero, Orderly, ClusterAssumption DEF InOrder
<1>2. /\ rank[0].pc = "accept" /\ cancelled' = cancelled
      /\ UNCHANGED <<snaps, proc, entered, aborted, back, fresh, exiting, requests>>
  BY DEF HeadAccept, counts
<1>3. PICK cut \in (IF cancelled THEN 1..Len(b) ELSE {Len(b)}) : Adopt(0, m1(cut), CutTo(b, cut)) /\ chan' = Sent(f0(cut))
  BY <1>1 DEF HeadAccept
<1>4. PICK n \in Nat, l \in Nat : n = Len(rank[0].tokens) /\ l = Len(b) /\ l # 0 /\ n # 0
  <2>1. b \in Seq(Tokens) /\ Len(b) \in Nat \ {0}
    BY BlockType
  <2>2. PICK u \in Seq(Tokens) : u = rank[0].tokens /\ u # <<>>
    BY <1>1, <1>2, RankTypes DEF WellFormed
  <2>3. Len(u) \in Nat \ {0}
    BY <2>2
  <2> QED  BY <2>1, <2>2, <2>3
<1>5. PICK m \in Decisions : /\ m = m0 /\ m \in Frames /\ m.type = "Accept" /\ m.req = rank[0].req /\ m.step = n
                             /\ m.tokens = b /\ m.stop \in BOOLEAN
  <2>1. m0 \in Frames /\ m0.type = "Accept" /\ m0.req = rank[0].req /\ m0.step = n /\ m0.tokens = b /\ m0.stop \in BOOLEAN
    BY <1>1, <1>4, FrameTypes DEF HeadFrame
  <2> QED  BY <2>1, FrameKinds
<1>6. PICK e \in Frames : /\ e = EndMarker(b) /\ e.type = "Draft" /\ e.req = rank[0].req
                          /\ e.step = n + l /\ e.tokens = <<>> /\ e.stop = TRUE
  <2>1. EndMarker(b) \in Frames
    BY <1>1, FrameTypes
  <2>2. EndMarker(b).type = "Draft" /\ EndMarker(b).req = rank[0].req /\ EndMarker(b).step = n + l
        /\ EndMarker(b).tokens = <<>> /\ EndMarker(b).stop = TRUE
    BY <1>4 DEF EndMarker, HeadFrame
  <2> QED  BY <2>1, <2>2
<1>7. PICK s \in BOOLEAN : s <=> stopped(cut)
  <2>1. (IF stopped(cut) THEN TRUE ELSE FALSE) \in BOOLEAN
    OBVIOUS
  <2> QED  BY <2>1
<1>8. cut \in 1..l /\ (cut # l => s) /\ (s => cancelled)
  BY <1>3, <1>4, <1>7
<1>9. m1(cut) = [m EXCEPT !.stop = @ \/ s]
  BY <1>5, <1>7
<1>10. chan' = Sent(IF s /\ n + cut < NGen THEN <<m, e>> ELSE <<m>>)
  BY <1>3, <1>4, <1>5, <1>6, <1>7
<1>11. s /\ cut = l => m.stop = FALSE
  BY <1>4, <1>5, <1>7
<1>12. PICK d : d = m1(cut)
  OBVIOUS
<1>13. Adopt(0, d, CutTo(b, cut)) /\ d = [m EXCEPT !.stop = @ \/ s]
  BY <1>3, <1>9, <1>12
<1> HIDE DEF m0, m1, f0, stopped
<1>14. d \in Decisions /\ d.type = "Accept" /\ d.tokens = b /\ d.step = n /\ d.stop = (m.stop \/ s)
  <2>1. d.type = "Accept" /\ d.tokens = b /\ d.step = n /\ d.stop = (m.stop \/ s)
    BY <1>5, <1>13 DEF Decisions
  <2>2. d \in Decisions
    BY <1>5, <1>7, <1>13 DEF Decisions
  <2> QED  BY <2>1, <2>2
<1>15. HeadStep /\ ~HeadExit
  BY DEF HeadStep, HeadExit, InOrder
<1>16. PICK begun \in Seq(Int) : rank[0].req = requests /\ \A v \in Workers : Follows(v, begun)
  BY <1>2, Orderly DEF Busy, Together, HeadHolds
<1>17. CASE cut # l
  <2>1. cut \in Nat /\ cut > 0 /\ n + cut \in Nat /\ n + cut > n /\ n + cut # n + l /\ s
    BY <1>4, <1>8, <1>17
  <2>2. PICK kept \in Seq(Tokens) : kept = CutTo(b, cut) /\ Len(kept) = cut /\ kept # <<>>
    <3>1. b \in Seq(Tokens)
      BY BlockType
    <3>2. CutTo(b, cut) \in Seq(Tokens) /\ Len(CutTo(b, cut)) = cut
      BY <1>4, <1>8, <2>1, <3>1, CutProps
    <3>3. CutTo(b, cut) # <<>>
      BY <2>1, <3>2
    <3> QED  BY <3>2, <3>3
  <2>3. Adopt(0, d, kept) /\ d.stop
    BY <1>13, <1>14, <2>1, <2>2
  <2>4. /\ rank'[0].tokens = rank[0].tokens \o kept /\ rank'[0].tokens # <<>> /\ rank'[0].pc = "end"
        /\ rank'[0].ok = rank[0].ok /\ rank'[0].spec = rank[0].spec
        /\ \A j \in Ranks \ {0} : rank'[j] = rank[j]
    BY <1>1, <1>2, <1>14, <2>2, <2>3, AdoptProps
  <2>5. Len(rank'[0].tokens) = n + cut
    <3>1. PICK u \in Seq(Tokens) : u = rank[0].tokens
      BY <1>1, RankTypes
    <3>2. Len(u \o kept) = Len(u) + Len(kept)
      OBVIOUS
    <3> QED  BY <1>4, <2>2, <2>4, <3>1, <3>2
  <2>6. PICK f \in Seq(Frames) : chan' = Sent(f) /\ \A x \in Range(f) : x.step + Len(x.tokens) # n + cut
    <3>1. <<m, e>> \in Seq(Frames) /\ Range(<<m, e>>) = {m, e} /\ <<m>> \in Seq(Frames) /\ Range(<<m>>) = {m}
      BY <1>5, SmallSeqs
    <3>2. Len(<<>>) = 0 /\ (n + l) + 0 = n + l
      BY <1>4
    <3>3. m.step + Len(m.tokens) # n + cut /\ e.step + Len(e.tokens) # n + cut
      BY <1>4, <1>5, <1>6, <2>1, <3>2
    <3> QED  BY <1>10, <3>1, <3>3
  <2>7. Unmatched'
    <3>1. \A w \in Workers : rank'[w] = rank[w]
      BY <2>4, RankZero
    <3>2. \A w \in Workers : \A x \in Range(chan'[w]) : x \in Range(chan[w]) \/ x \in Range(f)
      BY <1>1, <2>6, SentFrames
    <3>3. rank[0].pc \notin {"end", "gather"} /\ n + cut > Len(rank[0].tokens)
      BY <1>2, <1>4, <2>1
    <3> QED  BY <1>1, <1>2, <1>16, <2>1, <2>5, <2>6, <3>1, <3>2, <3>3, HeadStopsInside
  <2>8. rank[0].ok /\ rank[0].spec
    BY <1>1, <1>2 DEF Ordinary, Normal
  <2> QED  BY <1>2, <1>8, <2>1, <2>4, <2>7, <2>8 DEF Alone, StoppedAlone
<1>18. CASE cut = l
  <2>1. CutTo(b, cut) = d.tokens
    <3>1. b \in Seq(Tokens)
      BY BlockType
    <3>2. cut \in Nat /\ cut >= Len(b)
      BY <1>4, <1>18
    <3> QED  BY <1>14, <3>1, <3>2, CutProps
  <2>2. /\ Ordinary(0)' /\ Due(rank'[0]) = LeadsTo(d, rank[0].spec) /\ Passed(rank'[0]) = 0
        /\ rank'[0].pc \in {"forward", "draft", "verify", "end"}
        /\ rank'[0].chunk = rank[0].chunk /\ rank'[0].snap = rank[0].snap /\ rank'[0].spec = rank[0].spec
    <3>1. d.type = FrameOf[rank[0].pc] /\ d.type # "Draft" /\ rank[0].pc \in {"decide", "draft", "accept"}
      BY <1>2, <1>14 DEF FrameOf
    <3>2. ~rank[0].inside
      BY <1>1, <1>2, RankTypes DEF WellFormed, Forwards
    <3>3. Adopt(0, d, d.tokens) /\ d.step = Len(rank[0].tokens) /\ UNCHANGED <<proc, aborted>>
      BY <1>2, <1>4, <1>13, <1>14, <2>1
    <3> QED  BY <1>1, <1>14, <3>1, <3>2, <3>3, AdoptsInOrder
  <2>3. Takes(m) = Due(rank[0])
    BY <1>2, <1>4, <1>5 DEF Takes, Due
  <2>4. n + l \in Nat
    BY <1>4
  <2>5. LeadsTo(d, rank[0].spec) = <<IF (m.stop \/ s) \/ n + l >= NGen THEN "RequestEnd" ELSE "Draft", n + l>>
    BY <1>4, <1>14 DEF LeadsTo
  <2>6. LeadsTo(m, rank[0].spec) = <<IF m.stop \/ n + l >= NGen THEN "RequestEnd" ELSE "Draft", n + l>>
    BY <1>4, <1>5 DEF LeadsTo
  <2>7. CASE ~(s /\ n + l < NGen)
    <3>1. s => n + l >= NGen
      BY <1>1, <2>4, <2>7
    <3>2. Due(rank'[0]) = LeadsTo(m, rank[0].spec)
      BY <2>2, <2>5, <2>6, <3>1
    <3>3. chan' = Sent(<<m>>) /\ m.type # "Draft" /\ m.type # "RequestEnd" /\ m.req = requests
      BY <1>5, <1>10, <1>16, <1>18, <2>7
    <3>4. InOrder'
      BY <1>2, <1>5, <1>15, <2>2, <2>3, <3>2, <3>3, HeadAnswers
    <3> QED  BY <3>4
  <2>8. CASE s /\ n + l < NGen
    <3>1. ~(n + l >= NGen) /\ m.stop = FALSE
      BY <1>1, <1>11, <1>18, <2>4, <2>8
    <3>2. LeadsTo(m, rank[0].spec) = <<"Draft", n + l>> /\ Takes(e) = <<"Draft", n + l>>
      BY <1>6, <2>6, <3>1 DEF Takes
    <3>3. Due(rank'[0]) = LeadsTo(e, rank[0].spec)
      <4>1. LeadsTo(e, rank[0].spec) = <<"RequestEnd", n + l>>
        BY <1>6 DEF LeadsTo
      <4> QED  BY <2>2, <2>5, <2>8, <4>1
    <3>4. rank'[0].pc = "end"
      <4>1. Due(rank'[0]) = <<"RequestEnd", n + l>>
        BY <2>2, <2>5, <2>8
      <4> QED  BY <2>2, <4>1 DEF Due
    <3>5. <<m, e>> \in Seq(Frames) /\ Range(<<m, e>>) = {m, e} /\ <<m>> \in Seq(Frames)
      BY <1>5, SmallSeqs
    <3>6. chan' = Sent(<<m, e>>)
      BY <1>10, <1>18, <2>8
    <3>7. ASSUME NEW w \in Workers
          PROVE  chan'[w] = chan[w] \o <<m, e>> /\ rank'[w] = rank[w] /\ chan[w] \in Seq(Frames)
      BY <1>1, <1>15, <3>5, <3>6, HeadLeaves, Orderly, SentProps DEF TypeOK
    <3>8. ASSUME NEW w \in Workers PROVE Script(w)' /\ Pace(w)'
      <4>1. PICK f, h, g, r, lead : /\ f = chan[w] /\ h = rank[0] /\ g = rank'[0] /\ r = rank[w] /\ lead = entered[0] - entered[w]
        OBVIOUS
      <4>2. f \in Seq(Frames) /\ InPace(f, h, r, lead) /\ Lead(Due(r), f, h.spec, Due(h))
        BY <3>7, <4>1 DEF InOrder, InStride, Script, Pace
      <4>3. f \o <<m>> \in Seq(Frames) /\ (f \o <<m>>) \o <<e>> = f \o <<m, e>>
        BY <1>5, <4>2
      <4>4. Lead(Due(r), f \o <<m>>, h.spec, LeadsTo(m, h.spec))
        BY <1>5, <2>3, <4>1, <4>2, LeadAppend
      <4>5. Lead(Due(r), (f \o <<m>>) \o <<e>>, h.spec, Due(g))
        BY <3>2, <3>3, <4>1, <4>3, <4>4, LeadAppend
      <4>6. Through(r) /\ lead = Passed(g) /\ f = <<>>
        BY <1>2, <2>2, <4>1, AllThrough DEF Forwards
      <4>7. g.pc \notin {"decide", "accept"} /\ (g.pc = "prefill" => g.chunk = 0)
        BY <3>4, <4>1
      <4>8. InPace(f \o <<m>>, g, r, lead)
        BY <1>5, <4>2, <4>6, <4>7, PaceSends
      <4>9. InPace((f \o <<m>>) \o <<e>>, g, r, lead)
        BY <1>6, <4>3, <4>6, <4>7, <4>8, PaceSends
      <4>10. chan'[w] = (f \o <<m>>) \o <<e>> /\ rank'[w] = r /\ rank'[0].spec = h.spec /\ entered'[0] - entered'[w] = lead
        BY <1>2, <2>2, <3>7, <4>1, <4>3
      <4> QED  BY <4>1, <4>5, <4>9, <4>10 DEF Script, Pace
    <3>9. rank[0].snap # None => (snaps'[0][rank[0].snap[1]] # None) = (rank'[0].chunk = Chunks)
      BY <1>2, <2>2 DEF InOrder, Busy
    <3>10. e.step > 1
      BY <1>4, <1>6
    <3>11. ASSUME NEW x \in Range(<<m, e>>)
           PROVE  /\ x.type \in {"Decision", "Draft", "Accept", "RequestEnd"} /\ x.req = requests
                  /\ x.type = "Draft" /\ x.stop => x.step > 1
                  /\ x.type = "RequestEnd" => x.ok
      BY <1>5, <1>6, <1>16, <3>5, <3>10, <3>11
    <3>12. rank[0].pc \notin {"idle", "gather"} /\ rank'[0].pc # "idle"
      BY <1>2, <3>4
    <3>13. InOrder'
      BY <1>2, <1>15, <2>2, <3>5, <3>7, <3>8, <3>9, <3>11, <3>12, HeadTells
    <3> QED  BY <3>13
  <2> QED  BY <2>7, <2>8
<1> QED  BY <1>17, <1>18

-----------------------------------------------------------------------------
(* The head between its requests.                                          *)

(* A worker at rest has nothing to read of a request it has run. *)
LEMMA NothingToRead ==
  ASSUME ClusterInv, InOrder, NEW w \in Workers, Busy, Runs(w), rank[w].pc = "idle", rank[0].pc = "gather"
  PROVE  chan[w] = <<>>
<1> SUFFICES ASSUME chan[w] # <<>> PROVE FALSE
  OBVIOUS
<1> DEFINE m == Head(chan[w])
<1>1. /\ m \in Frames /\ m \in Range(chan[w]) /\ Takes(m) = Due(rank[w]) /\ m.type \notin {"Abort", "Shutdown"}
  BY NextFrame
<1> HIDE DEF m
<1>2. Takes(m) = <<"Request", 0>>
  BY <1>1 DEF Due
<1>3. m.type \notin {"Decision", "Draft", "Accept", "RequestEnd"}
  BY <1>2 DEF Takes
<1>4. m.type \in {"Decision", "Draft", "Accept", "RequestEnd", "Request", "Op", "Abort", "Shutdown"}
  BY <1>1 DEF Frames, Decisions, Starts, Ends, SnapshotOps, Signals
<1>5. m.type # "Request" /\ m.type # "Op"
  BY <1>1, Orderly DEF Known, InOrder, InStride, Current
<1> QED  BY <1>1, <1>3, <1>4, <1>5

LEMMA HeadGatherInOrder ==
  ASSUME ClusterInv, InOrder, NEW w \in Workers, HeadGather(w)
  PROVE  InOrder'
<1> DEFINE all == rank[0].gathered \cup {w}
<1>1. TypeOK /\ Ordinary(0) /\ 0 \in Ranks /\ Busy
  BY RankZero, Orderly DEF InOrder, HeadGather, Busy
<1>2. /\ rank[0].pc = "gather" /\ w \notin rank[0].gathered /\ back[w] # <<>> /\ back' = [back EXCEPT ![w] = Tail(@)]
      /\ UNCHANGED <<kv, saveable, snaps, proc, entered, fresh, requests>>
  BY DEF HeadGather, data, counts
<1>3. PICK begun \in Seq(Int) : HeadHolds(begun) /\ \A v \in Workers : Follows(v, begun)
  BY <1>1, Orderly DEF Together
<1>4. rank[0].req = requests
  BY <1>3 DEF HeadHolds
<1>5. PICK x : x = [type |-> "Report", req |-> requests] /\ back[w] = <<x>> /\ Range(<<x>>) = {x} /\ Head(<<x>>) = x /\ Tail(<<x>>) = <<>>
  <2>1. back[w] = <<[type |-> "Report", req |-> requests]>>
    BY <1>2 DEF InOrder, InStride, Current
  <2>2. \A y : Range(<<y>>) = {y} /\ Head(<<y>>) = y /\ Tail(<<y>>) = <<>>
    BY DEF Range
  <2> QED  BY <2>1, <2>2
<1>6. /\ rank' = [rank EXCEPT ![0].gathered = IF all = Workers THEN {} ELSE all, ![0].pc = IF all = Workers THEN "idle" ELSE @]
      /\ UNCHANGED <<exiting, aborted, chan>>
  <2>1. Head(back[w]).type = "Report" /\ Head(back[w]).req = rank[0].req
    BY <1>4, <1>5
  <2> QED  BY <2>1 DEF HeadGather
<1>7. back'[w] = <<>> /\ \A v \in Workers : v # w => back'[v] = back[v]
  BY <1>1, <1>2, <1>5 DEF TypeOK
<1>8. HeadStep /\ ~HeadExit
  BY DEF HeadStep, HeadExit, InOrder
<1>9. \A v \in Workers : rank'[v] = rank[v]
  BY <1>1, <1>8, HeadLeaves
<1>10. PICK r, q, g, p : /\ r = rank[0] /\ q = rank'[0] /\ r \in Generations /\ q = [r EXCEPT !.gathered = g, !.pc = p]
                         /\ g = (IF all = Workers THEN {} ELSE all) /\ p = IF all = Workers THEN "idle" ELSE r.pc
  BY <1>1, <1>6, RankTypes DEF TypeOK
<1>11. /\ q.pc = p /\ q.gathered = g /\ q.req = r.req /\ q.ok = r.ok /\ q.tokens = r.tokens /\ q.spec = r.spec
       /\ q.chunk = r.chunk /\ q.snap = r.snap
  BY <1>10 DEF Generations
<1>12. Due(q) = Due(r) /\ Passed(q) = 0 /\ Passed(r) = 0
  BY <1>2, <1>10, <1>11 DEF Due, Passed, Forwards
<1>13. Ordinary(0)'
  <2>1. Normal(r, saveable[0]) /\ Up(0) /\ ~aborted[0] /\ (r.chunk = Chunks => kv[0] # <<>>) /\ r.pc = "gather"
    BY <1>1, <1>2, <1>10 DEF Ordinary
  <2>2. q.pc \in {"gather", "idle"}
    BY <1>10, <1>11, <2>1
  <2>3. Normal(q, saveable[0])
    BY <1>11, <2>1, <2>2 DEF Normal
  <2> QED  BY <1>2, <1>6, <1>10, <1>11, <2>1, <2>3 DEF Ordinary, Up
<1>14. ASSUME NEW v \in Workers PROVE Script(v)'
  BY <1>6, <1>9, <1>10, <1>11, <1>12 DEF InOrder, InStride, Script
<1>15. CASE all # Workers
  <2>1. p = "gather" /\ g = all
    BY <1>2, <1>10, <1>15
  <2> DEFINE more == rank'[0].gathered
  <2>2. /\ rank'[0].pc = "gather" /\ rank[0].pc = "gather" /\ more = all /\ rank'[0].spec = rank[0].spec
        /\ rank'[0].snap = rank[0].snap /\ rank'[0].chunk = rank[0].chunk
        /\ UNCHANGED <<chan, requests, saveable, snaps, entered>>
    BY <1>2, <1>6, <1>10, <1>11, <2>1
  <2>3. ASSUME NEW v \in Workers PROVE Pace(v)' /\ Current(v)' /\ SlotsAlike(v)'
    <3>1. Passed(rank'[0]) = Passed(rank[0])
      BY <1>10, <1>12
    <3>2. Pace(v)'
      BY <1>9, <2>2, <3>1 DEF InOrder, InStride, Pace, InPace
    <3>3. Current(v)'
      <4>1. Current(v)
        BY DEF InOrder, InStride
      <4>2. /\ Reported(v) => Reported(v)'
            /\ back'[v] # <<>> => v \notin more /\ back'[v] = back[v] /\ back[v] # <<>>
        <5>1. v = w => Reported(v)' /\ back'[v] = <<>>
          BY <1>7, <2>2 DEF Reported
        <5>2. v # w => back'[v] = back[v] /\ (v \in more <=> v \in rank[0].gathered)
          BY <1>7, <2>2
        <5>3. back[v] # <<>> => v \notin rank[0].gathered
          BY <4>1 DEF Current
        <5> QED  BY <2>2, <5>1, <5>2, <5>3 DEF Reported
      <4>3. Runs(v)' <=> Runs(v)
        BY <1>9, <2>2 DEF Runs
      <4>4. Busy'
        BY <2>2 DEF Busy
      <4> QED  BY <1>1, <1>9, <2>2, <4>1, <4>2, <4>3, <4>4 DEF Current
    <3>4. SlotsAlike(v)'
      BY <1>1, <1>9, <2>2 DEF InOrder, InStride, SlotsAlike, There, Busy, Runs
    <3> QED  BY <3>2, <3>3, <3>4
  <2>4. Busy' /\ rank'[0].snap # None => (snaps'[0][rank'[0].snap[1]] # None) = (rank'[0].chunk = Chunks)
    BY <1>1, <1>2, <1>10, <1>11 DEF InOrder
  <2> QED  BY <1>2, <1>6, <1>8, <1>13, <1>14, <2>3, <2>4, HeadInOrder
<1>16. CASE all = Workers
  <2>1. p = "idle"
    BY <1>10, <1>16
  <2>2. ~Busy'
    BY <1>10, <1>11, <2>1 DEF Busy
  <2>3. r.chunk = Chunks /\ r.req > 0
    BY <1>1, <1>2, <1>10 DEF Ordinary, Normal
  <2>4. ASSUME NEW v \in Workers PROVE Pace(v)' /\ Current(v)' /\ SlotsAlike(v)'
    <3>1. Reported(v)
      BY <1>5, <1>16 DEF Reported
    <3>2. Runs(v) /\ rank[v].pc = "idle"
      BY <1>3, <3>1 DEF Follows, ReportRight
    <3>3. chan[v] = <<>> /\ chan'[v] = <<>> /\ Range(<<>>) = {}
      BY <1>1, <1>2, <1>6, <3>2, NothingToRead, SmallSeqs
    <3>4. back'[v] = <<>>
      <4>1. v # w => v \in rank[0].gathered
        BY <1>16
      <4>2. back[v] # <<>> => v \notin rank[0].gathered
        BY DEF InOrder, InStride, Current
      <4> QED  BY <1>7, <4>1, <4>2
    <3>5. rank[v].chunk = Chunks
      <4>1. Normal(rank[v], saveable[v])
        BY RankZero DEF InOrder, Ordinary
      <4>2. rank[v].req > 0
        BY <1>4, <1>10, <2>3, <3>2 DEF Runs
      <4> QED  BY <3>2, <4>1, <4>2 DEF Normal
    <3>6. Pace(v)'
      <4>1. entered[0] - entered[v] = Passed(rank[0]) - Passed(rank[v])
        BY <3>3 DEF InOrder, InStride, Pace, InPace
      <4> QED  BY <1>2, <1>9, <1>10, <1>12, <3>3, <4>1 DEF Pace, InPace
    <3>7. Current(v)'
      <4>1. Runs(v)' /\ rank[v].spec = rank[0].spec
        BY <1>2, <1>9, <3>2 DEF Runs, InOrder, InStride, Current
      <4> QED  BY <1>9, <1>10, <1>11, <2>1, <3>3, <3>4, <4>1 DEF Current
    <3>8. SlotsAlike(v)'
      <4> SUFFICES ASSUME NEW s \in Slots PROVE WillHave(chan[v], snaps[v][s] # None, s, There(v, s))'
        BY DEF SlotsAlike
      <4>1. \A k \in DOMAIN chan[v] : ~OpOn(chan[v][k], s)
        BY <3>3
      <4>2. WillHave(chan[v], snaps[v][s] # None, s, There(v, s))
        BY DEF InOrder, InStride, SlotsAlike
      <4>3. (snaps[v][s] # None) = There(v, s)
        BY <4>1, <4>2, SlotsAsTheyAre
      <4>4. There(v, s) = (snaps[0][s] # None)
        <5>1. CASE rank[0].snap = <<s>>
          <6>1. rank[0].snap # None /\ rank[0].snap[1] = s
            BY <5>1 DEF None
          <6>2. snaps[0][s] # None
            BY <1>1, <1>10, <2>3, <6>1 DEF InOrder
          <6>3. There(v, s)
            BY <1>1, <3>2, <3>5, <5>1 DEF There
          <6>4. There(v, s) = (Runs(v) /\ rank[v].chunk = Chunks)
            BY <1>1, <5>1 DEF There
          <6> QED  BY <3>2, <3>5, <6>2, <6>4
        <5>2. CASE rank[0].snap # <<s>>
          BY <5>2 DEF There
        <5> QED  BY <5>1, <5>2
      <4>5. There(v, s)' = (snaps[0][s] # None)
        BY <1>2, <2>2 DEF There
      <4>6. (snaps'[v][s] # None) = There(v, s)'
        BY <1>2, <4>3, <4>4, <4>5
      <4>7. \A k \in DOMAIN chan'[v] : ~OpOn(chan'[v][k], s)
        BY <3>3
      <4> QED  BY <4>6, <4>7, SlotsAsTheyAre
    <3> QED  BY <3>6, <3>7, <3>8
  <2> QED  BY <1>2, <1>6, <1>8, <1>13, <1>14, <2>2, <2>4, HeadInOrder
<1> QED  BY <1>15, <1>16

LEMMA HeadStartInOrder ==
  ASSUME ClusterInv, InOrder, NEW restore \in SlotOrNone, NEW snap \in SlotOrNone, NEW spec \in Modes,
         HeadStart(restore, snap, spec)
  PROVE  InOrder'
<1> DEFINE m0 == [type |-> "Request", req |-> requests + 1, restore |-> restore, snap |-> snap, spec |-> spec]
<1>1. TypeOK /\ 0 \in Ranks /\ SendResults = {TRUE} /\ ~Busy /\ Chunks # 0 /\ NGen > 0 /\ requests \in Nat
  <2>1. ~Busy /\ Chunks # 0 /\ NGen > 0
    BY ClusterAssumption DEF HeadStart, Busy
  <2> QED  BY <2>1, RankZero, Orderly DEF TypeOK
<1>2. /\ restore # None => snaps[0][restore[1]] # None
      /\ snap # None => snaps[0][snap[1]] = None
      /\ requests' = requests + 1
      /\ UNCHANGED <<snaps, proc, entered, back, fresh>>
  BY DEF HeadStart
<1>3. Begin(0, m0) /\ chan' = Sent(<<m0>>) /\ UNCHANGED <<exiting, aborted>>
  BY <1>1 DEF HeadStart
<1>4. PICK m \in Starts : /\ m = m0 /\ m \in Frames /\ m.type = "Request" /\ m.req = requests + 1 /\ m.restore = restore
                          /\ m.snap = snap /\ m.spec = spec
  <2>1. m0 \in Starts
    BY <1>1, ClusterAssumption DEF Starts
  <2>2. m0 \in Frames
    BY <2>1 DEF Frames
  <2> QED  BY <2>1, <2>2
<1> HIDE DEF m0
<1>5. /\ rank'[0].req = requests + 1 /\ rank'[0].chunk = 0 /\ rank'[0].inside = FALSE /\ rank'[0].snap = snap
      /\ rank'[0].tokens = <<>> /\ rank'[0].spec = spec /\ rank'[0].pc = "prefill" /\ rank'[0].ok = TRUE
      /\ \A j \in Ranks \ {0} : rank'[j] = rank[j]
  BY <1>1, <1>2, <1>3, <1>4, BeginProps
<1>6. HeadStep /\ ~HeadExit
  BY DEF HeadStep, HeadExit, InOrder
<1>7. Len(<<>>) = 0
  OBVIOUS
<1>8. Ordinary(0)'
  BY <1>1, <1>2, <1>3, <1>5, <1>7, RankZero DEF InOrder, Ordinary, Normal, Up
<1>9. Due(rank'[0]) = <<"Decision", 0>> /\ Passed(rank'[0]) = 0
  BY <1>5, <1>7 DEF Due, Passed, Forwards
<1>10. ASSUME NEW w \in Workers PROVE Script(w)' /\ Pace(w)' /\ Current(w)' /\ SlotsAlike(w)'
  <2>1. /\ rank[w].pc = "idle" /\ rank'[w] = rank[w] /\ saveable'[w] = saveable[w] /\ chan[w] \in Seq(Frames)
        /\ InStride(w) /\ (\A x \in Range(chan[w]) : x.type = "Op") /\ back[w] = <<>> /\ rank[w].req <= requests
        /\ rank[w].req \in Nat
    <3>1. rank'[w] = rank[w] /\ saveable'[w] = saveable[w]
      BY <1>1, <1>6, HeadLeaves
    <3>2. rank[w].pc = "idle" /\ rank[w].req <= requests /\ rank[w].req \in Nat
      BY <1>1, Orderly, RankZero, RankTypes DEF Agrees, Known
    <3>3. InStride(w)
      BY DEF InOrder
    <3>4. (\A x \in Range(chan[w]) : x.type = "Op") /\ back[w] = <<>>
      BY <1>1, <3>3 DEF InStride, Current, Busy
    <3>5. chan[w] \in Seq(Frames)
      BY <1>1 DEF TypeOK
    <3> QED  BY <3>1, <3>2, <3>3, <3>4, <3>5
  <2>2. <<m>> \in Seq(Frames) /\ Range(<<m>>) = {m}
    BY <1>4, SmallSeqs
  <2>3. chan'[w] = chan[w] \o <<m>>
    BY <1>1, <1>3, <1>4, <2>2, Orderly, SentProps
  <2>4. PICK f, h, g, r, lead : /\ f = chan[w] /\ h = rank[0] /\ g = rank'[0] /\ r = rank[w] /\ lead = entered[0] - entered[w]
    OBVIOUS
  <2>5. Script(w)'
    <3>1. Due(h) = <<"Request", 0>> /\ Takes(m) = <<"Request", 0>> /\ LeadsTo(m, spec) = <<"Decision", 0>>
      BY <1>1, <1>4, <2>4 DEF Due, Takes, LeadsTo, Busy
    <3>2. Lead(Due(r), f, h.spec, Due(h)) /\ f \in Seq(Frames) /\ \A x \in Range(f) : x.type = "Op"
      BY <2>1, <2>4 DEF InStride, Script
    <3>3. Lead(Due(r), f, spec, Due(h))
      BY <3>2, LeadOps
    <3>4. Lead(Due(r), f \o <<m>>, spec, LeadsTo(m, spec))
      BY <1>4, <3>1, <3>2, <3>3, LeadAppend
    <3> QED  BY <1>5, <1>9, <2>1, <2>3, <2>4, <3>1, <3>4 DEF Script
  <2>6. Pace(w)'
    <3>1. Through(r) /\ lead = 0
      BY <1>1, <2>4, AllThrough DEF Busy, Forwards
    <3>2. InPace(f, h, r, lead) /\ f \in Seq(Frames)
      BY <2>1, <2>4 DEF InStride, Pace
    <3>3. Passed(g) = 0 /\ g.pc \notin {"decide", "accept"} /\ (g.pc = "prefill" => g.chunk = 0)
      BY <1>5, <1>9, <2>4
    <3>4. InPace(f \o <<m>>, g, r, lead)
      BY <1>4, <3>1, <3>2, <3>3, PaceSends
    <3>5. entered'[0] - entered'[w] = lead
      BY <1>2, <2>4
    <3> QED  BY <2>1, <2>3, <2>4, <3>4, <3>5 DEF Pace
  <2>7. ~Runs(w)'
    BY <1>1, <1>2, <2>1 DEF Runs
  <2>8. Range(chan'[w]) = Range(chan[w]) \cup {m}
    <3>1. PICK q \in Seq(Frames), e \in Seq(Frames) : q = chan[w] /\ e = <<m>> /\ Range(e) = {m}
      BY <2>1, <2>2
    <3>2. Range(q \o e) = Range(q) \cup Range(e)
      BY ConcatProps
    <3> QED  BY <2>3, <3>1, <3>2
  <2>9. Current(w)'
    <3>1. Busy' /\ rank'[0].pc # "gather" /\ back'[w] = <<>>
      BY <1>2, <1>5, <2>1 DEF Busy
    <3>2. ASSUME NEW x \in Range(chan'[w])
          PROVE  /\ x.type \notin {"Abort", "Shutdown", "Decision", "Draft", "Accept", "RequestEnd"}
                 /\ x.type = "Op" /\ x.save => saveable'[w]
                 /\ x.type = "Request" => x.spec = rank'[0].spec
      BY <1>4, <1>5, <2>1, <2>8, <3>2 DEF InStride, Current
    <3> QED  BY <1>4, <2>7, <2>8, <3>1, <3>2 DEF Current
  <2>10. SlotsAlike(w)'
    <3>1. ASSUME NEW s \in Slots
          PROVE  /\ There(w, s)' = IF OpOn(m, s) THEN m.save ELSE There(w, s)
                 /\ (snaps'[w][s] # None) = (snaps[w][s] # None)
      <4>1. ~OpOn(m, s)
        BY <1>4 DEF OpOn
      <4>2. There(w, s) = (snaps[0][s] # None)
        BY <1>1 DEF There
      <4>3. CASE snap = <<s>>
        <5>1. snap # None /\ snap[1] = s
          BY <4>3 DEF None
        <5>2. (snaps[0][s] # None) = FALSE
          BY <1>2, <5>1
        <5>3. There(w, s)' = FALSE
          BY <1>5, <2>7, <4>3 DEF There, Busy
        <5> QED  BY <1>2, <4>1, <4>2, <5>2, <5>3
      <4>4. CASE snap # <<s>>
        <5>1. There(w, s)' = (snaps[0][s] # None)
          BY <1>2, <1>5, <4>4 DEF There, Busy
        <5> QED  BY <1>2, <4>1, <4>2, <5>1
      <4> QED  BY <4>3, <4>4
    <3> QED  BY <1>1, <1>4, <2>1, <2>3, <3>1, SlotsSent DEF InStride
  <2> QED  BY <2>5, <2>6, <2>9, <2>10
<1>11. Busy' /\ rank'[0].snap # None => (snaps'[0][rank'[0].snap[1]] # None) = (rank'[0].chunk = Chunks)
  BY <1>1, <1>2, <1>5
<1> QED  BY <1>2, <1>3, <1>6, <1>8, <1>10, <1>11, HeadInOrder

(* An operation on a snapshot, sent between requests. *)
LEMMA HeadOpInOrder ==
  ASSUME ClusterInv, InOrder, HeadStep, ~HeadExit, ~Busy, NEW s \in Slots, NEW save \in BOOLEAN, chan' = Sent(<<Op(save, s)>>),
         UNCHANGED <<rank, kv, saveable, proc, entered, aborted, back, fresh, exiting, requests>>,
         (snaps'[0][s] # None) = save, \A s2 \in Slots \ {s} : snaps'[0][s2] = snaps[0][s2],
         save => \A w \in Workers : saveable[w]
  PROVE  InOrder'
<1>1. TypeOK /\ 0 \in Ranks /\ rank[0].pc = "idle"
  BY RankZero, Orderly DEF Busy
<1>2. PICK m \in Frames : m = Op(save, s) /\ m.type = "Op" /\ m.save = save /\ m.slot = s
  <2>1. Op(save, s) \in Frames
    BY <1>1, FrameTypes
  <2> QED  BY <2>1 DEF Op
<1>3. <<m>> \in Seq(Frames) /\ Range(<<m>>) = {m}
  BY <1>2, SmallSeqs
<1>4. Ordinary(0)'
  BY <1>1 DEF InOrder, Ordinary, Up
<1>5. ASSUME NEW w \in Workers PROVE Script(w)' /\ Pace(w)' /\ Current(w)' /\ SlotsAlike(w)'
  <2>1. snaps'[w] = snaps[w] /\ InStride(w) /\ chan[w] \in Seq(Frames) /\ chan'[w] = chan[w] \o <<m>>
    BY <1>1, <1>2, <1>3, HeadLeaves, Orderly, SentProps DEF TypeOK, InOrder
  <2>2. PICK f, h, r, lead : f = chan[w] /\ h = rank[0] /\ r = rank[w] /\ lead = entered[0] - entered[w]
    OBVIOUS
  <2>3. Script(w)'
    <3>1. Due(h) = <<"Request", 0>> /\ Takes(m) = <<"Request", 0>> /\ LeadsTo(m, h.spec) = <<"Request", 0>>
      BY <1>1, <1>2, <2>2 DEF Due, Takes, LeadsTo
    <3>2. Lead(Due(r), f, h.spec, Due(h)) /\ f \in Seq(Frames)
      BY <2>1, <2>2 DEF InStride, Script
    <3>3. Lead(Due(r), f \o <<m>>, h.spec, Due(h))
      BY <3>1, <3>2, LeadAppend
    <3> QED  BY <2>1, <2>2, <3>3 DEF Script
  <2>4. Pace(w)'
    <3>1. Through(r) /\ lead = 0
      BY <1>1, <2>2, AllThrough DEF Forwards
    <3>2. InPace(f, h, r, lead) /\ f \in Seq(Frames)
      BY <2>1, <2>2 DEF InStride, Pace
    <3>3. Passed(h) = 0 /\ h.pc \notin {"decide", "accept"} /\ (h.pc = "prefill" => h.chunk = 0)
      BY <1>1, <2>2 DEF Passed, Forwards
    <3>4. InPace(f \o <<m>>, h, r, lead)
      BY <1>2, <3>1, <3>2, <3>3, PaceSends
    <3> QED  BY <2>1, <2>2, <3>4 DEF Pace
  <2>5. Range(chan'[w]) = Range(chan[w]) \cup {m}
    <3>1. PICK q \in Seq(Frames), e \in Seq(Frames) : q = chan[w] /\ e = <<m>> /\ Range(e) = {m}
      BY <1>3, <2>1
    <3>2. Range(q \o e) = Range(q) \cup Range(e)
      BY ConcatProps
    <3> QED  BY <2>1, <3>1, <3>2
  <2>6. Current(w)'
    <3>1. Current(w)
      BY <2>1 DEF InStride
    <3>2. (\A x \in Range(chan'[w]) : x.type # "Request") <=> (\A x \in Range(chan[w]) : x.type # "Request")
      BY <1>2, <2>5
    <3>3. ASSUME NEW x \in Range(chan'[w])
          PROVE  /\ x.type \notin {"Abort", "Shutdown"} /\ x.type = "Op"
                 /\ x.type = "Op" /\ x.save => saveable[w]
      BY <1>2, <2>5, <3>1, <3>3 DEF Current
    <3> QED  BY <1>1, <3>1, <3>2, <3>3 DEF Current, Runs, Reported
  <2>7. SlotsAlike(w)'
    <3>1. ASSUME NEW s2 \in Slots
          PROVE  /\ There(w, s2)' = IF OpOn(m, s2) THEN m.save ELSE There(w, s2)
                 /\ (snaps'[w][s2] # None) = (snaps[w][s2] # None)
      <4>1. There(w, s2) = (snaps[0][s2] # None) /\ There(w, s2)' = (snaps'[0][s2] # None)
        BY DEF There, Busy
      <4>2. CASE s2 = s
        BY <1>2, <2>1, <4>1, <4>2 DEF OpOn
      <4>3. CASE s2 # s
        BY <1>2, <2>1, <4>1, <4>3 DEF OpOn
      <4> QED  BY <4>2, <4>3
    <3> QED  BY <1>1, <1>2, <2>1, <3>1, SlotsSent DEF InStride
  <2> QED  BY <2>3, <2>4, <2>6, <2>7
<1>6. ~Busy'
  BY DEF Busy
<1> QED  BY <1>4, <1>5, <1>6, HeadInOrder

LEMMA FreeSlotInOrder ==
  ASSUME ClusterInv, InOrder, NEW s \in Slots, FreeSlot(s)
  PROVE  InOrder'
<1>1. TypeOK /\ 0 \in Ranks /\ SendResults = {TRUE} /\ ~Busy
  BY RankZero, Orderly DEF FreeSlot, Busy
<1>2. /\ snaps' = [snaps EXCEPT ![0][s] = None]
      /\ UNCHANGED <<rank, kv, saveable, proc, entered, back, fresh, requests>>
  BY DEF FreeSlot
<1>3. chan' = Sent(<<Op(FALSE, s)>>) /\ UNCHANGED <<exiting, aborted>>
  BY <1>1 DEF FreeSlot
<1>4. (snaps'[0][s] # None) = FALSE /\ \A s2 \in Slots \ {s} : snaps'[0][s2] = snaps[0][s2]
  BY <1>1, <1>2 DEF TypeOK
<1>5. HeadStep /\ ~HeadExit
  BY DEF HeadStep, HeadExit, InOrder
<1> QED  BY <1>1, <1>2, <1>3, <1>4, <1>5, HeadOpInOrder

(* What can be saved on one rank can on all. *)
LEMMA SaveableAlike ==
  ASSUME ClusterInv, InOrder, ~Busy, NEW w \in Workers
  PROVE  saveable[w] = saveable[0] /\ rank[w].pc = "idle" /\ \A m \in Range(chan[w]) : m.type = "Op"
<1>1. Normal(rank[0], saveable[0]) /\ Normal(rank[w], saveable[w])
  BY RankZero DEF InOrder, Ordinary
<1>2. rank[w].pc = "idle" /\ rank[w].tokens = rank[0].tokens
  BY <1>1, Orderly DEF Agrees, Normal
<1>3. \A m \in Range(chan[w]) : m.type = "Op"
  BY DEF InOrder, InStride, Current
<1>4. rank[w].spec = rank[0].spec
  BY <1>3 DEF InOrder, InStride, Current
<1>5. saveable[w] = saveable[0]
  BY <1>1, <1>2, <1>4 DEF Normal, Busy
<1> QED  BY <1>2, <1>3, <1>5

(* A turn is saved everywhere, or stops the workers. *)
LEMMA SaveTurnInOrder ==
  ASSUME ClusterInv, InOrder, NEW s \in Slots, SaveTurn(s), faults \in Nat, faults' = faults
  PROVE  InOrder' \/ \A w \in Workers : Done(w)'
<1>1. TypeOK /\ 0 \in Ranks /\ SendResults = {TRUE} /\ ~Busy /\ rank[0].tokens # <<>>
  BY RankZero, Orderly DEF SaveTurn, Busy
<1>2. UNCHANGED <<rank, kv, saveable, proc, entered, back, fresh, requests>>
  BY DEF SaveTurn
<1>3. PICK saved \in BOOLEAN :
        /\ IF saved /\ saveable[0]
           THEN chan' = Sent(<<Op(TRUE, s)>>) /\ snaps' = [snaps EXCEPT ![0][s] = kv[0]]
           ELSE chan' = Sent(<<Op(TRUE, s), Op(FALSE, s), Op(FALSE, s)>>) /\ UNCHANGED snaps
        /\ Fault(~saved) /\ UNCHANGED <<exiting, aborted>>
  BY <1>1 DEF SaveTurn, SaveResults
<1>4. saved
  <2>1. faults = faults + (IF ~saved THEN 1 ELSE 0)
    BY <1>3 DEF Fault
  <2> QED  BY <2>1
<1>5. HeadStep /\ ~HeadExit
  BY DEF HeadStep, HeadExit, InOrder
<1>6. CASE saveable[0]
  <2>1. chan' = Sent(<<Op(TRUE, s)>>) /\ snaps' = [snaps EXCEPT ![0][s] = kv[0]]
    BY <1>3, <1>4, <1>6
  <2>2. kv[0] # <<>>
    BY <1>1 DEF InOrder, Ordinary, Normal
  <2>3. snaps'[0][s] = kv[0] /\ \A s2 \in Slots \ {s} : snaps'[0][s2] = snaps[0][s2]
    BY <1>1, <2>1 DEF TypeOK
  <2>4. (snaps'[0][s] # None) = TRUE
    BY <2>2, <2>3 DEF None
  <2>5. \A w \in Workers : saveable[w]
    BY <1>1, <1>6, SaveableAlike
  <2> QED  BY <1>1, <1>2, <1>3, <1>5, <2>1, <2>3, <2>4, <2>5, HeadOpInOrder
<1>7. CASE ~saveable[0]
  <2> SUFFICES ASSUME NEW w \in Workers PROVE Done(w)'
    OBVIOUS
  <2>1. PICK f \in Seq(Frames) : f = <<Op(TRUE, s), Op(FALSE, s), Op(FALSE, s)>>
    BY <1>1, OpFrames
  <2>2. chan'[w] = chan[w] \o f /\ chan[w] \in Seq(Frames)
    BY <1>1, <1>3, <1>7, <2>1, Orderly, SentProps DEF TypeOK
  <2>3. 1 \in DOMAIN f /\ f[1].type = "Op" /\ f[1].save = TRUE
    BY <2>1 DEF Op
  <2>4. PICK q \in Seq(Frames), k \in Nat : q = chan[w] /\ k = Len(q) + 1
    BY <2>2
  <2>5. /\ \A l \in DOMAIN q : l \in DOMAIN (q \o f) /\ (q \o f)[l] = q[l]
        /\ k \in DOMAIN (q \o f) /\ (q \o f)[k] = f[1]
    BY <2>3, <2>4, ConcatProps
  <2>6. \A l \in DOMAIN q : q[l].type = "Op"
    BY <1>1, <2>4, SaveableAlike DEF Range
  <2>7. ASSUME NEW l \in 1..k PROVE chan'[w][l].type # "Request"
    <3>1. l = k \/ l \in DOMAIN q
      BY <2>4
    <3> QED  BY <2>2, <2>3, <2>4, <2>5, <2>6, <3>1
  <2>8. rank'[w].pc = "idle" /\ ~saveable'[w]
    BY <1>1, <1>2, <1>7, SaveableAlike
  <2>9. k \in DOMAIN chan'[w] /\ chan'[w][k].type = "Op" /\ chan'[w][k].save
    BY <2>2, <2>3, <2>4, <2>5
  <2> QED  BY <2>7, <2>8, <2>9 DEF Done
<1> QED  BY <1>6, <1>7

LEMMA HeadShutdownDone ==
  ASSUME ClusterInv, InOrder, HeadShutdown, NEW w \in Workers
  PROVE  Done(w)'
<1>1. TypeOK /\ 0 \in Ranks /\ ~Busy
  BY RankZero, Orderly DEF HeadShutdown, Busy
<1>2. PICK f \in Seq(Frames) : f = <<[type |-> "Shutdown"]>> /\ Range(f) = {[type |-> "Shutdown"]}
  BY <1>1, FrameTypes, SmallSeqs
<1>3. proc'[0] = "exited" /\ rank' = rank /\ chan' = Sent(f)
  BY <1>1, <1>2 DEF HeadShutdown, TypeOK
<1>4. chan'[w] = chan[w] \/ chan'[w] = chan[w] \o f
  BY <1>1, <1>3, SentFrames
<1>5. \A m \in Range(chan'[w]) : m \in Range(chan[w]) \/ m \in Range(f)
  BY <1>1, <1>4, MoreFrames
<1>6. \A m \in Range(chan'[w]) : m.type # "Request"
  BY <1>1, <1>2, <1>5, SaveableAlike
<1>7. \A k \in DOMAIN chan'[w] : chan'[w][k].type # "Request"
  BY <1>6 DEF Range
<1>8. rank'[w].pc = "idle"
  BY <1>1, <1>3, SaveableAlike
<1> QED  BY <1>3, <1>7, <1>8 DEF Done

-----------------------------------------------------------------------------
(* What needs a fault, or something out of order.                          *)
LEMMA NoFault ==
  ASSUME NEW P, faults \in Nat, faults' = faults, Fault(P)
  PROVE  ~P
<1>1. faults = faults + (IF P THEN 1 ELSE 0)
  BY DEF Fault
<1> QED  BY <1>1

LEMMA HeadFailsNot ==
  ASSUME ClusterInv, InOrder, faults \in Nat, faults' = faults,
         \/ HeadWatchdog \/ HeadExit \/ BreakForward(0) \/ LocalFailure(0)
         \/ \E w \in Workers : HeadGatherFails(w)
  PROVE  FALSE
<1>1. TypeOK /\ Lockstep /\ 0 \in Ranks /\ all_alive /\ ~async_error(0) /\ ~aborted[0] /\ ~exiting
  BY RankZero, Orderly DEF InOrder
<1>2. CASE HeadWatchdog \/ HeadExit \/ BreakForward(0)
  BY <1>1, <1>2 DEF HeadWatchdog, HeadExit, BreakForward
<1>3. CASE LocalFailure(0)
  <2>1. Fault(TRUE)
    BY <1>3 DEF LocalFailure
  <2> QED  BY <2>1, NoFault
<1>4. ASSUME NEW w \in Workers, HeadGatherFails(w) PROVE FALSE
  <2>1. /\ rank[0].pc = "gather" /\ w \notin rank[0].gathered /\ back[w] = <<>> /\ Fault(~(closed(w) \/ Silent(w)))
    BY <1>4 DEF HeadGatherFails
  <2>2. Silent(w)
    <3>1. closed(w) \/ Silent(w)
      <4>1. PICK x \in BOOLEAN : x = ~(closed(w) \/ Silent(w))
        OBVIOUS
      <4>2. Fault(x)
        BY <2>1, <4>1
      <4> QED  BY <4>1, <4>2, NoFault
    <3> QED  BY <3>1, Orderly
  <2>3. w \in Ranks /\ w # 0 /\ Up(w) /\ InStride(w)
    BY RankZero, Orderly DEF InOrder
  <2>4. CASE rank[w].pc = "idle" /\ chan[w] = <<>>
    <3>1. Range(chan[w]) = {} /\ Range(back[w]) = {}
      BY <2>1, <2>4, SmallSeqs
    <3>2. Runs(w)
      BY <2>3, <3>1 DEF InStride, Current
    <3>3. Reported(w)
      BY <2>1, <2>3, <2>4, <3>2 DEF InStride, Current
    <3> QED  BY <2>1, <3>1, <3>3 DEF Reported
  <2>5. ASSUME NEW j \in Ranks, entered[j] < entered[w] PROVE FALSE
    <3>1. entered[0] - entered[w] = 0 /\ entered[0] = 0
      <4>1. rank[0].pc \notin Forwards
        BY <2>1 DEF Forwards
      <4>2. entered[0] - entered[w] = 0
        BY <4>1, AllThrough
      <4>3. ~rank[0].inside
        BY <1>1, <4>1, RankTypes DEF WellFormed
      <4> QED  BY <1>1, <4>2, <4>3 DEF Lockstep
    <3>2. entered[j] \in {0, 1} /\ entered[w] \in {0, 1}
      BY <1>1, <2>3 DEF Lockstep
    <3> QED  BY <2>5, <3>1, <3>2
  <2>6. rank[w].pc # "gather"
    BY <2>3 DEF InStride
  <2> HIDE <2>5
  <2> QED  BY <2>2, <2>3, <2>4, <2>5, <2>6 DEF Silent
<1> QED  BY <1>2, <1>3, <1>4

LEMMA NothingGoesWrong ==
  ASSUME ClusterInv, InOrder, faults \in Nat, faults' = faults,
         \/ \E i \in Ranks : Dies(i) \/ Freezes(i)
         \/ \E w \in Workers : HeartbeatOverdue(w) \/ HeartbeatHeard(w)
  PROVE  FALSE
<1>1. ASSUME NEW i \in Ranks, Dies(i) \/ Freezes(i) PROVE FALSE
  <2>1. Fault(TRUE)
    BY <1>1 DEF Dies, Freezes
  <2> QED  BY <2>1, NoFault
<1>2. ASSUME NEW w \in Workers, HeartbeatOverdue(w) PROVE FALSE
  <2>1. ~frozen(w)
    <3>1. proc[0] = "up" /\ proc[w] = "up"
      BY RankZero, Orderly DEF Up
    <3> QED  BY <3>1 DEF frozen
  <2>2. Fault(~frozen(w))
    BY <1>2 DEF HeartbeatOverdue
  <2>3. PICK x \in BOOLEAN : x = ~frozen(w)
    OBVIOUS
  <2>4. Fault(x)
    BY <2>2, <2>3
  <2> QED  BY <2>1, <2>3, <2>4, NoFault
<1>3. ASSUME NEW w \in Workers, HeartbeatHeard(w) PROVE FALSE
  BY <1>3 DEF HeartbeatHeard, InOrder, InStride
<1> QED  BY <1>1, <1>2, <1>3

-----------------------------------------------------------------------------
(* A step in order. *)
LEMMA NothingMoves ==
  ASSUME InOrder, UNCHANGED <<rank, data, proc, entered, aborted, links, exiting, counts>>
  PROVE  InOrder'
<1>1. UNCHANGED <<kv, saveable, snaps, chan, back, fresh, requests>>
  BY DEF data, links, counts
<1>2. \A i \in Ranks : Ordinary(i)'
  BY <1>1 DEF InOrder, Ordinary, Up
<1>3. ASSUME NEW w \in Workers PROVE InStride(w)'
  <2>1. InStride(w)
    BY DEF InOrder
  <2>2. Script(w)' /\ Pace(w)'
    BY <1>1, <2>1 DEF InStride, Script, Pace
  <2>3. Current(w)'
    BY <1>1, <2>1 DEF InStride, Current, Runs, Reported, Busy
  <2>4. SlotsAlike(w)'
    BY <1>1, <2>1 DEF InStride, SlotsAlike, There, Busy, Runs
  <2> QED  BY <1>1, <2>1, <2>2, <2>3, <2>4 DEF InStride
<1> QED  BY <1>1, <1>2, <1>3 DEF InOrder, Busy

LEMMA OrderStep ==
  ASSUME ClusterInv, InOrder, [Next]_vars, faults \in Nat, faults' = faults
  PROVE  InOrder' \/ (\A w \in Workers : Done(w)') \/ Alone'
<1>1. CASE HeadStep
  <2>1. ASSUME NEW restore \in SlotOrNone, NEW snap \in SlotOrNone, NEW spec \in Modes, HeadStart(restore, snap, spec)
        PROVE  InOrder'
    BY <2>1, HeadStartInOrder
  <2>2. CASE CancelPrefill
    BY <2>2, CancelPrefillAlone
  <2>3. ASSUME NEW t \in Tokens, HeadDecide(t) PROVE InOrder'
    BY <2>3, HeadDecideInOrder
  <2>4. CASE HeadDraft \/ HeadEnd
    BY <2>4, HeadDraftInOrder, HeadEndInOrder
  <2>5. ASSUME NEW b \in KeptBlocks, HeadAccept(b) PROVE InOrder' \/ Alone'
    BY <2>5, HeadAcceptInOrder
  <2>6. CASE HeadShutdown
    BY <2>6, HeadShutdownDone
  <2>7. CASE HeadWatchdog \/ HeadExit
    BY <2>7, HeadFailsNot
  <2>8. ASSUME NEW w \in Workers, HeadGather(w) \/ HeadGatherFails(w) PROVE InOrder'
    BY <2>8, HeadGatherInOrder, HeadFailsNot
  <2>9. ASSUME NEW s \in Slots, SaveTurn(s) PROVE InOrder' \/ \A w \in Workers : Done(w)'
    BY <2>9, SaveTurnInOrder
  <2>10. ASSUME NEW s \in Slots, FreeSlot(s) PROVE InOrder'
    BY <2>10, FreeSlotInOrder
  <2> QED  BY <1>1, <2>1, <2>2, <2>3, <2>4, <2>5, <2>6, <2>7, <2>8, <2>9, <2>10 DEF HeadStep
<1>2. ASSUME NEW w \in Workers, WorkerStep(w) \/ Compute(w) PROVE InOrder'
  BY <1>2, WorkerStaysInOrder
<1>3. ASSUME Compute(0) PROVE InOrder'
  BY <1>3, HeadEnterInOrder, HeadLeaveInOrder, HeadStartDecodeInOrder, HeadFailsNot DEF Compute
<1>4. CASE ClientLeaves \/ UNCHANGED vars
  BY <1>4, NothingMoves DEF ClientLeaves, vars
<1>5. ASSUME NEW w \in Workers, HeartbeatOverdue(w) \/ HeartbeatHeard(w) PROVE FALSE
  BY <1>5, NothingGoesWrong
<1>6. ASSUME NEW i \in Ranks, Dies(i) \/ Freezes(i) PROVE FALSE
  BY <1>6, NothingGoesWrong
<1>7. ASSUME NEW i \in Ranks, Compute(i) PROVE InOrder'
  BY <1>2, <1>3, <1>7 DEF Ranks
<1> QED  BY <1>1, <1>2, <1>4, <1>5, <1>6, <1>7 DEF Next

-----------------------------------------------------------------------------
(* Faults are only ever counted. *)
LEMMA FaultsGrow ==
  ASSUME [Next]_vars, faults \in Nat
  PROVE  faults' \in Nat /\ faults' >= faults
<1>1. ASSUME NEW P, Fault(P) PROVE faults' \in Nat /\ faults' >= faults
  BY <1>1 DEF Fault
<1>2. ASSUME UNCHANGED faults PROVE faults' \in Nat /\ faults' >= faults
  BY <1>2
<1>3. ASSUME NEW i \in Ranks, Compute(i) \/ Dies(i) \/ Freezes(i) PROVE UNCHANGED faults \/ \E x \in BOOLEAN : Fault(x)
  <2>1. CASE LeaveForward(i)
    BY <2>1 DEF LeaveForward, SaveResults
  <2> QED  BY <1>3, <2>1 DEF Compute, EnterForward, BreakForward, LocalFailure, StartDecode, Dies, Freezes
<1>4. ASSUME NEW w \in Workers, WorkerStep(w) \/ HeartbeatOverdue(w) \/ HeartbeatHeard(w)
      PROVE  UNCHANGED faults \/ \E x \in BOOLEAN : Fault(x)
  <2>1. CASE WorkerOp(w)
    BY <2>1 DEF WorkerOp, SaveResults
  <2>2. (~(closed(w) \/ Silent(0))) \in BOOLEAN /\ (~frozen(w)) \in BOOLEAN
    OBVIOUS
  <2>3. CASE WorkerMisses(w) \/ WorkerEndMissing(w)
    BY <2>2, <2>3 DEF WorkerMisses, WorkerEndMissing
  <2>4. CASE HeartbeatOverdue(w)
    BY <2>2, <2>4 DEF HeartbeatOverdue
  <2> QED  BY <1>4, <2>1, <2>3, <2>4 DEF WorkerStep, WorkerStart, WorkerOther, WorkerFollows, WorkerEnd, WorkerAlone,
             WorkerWatchdog, HeartbeatHeard
<1>5. CASE HeadStep
  <2>1. ASSUME NEW s \in Slots, SaveTurn(s) PROVE UNCHANGED faults \/ \E x \in BOOLEAN : Fault(x)
    BY <2>1 DEF SaveTurn, SaveResults
  <2>2. ASSUME NEW w \in Workers, HeadGatherFails(w) PROVE UNCHANGED faults \/ \E x \in BOOLEAN : Fault(x)
    <3>1. (~(closed(w) \/ Silent(w))) \in BOOLEAN
      OBVIOUS
    <3> QED  BY <2>2, <3>1 DEF HeadGatherFails
  <2>3. ASSUME HeadStep, ~(\E s \in Slots : SaveTurn(s)), ~(\E w \in Workers : HeadGatherFails(w)) PROVE UNCHANGED faults
    BY <2>3 DEF HeadStep, HeadStart, CancelPrefill, HeadDecide, HeadDraft, HeadAccept, HeadEnd, HeadWatchdog, HeadExit,
       HeadShutdown, HeadGather, FreeSlot
  <2> QED  BY <1>1, <1>2, <1>5, <2>1, <2>2, <2>3
<1>6. CASE ClientLeaves \/ UNCHANGED vars
  BY <1>2, <1>6 DEF ClientLeaves, vars
<1> QED  BY <1>1, <1>2, <1>3, <1>4, <1>5, <1>6 DEF Next

LEMMA EndingStep ==
  ASSUME ClusterInv, EndingInv, [Next]_vars
  PROVE  EndingInv'
<1>1. faults \in Nat /\ faults' \in Nat /\ faults' >= faults
  BY FaultsGrow DEF EndingInv
<1> SUFFICES ASSUME faults' = 0 PROVE InOrder' \/ (\A w \in Workers : Done(w)') \/ Alone'
  BY <1>1 DEF EndingInv
<1>2. faults = 0 /\ faults' = faults
  BY <1>1
<1>3. InOrder \/ (\A w \in Workers : Done(w)) \/ Alone
  BY <1>2 DEF EndingInv
<1>4. CASE InOrder
  BY <1>1, <1>2, <1>4, OrderStep
<1>5. CASE \A w \in Workers : Done(w)
  BY <1>5, DoneStep
<1>6. CASE Alone
  BY <1>6, AloneStep
<1> QED  BY <1>3, <1>4, <1>5, <1>6

LEMMA InitInOrder == Init => EndingInv
<1> SUFFICES ASSUME Init PROVE EndingInv
  OBVIOUS
<1>1. /\ Idle.pc = "idle" /\ Idle.tokens = <<>> /\ Idle.inside = FALSE /\ Idle.req = 0 /\ Idle.ok = TRUE
      /\ Idle.chunk = 0 /\ Idle.spec = FALSE /\ Idle.snap = None /\ Idle.gathered = {}
  BY DEF Idle
<1>2. Chunks \in Nat \ {0}
  BY ClusterAssumption
<1>3. \A i \in Ranks : /\ rank[i] = Idle /\ kv[i] = <<>> /\ saveable[i] = FALSE /\ proc[i] = "up" /\ aborted[i] = FALSE
                       /\ entered[i] = 0 /\ \A s \in Slots : snaps[i][s] = None
  BY DEF Init
<1>4. \A w \in Workers : w \in Ranks /\ chan[w] = <<>> /\ back[w] = <<>> /\ fresh[w]
  BY RankZero DEF Init
<1>5. 0 \in Ranks /\ requests = 0 /\ ~exiting /\ ~Busy
  BY <1>1, <1>3, RankZero DEF Init, Busy
<1>6. Normal(Idle, FALSE)
  BY <1>1 DEF Normal
<1>7. \A i \in Ranks : Ordinary(i)
  BY <1>1, <1>2, <1>3, <1>6 DEF Ordinary, Up
<1>8. ASSUME NEW w \in Workers PROVE InStride(w)
  <2>1. Script(w)
    BY <1>3, <1>4, <1>5, LeadEmpty DEF Script
  <2>2. Passed(Idle) = 0
    BY <1>1 DEF Passed, Forwards
  <2>3. Pace(w)
    BY <1>3, <1>4, <1>5, <2>2 DEF Pace, InPace
  <2>4. Current(w)
    BY <1>1, <1>3, <1>4, <1>5, SmallSeqs DEF Current, Runs
  <2>5. SlotsAlike(w)
    BY <1>3, <1>4, <1>5 DEF SlotsAlike, WillHave, There
  <2> QED  BY <1>1, <1>3, <1>4, <2>1, <2>3, <2>4, <2>5 DEF InStride
<1>9. InOrder
  BY <1>5, <1>7, <1>8 DEF InOrder
<1>10. faults = 0
  BY DEF Init
<1> QED  BY <1>9, <1>10 DEF EndingInv

(* While nothing has failed, the cluster is in order, or its workers are   *)
(* done with requests, or the head has stopped a request alone, that no    *)
(* worker will report.                                                     *)
THEOREM EndingInvariant == Spec => []EndingInv
<1>1. Init => EndingInv
  BY InitInOrder
<1>2. ClusterInv /\ EndingInv /\ [Next]_vars => EndingInv'
  BY EndingStep
<1> QED BY <1>1, <1>2, ClusterInvariant, PTL DEF Spec

(* While nothing has failed, a worker that reads the end of its request    *)
(* has the answer the head has: the decision hooks keep every rank's       *)
(* generate in lockstep.                                                   *)
THEOREM ReplicasEndAlike == Spec => []SameEnding
<1>1. ClusterInv /\ EndingInv => SameEnding
  BY EndingImplies
<1> QED BY <1>1, ClusterInvariant, EndingInvariant, PTL
=============================================================================
