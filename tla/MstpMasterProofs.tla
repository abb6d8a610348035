--------------------------- MODULE MstpMasterProofs ---------------------------
(***************************************************************************)
(* Proofs about module MstpMaster, for every address, every max_master,    *)
(* every limit and any traffic: its type invariant; that a token is used   *)
(* for no more frames than the limit; that the queue loses, repeats and    *)
(* reorders nothing; that the node starts nothing without the token; that  *)
(* it believes only the station it asked, and answers the one that asked   *)
(* last.                                                                   *)
(*                                                                         *)
(* The node is a function, so its part of the proofs is in lemmas on what  *)
(* a frame and the timer make of any well-typed node.                      *)
(***************************************************************************)
EXTENDS MstpMaster, SequenceTheorems, WellFoundedInduction, TLAPS

\* The states in which a node acts on the token.
Holders == {"UseToken", "DoneWithToken", "WaitForReply", "PollForMaster", "PassToken"}

\* What a node writes: any frame, one that answers no request, and one that
\* it does not send of its own accord.
Wire == [type : FrameTypes, dst : 0..255, src : 0..255, npdu : Nat, answers : Nat]

Plain == {w \in Wire : w.answers = 0 /\ w.type # "ReplyPostponed"}

Passive == {w \in Wire : ~Initiative(w)}

\* The numbers of requests.
Numbers == 1..MaxTraffic

\* What comes of letting node m go on: k NPDUs leave its queue.
Works(m, r, k) ==
  /\ r.node \in NodeType /\ k \in 0..Len(m.queue)
  /\ r.node.queue = SubSeq(m.queue, k + 1, Len(m.queue))
  /\ r.node.frames = m.frames + k
  /\ r.node.asker = m.asker /\ r.node.rx = m.rx
  /\ r.node.state = "AnswerDataRequest" => m.state = "AnswerDataRequest"
  /\ r.node.state = "WaitForReply" =>
       \/ k > 0 /\ r.node.expected = m.queue[k].dst
       \/ k = 0 /\ m.state = "WaitForReply" /\ r.node.expected = m.expected
  /\ r.out \in Seq(Plain)
  /\ m.state \notin Holders => r.node.state \notin Holders /\ r.out \in Seq(Passive)

-----------------------------------------------------------------------------
(* Numbers and sequences.                                                  *)

\* A set of numbers that is not empty has a least.
LEMMA LeastExists ==
  ASSUME NEW S \in SUBSET Nat, S # {}
  PROVE  \E i \in S : \A j \in S : i <= j
<1>1. \E i \in S : \A j \in S : <<j, i>> \notin OpToRel(<, Nat)
  BY NatLessThanWellFounded, WFMin
<1>2. \A i, j \in S : <<j, i>> \notin OpToRel(<, Nat) => i <= j
  BY DEF OpToRel
<1> QED BY <1>1, <1>2

\* What is left of a sequence without its first k.
LEMMA RestOf ==
  ASSUME NEW S, NEW q \in Seq(S), NEW k \in 0..Len(q)
  PROVE  /\ SubSeq(q, k + 1, Len(q)) \in Seq(S)
         /\ Len(SubSeq(q, k + 1, Len(q))) = Len(q) - k
         /\ \A i \in 1 .. Len(q) - k : SubSeq(q, k + 1, Len(q))[i] = q[k + i]
         /\ k = 0 => SubSeq(q, k + 1, Len(q)) = q
<1>1. Len(q) \in Nat /\ k \in Nat /\ k <= Len(q)
  OBVIOUS
<1>2. \A i \in k + 1 .. Len(q) : q[i] \in S
  BY <1>1
<1>3. /\ SubSeq(q, k + 1, Len(q)) \in Seq(S)
      /\ Len(SubSeq(q, k + 1, Len(q))) = (IF k + 1 <= Len(q) THEN Len(q) - (k + 1) + 1 ELSE 0)
      /\ \A i \in 1 .. Len(q) - (k + 1) + 1 : SubSeq(q, k + 1, Len(q))[i] = q[(k + 1) + i - 1]
  BY <1>1, <1>2, SubSeqProperties
<1>4. k = 0 => SubSeq(q, k + 1, Len(q)) = q
  BY SubSeqFull
<1>5. Len(SubSeq(q, k + 1, Len(q))) = Len(q) - k
  BY <1>1, <1>3
<1>6. \A i \in 1 .. Len(q) - k : SubSeq(q, k + 1, Len(q))[i] = q[k + i]
  BY <1>1, <1>3
<1> QED BY <1>3, <1>4, <1>5, <1>6

\* The first k of a sequence.
LEMMA FirstOf ==
  ASSUME NEW S, NEW q \in Seq(S), NEW k \in 0..Len(q)
  PROVE  /\ SubSeq(q, 1, k) \in Seq(S) /\ Len(SubSeq(q, 1, k)) = k
         /\ \A i \in 1..k : SubSeq(q, 1, k)[i] = q[i]
<1>1. Len(q) \in Nat /\ k \in Nat /\ k <= Len(q)
  OBVIOUS
<1>2. \A i \in 1..k : q[i] \in S
  BY <1>1
<1>3. /\ SubSeq(q, 1, k) \in Seq(S)
      /\ Len(SubSeq(q, 1, k)) = (IF 1 <= k THEN k - 1 + 1 ELSE 0)
      /\ \A i \in 1 .. k - 1 + 1 : SubSeq(q, 1, k)[i] = q[1 + i - 1]
  BY <1>1, <1>2, SubSeqProperties
<1>4. Len(SubSeq(q, 1, k)) = k
  BY <1>1, <1>3
<1>5. \A i \in 1..k : SubSeq(q, 1, k)[i] = q[i]
  BY <1>1, <1>3
<1> QED BY <1>3, <1>4, <1>5

\* Moving the first k of q to the end of t leaves t followed by q as it was.
LEMMA Moved ==
  ASSUME NEW S, NEW t \in Seq(S), NEW q \in Seq(S), NEW k \in 0..Len(q)
  PROVE  /\ t \o SubSeq(q, 1, k) \in Seq(S)
         /\ Len(t \o SubSeq(q, 1, k)) = Len(t) + k
         /\ k = 0 => t \o SubSeq(q, 1, k) = t
         /\ k > 0 => (t \o SubSeq(q, 1, k))[Len(t) + k] = q[k]
         /\ (t \o SubSeq(q, 1, k)) \o SubSeq(q, k + 1, Len(q)) = t \o q
<1> DEFINE a == SubSeq(q, 1, k)
           b == SubSeq(q, k + 1, Len(q))
<1>1. a \in Seq(S) /\ Len(a) = k /\ \A i \in 1..k : a[i] = q[i]
  BY FirstOf
<1>2. b \in Seq(S) /\ Len(b) = Len(q) - k /\ \A i \in 1 .. Len(q) - k : b[i] = q[k + i]
  BY RestOf
<1> HIDE DEF a, b
<1>3. Len(t) \in Nat /\ Len(q) \in Nat /\ k \in Nat /\ k <= Len(q)
  OBVIOUS
<1>4. /\ t \o a \in Seq(S) /\ Len(t \o a) = Len(t) + k
      /\ \A i \in 1 .. Len(t) + k : (t \o a)[i] = IF i <= Len(t) THEN t[i] ELSE a[i - Len(t)]
  BY <1>1, ConcatProperties
<1>5. /\ (t \o a) \o b \in Seq(S) /\ Len((t \o a) \o b) = Len(t) + Len(q)
      /\ \A i \in 1 .. Len(t) + Len(q) :
           ((t \o a) \o b)[i] = IF i <= Len(t) + k THEN (t \o a)[i] ELSE b[i - (Len(t) + k)]
  <2>1. PICK u \in Seq(S) : u = t \o a /\ Len(u) = Len(t) + k
    BY <1>4
  <2>2. /\ u \o b \in Seq(S) /\ Len(u \o b) = Len(u) + Len(b)
        /\ \A i \in 1 .. Len(u) + Len(b) :
             (u \o b)[i] = IF i <= Len(u) THEN u[i] ELSE b[i - Len(u)]
    BY <1>2, ConcatProperties
  <2>3. Len(u) = Len(t) + k /\ Len(u) + Len(b) = Len(t) + Len(q)
    <3>1. Len(u) = Len(t) + k /\ Len(b) = Len(q) - k
      BY <1>2, <2>1
    <3> QED BY <1>3, <3>1
  <2>4. /\ u \o b \in Seq(S) /\ Len(u \o b) = Len(t) + Len(q)
        /\ \A i \in 1 .. Len(t) + Len(q) :
             (u \o b)[i] = IF i <= Len(t) + k THEN u[i] ELSE b[i - (Len(t) + k)]
    <3>1. Len(u \o b) = Len(t) + Len(q)
      BY <2>2, <2>3
    <3>2. ASSUME NEW i \in 1 .. Len(t) + Len(q)
          PROVE  (u \o b)[i] = IF i <= Len(t) + k THEN u[i] ELSE b[i - (Len(t) + k)]
      <4>1. i \in 1 .. Len(u) + Len(b)
        BY <2>3
      <4>2. (u \o b)[i] = IF i <= Len(u) THEN u[i] ELSE b[i - Len(u)]
        BY <2>2, <4>1
      <4>3. Len(u) = Len(t) + k
        BY <2>3
      <4> QED BY <4>2, <4>3, Zenon
    <3> QED BY <2>2, <3>1, <3>2
  <2> QED BY <2>1, <2>4, Zenon
<1>6. /\ t \o q \in Seq(S) /\ Len(t \o q) = Len(t) + Len(q)
      /\ \A i \in 1 .. Len(t) + Len(q) : (t \o q)[i] = IF i <= Len(t) THEN t[i] ELSE q[i - Len(t)]
  BY ConcatProperties
<1>7. ASSUME NEW i \in 1 .. Len(t) + Len(q) PROVE ((t \o a) \o b)[i] = (t \o q)[i]
  <2>1. CASE i <= Len(t)
    BY <1>3, <1>4, <1>5, <1>6, <2>1
  <2>2. CASE Len(t) < i /\ i <= Len(t) + k
    <3>1. i - Len(t) \in 1..k
      BY <1>3, <2>2
    <3> QED BY <1>1, <1>3, <1>4, <1>5, <1>6, <2>2, <3>1
  <2>3. CASE Len(t) + k < i
    <3>1. i - (Len(t) + k) \in 1 .. Len(q) - k /\ k + (i - (Len(t) + k)) = i - Len(t)
      BY <1>3, <2>3
    <3>2. ~(i <= Len(t) + k) /\ ~(i <= Len(t))
      BY <1>3, <2>3
    <3>3. ((t \o a) \o b)[i] = b[i - (Len(t) + k)]
      BY <1>5, <3>2
    <3>4. b[i - (Len(t) + k)] = q[i - Len(t)]
      BY <1>2, <3>1
    <3>5. (t \o q)[i] = q[i - Len(t)]
      BY <1>6, <3>2
    <3> QED BY <3>3, <3>4, <3>5, Zenon
  <2>4. i <= Len(t) \/ (Len(t) < i /\ i <= Len(t) + k) \/ Len(t) + k < i
    BY <1>3
  <2> QED BY <2>1, <2>2, <2>3, <2>4, Zenon
<1>8. (t \o a) \o b = t \o q
  BY <1>5, <1>6, <1>7, SeqEqual
<1>9. ASSUME k = 0 PROVE t \o a = t
  <2>1. \A i \in 1..Len(t) : (t \o a)[i] = t[i]
    BY <1>3, <1>4, <1>9
  <2> QED BY <1>3, <1>4, <1>9, <2>1, SeqEqual
<1>10. ASSUME k > 0 PROVE (t \o a)[Len(t) + k] = q[k]
  <2>1. Len(t) + k \in 1 .. Len(t) + k /\ ~(Len(t) + k <= Len(t)) /\ (Len(t) + k) - Len(t) = k
    BY <1>3, <1>10
  <2> QED BY <1>1, <1>3, <1>4, <1>10, <2>1
<1> QED BY <1>4, <1>8, <1>9, <1>10 DEF a, b

\* The next address of a station is one.
LEMMA NextAddrType == \A a \in 0..255 : NextAddr(a) \in 0..255
BY NodeAssumption DEF NextAddr
-----------------------------------------------------------------------------
(* What a node makes of the token.                                         *)

\* The fields of a node.
LEMMA NodeFields ==
  ASSUME NEW n \in NodeType
  PROVE  /\ n.ts = ThisStation /\ n.ts \in 0..255 /\ n.state \in States
         /\ n.ns \in 0..255 /\ n.ps \in 0..255
         /\ n.tokens \in 0 .. TokenCountSize - 1 /\ n.frames \in 0..MaxInfoFrames
         /\ n.frames \in Nat /\ n.polls \in 0 .. MaxPollRetries - 1
         /\ n.retries \in 0..NRetryToken /\ n.queue \in Seq(Entries)
         /\ Len(n.queue) \in Nat /\ \A i \in 1..Len(n.queue) : n.queue[i] \in Entries
         /\ n.rx \in 0..MaxTraffic /\ n.asker \in Others \cup {NoStation}
         /\ n.expected \in Others \cup {NoStation}
<1>1. /\ n.ts = ThisStation /\ n.state \in States
      /\ n.ns \in 0..255 /\ n.ps \in 0..255
      /\ n.tokens \in 0 .. TokenCountSize - 1 /\ n.frames \in 0..MaxInfoFrames
      /\ n.polls \in 0 .. MaxPollRetries - 1
      /\ n.retries \in 0..NRetryToken /\ n.queue \in Seq(Entries)
      /\ n.rx \in 0..MaxTraffic /\ n.asker \in Others \cup {NoStation}
      /\ n.expected \in Others \cup {NoStation}
  BY DEF NodeType
<1>2. n.ts \in 0..255 /\ n.frames \in Nat
  BY <1>1, NodeAssumption, MasterAssumption
<1>3. Len(n.queue) \in Nat /\ \A i \in 1..Len(n.queue) : n.queue[i] \in Entries
  BY <1>1
<1> QED BY <1>1, <1>2, <1>3

\* The frames the code writes are frames.
LEMMA ControlType ==
  ASSUME NEW type \in FrameTypes, NEW dst \in 0..255, NEW src \in 0..255
  PROVE  /\ Control(type, dst, src) \in Wire
         /\ type # "ReplyPostponed" => Control(type, dst, src) \in Plain
         /\ type \notin {"Token", "PollForMaster", "DataExpectingReply"} =>
              Control(type, dst, src) \in Passive
BY DEF Control, Wire, Plain, Passive, Initiative

\* So is the data from its queue.
LEMMA DataFrameType ==
  ASSUME NEW n \in NodeType, NEW e \in Entries
  PROVE  DataFrame(n, e) \in Plain
<1>1. e.dst \in 0..255 /\ e.npdu \in Nat
  <2>1. e.dst \in Others \cup {Broadcast} /\ e.npdu \in 1..MaxTraffic
    BY DEF Entries
  <2>2. Others \subseteq 0..255 /\ Broadcast \in 0..255 /\ MaxTraffic \in Nat
    BY MasterAssumption DEF Broadcast
  <2>3. e.dst \in 0..255
    BY <2>1, <2>2, Zenon
  <2>4. e.npdu \in Nat
    <3> HIDE DEF Entries
    <3> QED BY <2>1, <2>2
  <2> QED BY <2>3, <2>4
<1>2. n.ts \in 0..255
  BY NodeFields
<1> QED BY <1>1, <1>2 DEF DataFrame, Plain, Wire, FrameTypes

\* A frame alone, and before others.
LEMMA OneFrame ==
  ASSUME NEW S, NEW w \in S, NEW out \in Seq(S)
  PROVE  <<w>> \in Seq(S) /\ <<w>> \o out \in Seq(S)
BY ConcatProperties

\* The token goes to the successor.
LEMMA PassTokenType ==
  ASSUME NEW n \in NodeType
  PROVE  /\ PassToken(n).node \in NodeType
         /\ PassToken(n).node = [n EXCEPT !.state = "PassToken", !.retries = 0]
         /\ PassToken(n).out \in Seq(Plain)
<1>1. [n EXCEPT !.state = "PassToken", !.retries = 0] \in NodeType
  <2>1. 0 \in 0..NRetryToken /\ "PassToken" \in States
    BY NodeAssumption DEF States
  <2> QED BY <2>1 DEF NodeType
<1>2. Control("Token", n.ns, n.ts) \in Plain
  BY NodeFields, ControlType DEF FrameTypes
<1> QED BY <1>1, <1>2 DEF PassToken

\* With frames to spare the node polls or passes the token.
LEMMA PollOrPassType ==
  ASSUME NEW n \in NodeType
  PROVE  LET r == PollOrPass(n) IN
         /\ r.node \in NodeType /\ r.node.state \in {"PollForMaster", "PassToken"}
         /\ r.node.queue = n.queue /\ r.node.frames = n.frames
         /\ r.node.asker = n.asker /\ r.node.rx = n.rx
         /\ r.out \in Seq(Plain)
<1> DEFINE ps == NextAddr(n.ns)
           m == [n EXCEPT !.tokens = 0, !.ps = ps]
           p == [n EXCEPT !.tokens = 0, !.ps = ps, !.state = "PollForMaster"]
<1>1. ps \in 0..255
  BY NodeFields, NextAddrType
<1>2. 0 \in 0 .. TokenCountSize - 1
  BY NodeAssumption
<1> HIDE DEF ps
<1>3. /\ m \in NodeType /\ p \in NodeType
      /\ \A x \in {m, p} : /\ x.queue = n.queue /\ x.frames = n.frames
                           /\ x.asker = n.asker /\ x.rx = n.rx
      /\ p.state = "PollForMaster"
  <2>1. "PollForMaster" \in States
    BY DEF States
  <2>2. m \in NodeType
    BY <1>1, <1>2 DEF NodeType
  <2>3. p = [m EXCEPT !.state = "PollForMaster"]
    BY DEF NodeType
  <2>4. p \in NodeType
    BY <2>1, <2>2, <2>3 DEF NodeType
  <2>5. /\ m.queue = n.queue /\ m.frames = n.frames /\ m.asker = n.asker /\ m.rx = n.rx
        /\ p.queue = n.queue /\ p.frames = n.frames /\ p.asker = n.asker /\ p.rx = n.rx
        /\ p.state = "PollForMaster"
    BY DEF NodeType
  <2> QED BY <2>2, <2>4, <2>5
<1>4. Control("PollForMaster", ps, n.ts) \in Plain
  BY <1>1, NodeFields, ControlType DEF FrameTypes
<1>5. ASSUME NEW x \in NodeType, x.queue = n.queue, x.frames = n.frames, x.asker = n.asker,
             x.rx = n.rx
      PROVE  /\ PassToken(x).node \in NodeType /\ PassToken(x).node.state = "PassToken"
             /\ PassToken(x).node.queue = n.queue /\ PassToken(x).node.frames = n.frames
             /\ PassToken(x).node.asker = n.asker /\ PassToken(x).node.rx = n.rx
             /\ PassToken(x).out \in Seq(Plain)
  <2>1. PassToken(x).node = [x EXCEPT !.state = "PassToken", !.retries = 0]
    BY PassTokenType
  <2>2. /\ PassToken(x).node.state = "PassToken" /\ PassToken(x).node.queue = x.queue
        /\ PassToken(x).node.frames = x.frames
        /\ PassToken(x).node.asker = x.asker /\ PassToken(x).node.rx = x.rx
    BY <2>1 DEF NodeType
  <2> QED BY <1>5, <2>2, PassTokenType
<1>6. CASE n.tokens < NPoll
  <2>1. PollOrPass(n) = PassToken(n)
    BY <1>6 DEF PollOrPass
  <2> QED BY <1>5, <2>1
<1>7. CASE ~(n.tokens < NPoll) /\ ps = n.ts
  <2>1. PollOrPass(n) = PassToken(m)
    BY <1>7 DEF PollOrPass, ps
  <2> QED BY <1>3, <1>5, <2>1
<1>8. CASE ~(n.tokens < NPoll) /\ ps # n.ts
  <2>1. PollOrPass(n) = [node |-> p, out |-> <<Control("PollForMaster", ps, n.ts)>>]
    BY <1>8 DEF PollOrPass, ps
  <2> HIDE DEF p
  <2>2. PollOrPass(n).node = p /\ PollOrPass(n).out = <<Control("PollForMaster", ps, n.ts)>>
    BY <2>1
  <2> QED BY <1>3, <1>4, <2>2
<1> QED BY <1>6, <1>7, <1>8

\* The burst is a part of the queue, within the limit, and no frame of it
\* but the last expects a reply.
LEMMA BurstType ==
  ASSUME NEW n \in NodeType
  PROVE  /\ BurstLength(n) \in 0..Len(n.queue)
         /\ n.frames + BurstLength(n) \in 0..MaxInfoFrames
<1> DEFINE most == Smaller(Len(n.queue), Room(n))
           asking == {i \in 1..most : ExpectsReply(n.queue[i])}
<1>1. most \in Nat /\ most <= Len(n.queue) /\ n.frames + most <= MaxInfoFrames
  BY NodeFields, NodeAssumption DEF Smaller, Room
<1> HIDE DEF most
<1>2. CASE asking = {}
  <2>1. BurstLength(n) = most
    BY <1>2 DEF BurstLength, most
  <2> QED BY <1>1, <2>1, NodeFields, NodeAssumption
<1>3. CASE asking # {}
  <2>1. \E i \in asking : \A j \in asking : i <= j
    <3>1. asking \in SUBSET Nat
      BY <1>1
    <3> HIDE DEF asking
    <3> QED BY <1>3, <3>1, LeastExists
  <2>2. BurstLength(n) = CHOOSE i \in asking : \A j \in asking : i <= j
    BY <1>3 DEF BurstLength, most
  <2>3. BurstLength(n) \in asking
    BY <2>1, <2>2
  <2> QED BY <1>1, <2>3, NodeFields, NodeAssumption
<1> QED BY <1>2, <1>3
\* A node with another expectation is a node.
LEMMA ExpectedType ==
  ASSUME NEW n \in NodeType, NEW d \in Others \cup {NoStation}
  PROVE  [n EXCEPT !.expected = d] \in NodeType
BY DEF NodeType

\* Using the token: the burst, and what ends it.
LEMMA UseTokenWorks ==
  ASSUME NEW n \in NodeType, n.state \in Holders
  PROVE  /\ \E k \in Nat : Works(n, UseToken(n), k)
         /\ UseToken(n).node.state \in Holders
<1> DEFINE k == BurstLength(n)
           sent == [i \in 1..k |-> DataFrame(n, n.queue[i])]
           m == [n EXCEPT !.frames = @ + k, !.queue = SubSeq(@, k + 1, Len(@))]
           w == AwaitReply(m, n.queue[k].dst)
           asks == k > 0 /\ ExpectsReply(n.queue[k])
           end == IF asks THEN Silently(w)
                  ELSE IF m.frames >= MaxInfoFrames THEN PassToken(m) ELSE PollOrPass(m)
<1>1. k \in 0..Len(n.queue) /\ n.frames + k \in 0..MaxInfoFrames
  BY BurstType
<1>2. n.queue \in Seq(Entries) /\ Len(n.queue) \in Nat /\ \A i \in 1..k : n.queue[i] \in Entries
  BY <1>1, NodeFields
<1>3. UseToken(n) = [node |-> end.node, out |-> sent \o end.out]
  BY DEF UseToken
<1> HIDE DEF k
<1>4. sent \in Seq(Plain)
  <2>1. \A i \in 1..k : DataFrame(n, n.queue[i]) \in Plain
    BY <1>2, DataFrameType
  <2>2. k \in Nat
    BY <1>1, <1>2
  <2>3. sent \in [1..k -> Plain]
    BY <2>1
  <2> HIDE DEF sent
  <2> QED BY <2>2, <2>3, SeqDef
<1>5. /\ m \in NodeType /\ m.queue = SubSeq(n.queue, k + 1, Len(n.queue))
      /\ m.frames = n.frames + k /\ m.asker = n.asker /\ m.rx = n.rx
  <2>1. SubSeq(n.queue, k + 1, Len(n.queue)) \in Seq(Entries)
    BY <1>1, <1>2, RestOf
  <2> QED BY <1>1, <2>1 DEF NodeType
<1> HIDE DEF m
<1>6. asks => /\ w \in NodeType /\ w.state = "WaitForReply" /\ w.expected = n.queue[k].dst
              /\ w.queue = m.queue /\ w.frames = m.frames /\ w.asker = m.asker /\ w.rx = m.rx
  <2> HAVE asks
  <2>1. n.queue[k] \in Entries
    BY <1>1, <1>2
  <2>2. n.queue[k].dst \in Others
    <3>1. n.queue[k].dst \in Others \cup {Broadcast}
      BY <2>1 DEF Entries
    <3> QED BY <3>1 DEF ExpectsReply
  <2>3. "WaitForReply" \in States
    BY DEF States
  <2>4. PICK dst \in Others : dst = n.queue[k].dst
    BY <2>2
  <2>5. w = [m EXCEPT !.state = "WaitForReply", !.expected = dst]
    BY <2>4 DEF AwaitReply
  <2>6. w \in NodeType
    <3>1. m \in NodeType /\ dst \in Others \cup {NoStation}
      BY <1>5, <2>4
    <3>2. [m EXCEPT !.state = "WaitForReply"] \in NodeType
      BY <2>3, <3>1 DEF NodeType
    <3>3. w = [[m EXCEPT !.state = "WaitForReply"] EXCEPT !.expected = dst]
      BY <2>5, <3>1 DEF NodeType
    <3> QED BY <3>1, <3>2, <3>3, ExpectedType
  <2>7. /\ w.state = "WaitForReply" /\ w.expected = dst
        /\ w.queue = m.queue /\ w.frames = m.frames /\ w.asker = m.asker /\ w.rx = m.rx
    BY <1>5, <2>5 DEF NodeType
  <2> QED BY <2>4, <2>6, <2>7
<1> HIDE DEF w
<1>7. /\ end.node \in NodeType /\ end.node.queue = m.queue /\ end.node.frames = m.frames
      /\ end.node.asker = m.asker /\ end.node.rx = m.rx
      /\ end.node.state \in {"WaitForReply", "PassToken", "PollForMaster"}
      /\ end.node.state = "WaitForReply" => k > 0 /\ end.node.expected = n.queue[k].dst
      /\ end.out \in Seq(Plain)
  <2>1. CASE asks
    <3>1. end = Silently(w)
      BY <2>1
    <3>2. end.node = w /\ end.out = <<>>
      BY <3>1 DEF Silently
    <3>3. k > 0 /\ <<>> \in Seq(Plain)
      BY <2>1
    <3> HIDE DEF end, asks
    <3> QED BY <1>6, <2>1, <3>2, <3>3
  <2>2. CASE ~asks /\ m.frames >= MaxInfoFrames
    <3>1. end = PassToken(m)
      BY <2>2
    <3>2. /\ PassToken(m).node \in NodeType /\ PassToken(m).out \in Seq(Plain)
          /\ PassToken(m).node = [m EXCEPT !.state = "PassToken", !.retries = 0]
      BY <1>5, PassTokenType
    <3>3. /\ PassToken(m).node.state = "PassToken" /\ PassToken(m).node.queue = m.queue
          /\ PassToken(m).node.frames = m.frames
          /\ PassToken(m).node.asker = m.asker /\ PassToken(m).node.rx = m.rx
      BY <1>5, <3>2 DEF NodeType
    <3> HIDE DEF end
    <3> QED BY <3>1, <3>2, <3>3
  <2>3. CASE ~asks /\ ~(m.frames >= MaxInfoFrames)
    <3>1. end = PollOrPass(m)
      BY <2>3
    <3> HIDE DEF end
    <3> QED BY <1>5, <3>1, PollOrPassType
  <2> QED BY <2>1, <2>2, <2>3
<1> HIDE DEF end, sent
<1>8. UseToken(n).node = end.node /\ UseToken(n).out = sent \o end.out
  BY <1>3
<1>9. sent \o end.out \in Seq(Plain)
  BY <1>4, <1>7, ConcatProperties
<1>10. UseToken(n).node.state \in Holders
  BY <1>7, <1>8 DEF Holders
<1>11. Works(n, UseToken(n), k)
  <2> DEFINE r == UseToken(n)
  <2>1. /\ r.node \in NodeType /\ r.node.queue = SubSeq(n.queue, k + 1, Len(n.queue))
        /\ r.node.frames = n.frames + k /\ r.node.asker = n.asker /\ r.node.rx = n.rx
        /\ r.node.state \in {"WaitForReply", "PassToken", "PollForMaster"}
        /\ r.node.state = "WaitForReply" => k > 0 /\ r.node.expected = n.queue[k].dst
        /\ r.out \in Seq(Plain)
    BY <1>5, <1>7, <1>8, <1>9
  <2> HIDE DEF r
  <2>2. Works(n, r, k)
    BY <1>1, <2>1 DEF Works
  <2> QED BY <2>2 DEF r
<1>12. k \in Nat
  BY <1>1, <1>2
<1> QED BY <1>10, <1>11, <1>12
\* What comes of a node that takes nothing from its queue.
LEMMA WorksWithout ==
  ASSUME NEW m \in NodeType, NEW r, r.node \in NodeType, r.node.queue = m.queue,
         r.node.frames = m.frames, r.node.asker = m.asker, r.node.rx = m.rx,
         r.node.state = "AnswerDataRequest" => m.state = "AnswerDataRequest",
         r.node.state = "WaitForReply" =>
           m.state = "WaitForReply" /\ r.node.expected = m.expected,
         r.out \in Seq(Plain),
         m.state \notin Holders => r.node.state \notin Holders /\ r.out \in Seq(Passive)
  PROVE  Works(m, r, 0)
<1>1. m.queue \in Seq(Entries) /\ 0 \in 0..Len(m.queue) /\ m.frames \in Nat
  BY NodeFields
<1>2. SubSeq(m.queue, 0 + 1, Len(m.queue)) = m.queue
  BY <1>1, RestOf
<1>3. m.frames + 0 = m.frames
  BY <1>1
<1> QED BY <1>1, <1>2, <1>3 DEF Works

\* What comes of letting any node go on.
LEMMA GoOnWorks ==
  ASSUME NEW m \in NodeType
  PROVE  /\ \E k \in Nat : Works(m, GoOn(m), k)
         /\ m.state \in Holders => GoOn(m).node.state \in Holders
<1>1. CASE m.state = "UseToken"
  <2>1. GoOn(m) = UseToken(m) /\ m.state \in Holders
    BY <1>1 DEF GoOn, Holders
  <2> QED BY <2>1, UseTokenWorks
<1>2. CASE m.state = "DoneWithToken"
  <2>1. GoOn(m) = PassToken(m) /\ m.state \in Holders
    BY <1>2 DEF GoOn, Holders
  <2> DEFINE r == PassToken(m)
  <2>2. /\ r.node \in NodeType /\ r.out \in Seq(Plain)
        /\ r.node = [m EXCEPT !.state = "PassToken", !.retries = 0]
    BY PassTokenType
  <2> HIDE DEF r
  <2>3. /\ r.node.state = "PassToken" /\ r.node.queue = m.queue /\ r.node.frames = m.frames
        /\ r.node.asker = m.asker /\ r.node.rx = m.rx
    BY <2>2 DEF NodeType
  <2>4. Works(m, r, 0)
    BY <2>1, <2>2, <2>3, WorksWithout
  <2> QED BY <2>1, <2>3, <2>4 DEF r, Holders
<1>3. CASE m.state \notin {"UseToken", "DoneWithToken"}
  <2> DEFINE r == Silently(m)
  <2>1. GoOn(m) = r
    BY <1>3 DEF GoOn
  <2>2. r.node = m /\ r.out = <<>>
    BY DEF Silently
  <2>3. r.out \in Seq(Plain) /\ r.out \in Seq(Passive)
    BY <2>2
  <2> HIDE DEF r
  <2>4. Works(m, r, 0)
    BY <2>2, <2>3, WorksWithout
  <2> QED BY <2>1, <2>2, <2>4
<1> QED BY <1>1, <1>2, <1>3

\* And of a frame answered before that.
LEMMA AnswerWorks ==
  ASSUME NEW m \in NodeType, NEW w \in Plain, w \in Passive
  PROVE  \E k \in Nat : Works(m, Answer(w, m), k)
<1> DEFINE r == GoOn(m)
           a == Answer(w, m)
<1>1. PICK k \in Nat : Works(m, r, k)
  BY GoOnWorks
<1>2. a.node = r.node /\ a.out = <<w>> \o r.out
  BY DEF Answer
<1> HIDE DEF r, a
<1>3. a.out \in Seq(Plain)
  BY <1>1, <1>2, OneFrame DEF Works
<1>4. m.state \notin Holders => a.out \in Seq(Passive)
  BY <1>1, <1>2, OneFrame DEF Works
<1>5. Works(m, a, k)
  BY <1>1, <1>2, <1>3, <1>4 DEF Works
<1> QED BY <1>5 DEF a

-----------------------------------------------------------------------------
(* What a node makes of a frame.                                           *)

\* The numbers and states a node may be given.
LEMMA NodeValues ==
  /\ States = {"Idle", "NoToken", "UseToken", "DoneWithToken", "PassToken",
               "WaitForReply", "PollForMaster", "AnswerDataRequest"}
  /\ 0 \in 0 .. TokenCountSize - 1 /\ 0 \in 0..MaxInfoFrames /\ 0 \in 0..NRetryToken
  /\ 0 \in 0 .. MaxPollRetries - 1 /\ MaxInfoFrames \in 0..MaxInfoFrames
  /\ 0 \in 0..MaxTraffic /\ NoStation \in Others \cup {NoStation}
  /\ ThisStation \in 0..255 /\ Others \subseteq 0..255 /\ ThisStation \notin Others
BY NodeAssumption, MasterAssumption DEF States

\* A node in another state is a node.
LEMMA StateType ==
  ASSUME NEW n \in NodeType, NEW s \in States
  PROVE  [n EXCEPT !.state = s] \in NodeType
BY DEF NodeType

\* What the handlers make of a node is a node.
LEMMA TokenNode ==
  ASSUME NEW n \in NodeType, NEW t \in 0 .. TokenCountSize - 1
  PROVE  LET m == [n EXCEPT !.state = "UseToken", !.frames = 0, !.retries = 0, !.tokens = t] IN
         /\ m \in NodeType /\ m.state = "UseToken" /\ m.frames = 0 /\ m.queue = n.queue
<1> DEFINE m == [n EXCEPT !.state = "UseToken", !.frames = 0, !.retries = 0, !.tokens = t]
<1>1. "UseToken" \in States /\ 0 \in 0..MaxInfoFrames /\ 0 \in 0..NRetryToken
  BY NodeValues
<1>2. m \in NodeType
  BY <1>1 DEF NodeType
<1>3. m.state = "UseToken" /\ m.frames = 0 /\ m.queue = n.queue
  BY DEF NodeType
<1> QED BY <1>2, <1>3

\* A ReplyToPollForMaster: the poller has found its successor.
LEMMA PollReplyNode ==
  ASSUME NEW n \in NodeType, NEW a \in 0..255
  PROVE  LET m == [n EXCEPT !.ns = a, !.ps = n.ts, !.tokens = 0, !.polls = 0] IN
         /\ m \in NodeType /\ m.frames = n.frames /\ m.queue = n.queue /\ m.state = n.state
         /\ m.asker = n.asker /\ m.rx = n.rx
<1> DEFINE m == [n EXCEPT !.ns = a, !.ps = n.ts, !.tokens = 0, !.polls = 0]
<1>1. n.ts \in 0..255 /\ 0 \in 0 .. TokenCountSize - 1 /\ 0 \in 0 .. MaxPollRetries - 1
  BY NodeFields, NodeValues
<1>2. m \in NodeType
  BY <1>1 DEF NodeType
<1>3. /\ m.frames = n.frames /\ m.queue = n.queue /\ m.state = n.state
      /\ m.asker = n.asker /\ m.rx = n.rx
  BY DEF NodeType
<1> QED BY <1>2, <1>3

\* The wait for a reply ends, and with it the use of the token.
LEMMA EndWaitNode ==
  ASSUME NEW n \in NodeType
  PROVE  LET m == [n EXCEPT !.expected = NoStation, !.state = "DoneWithToken"] IN
         /\ m \in NodeType /\ m.state = "DoneWithToken" /\ m.frames = n.frames
         /\ m.queue = n.queue
<1> DEFINE m == [n EXCEPT !.expected = NoStation, !.state = "DoneWithToken"]
<1>1. "DoneWithToken" \in States /\ NoStation \in Others \cup {NoStation}
  BY NodeValues
<1>2. m \in NodeType
  BY <1>1 DEF NodeType
<1>3. m.state = "DoneWithToken" /\ m.frames = n.frames /\ m.queue = n.queue
  BY DEF NodeType
<1> QED BY <1>2, <1>3

\* A request is received, to be answered when the application does.
LEMMA RequestNode ==
  ASSUME NEW n \in NodeType, NEW f, NEW src \in Others, f.src = src, NEW q \in Numbers
  PROVE  LET r == ReceiveRequest(n, f, q) IN
         /\ r.node \in NodeType /\ r.node.state = "AnswerDataRequest"
         /\ r.node.frames = n.frames /\ r.node.queue = n.queue
         /\ r.node.asker = f.src /\ r.node.rx = q /\ r.out = <<>>
<1> DEFINE m == [n EXCEPT !.state = "AnswerDataRequest", !.asker = src, !.rx = q]
<1>1. "AnswerDataRequest" \in States /\ src \in Others \cup {NoStation} /\ q \in 0..MaxTraffic
  BY NodeValues, MasterAssumption DEF Numbers
<1>2. m \in NodeType
  BY <1>1 DEF NodeType
<1>3. /\ m.state = "AnswerDataRequest" /\ m.frames = n.frames
      /\ m.queue = n.queue /\ m.asker = src /\ m.rx = q
  BY DEF NodeType
<1>4. ReceiveRequest(n, f, q).node = m /\ ReceiveRequest(n, f, q).out = <<>>
  BY DEF ReceiveRequest, Silently
<1> HIDE DEF m
<1> QED BY <1>2, <1>3, <1>4

\* Hearing anybody ends a pass of the token and nothing else.
LEMMA HeardNode ==
  ASSUME NEW n \in NodeType
  PROVE  LET m == Heard(n) IN
         /\ m \in NodeType /\ m.queue = n.queue /\ m.frames = n.frames /\ m.asker = n.asker
         /\ m.rx = n.rx /\ m.expected = n.expected
         /\ m.state = IF n.state = "PassToken" THEN "Idle" ELSE n.state
<1>1. CASE n.state # "PassToken"
  BY <1>1 DEF Heard
<1>2. CASE n.state = "PassToken"
  <2> DEFINE m == [n EXCEPT !.state = "Idle"]
  <2>1. Heard(n) = m
    BY <1>2 DEF Heard
  <2>2. m \in NodeType
    BY StateType, NodeValues
  <2>3. /\ m.queue = n.queue /\ m.frames = n.frames /\ m.asker = n.asker
        /\ m.rx = n.rx /\ m.expected = n.expected /\ m.state = "Idle"
    BY DEF NodeType
  <2> QED BY <1>2, <2>1, <2>2, <2>3
<1> QED BY <1>1, <1>2
\* What comes of frame f, the q-th request if it is one, at node n: k NPDUs
\* leave the queue.
Received(n, f, q, r, k) ==
  /\ r.node \in NodeType /\ k \in 0..Len(n.queue)
  /\ r.node.queue = SubSeq(n.queue, k + 1, Len(n.queue))
  /\ r.node.frames = (IF TokenForUs(f) THEN 0 ELSE n.frames) + k
  /\ r.node.state = "WaitForReply" =>
       \/ k > 0 /\ r.node.expected = n.queue[k].dst
       \/ k = 0 /\ n.state = "WaitForReply" /\ r.node.expected = n.expected
  /\ r.node.state = "AnswerDataRequest" =>
       IF Request(f) THEN r.node.asker = f.src /\ r.node.rx = q
       ELSE n.state = "AnswerDataRequest" /\ r.node.asker = n.asker /\ r.node.rx = n.rx
  /\ r.out \in Seq(Plain)
  /\ \/ TokenForUs(f)
     \/ n.state \in Holders \ {"PassToken"}
     \/ r.node.state \notin Holders /\ r.out \in Seq(Passive)

\* A frame that is no request is what it makes of the node before the node
\* goes on.
LEMMA WorksReceived ==
  ASSUME NEW n \in NodeType, NEW f, NEW q, NEW r, NEW m \in NodeType, NEW k \in Nat,
         Works(m, r, k), ~Request(f), m.queue = n.queue,
         m.frames = (IF TokenForUs(f) THEN 0 ELSE n.frames),
         m.state = "WaitForReply" => n.state = "WaitForReply" /\ m.expected = n.expected,
         m.state = "AnswerDataRequest" =>
           n.state = "AnswerDataRequest" /\ m.asker = n.asker /\ m.rx = n.rx,
         m.state \in Holders => TokenForUs(f) \/ n.state \in Holders \ {"PassToken"}
  PROVE  Received(n, f, q, r, k)
BY DEF Works, Received

\* Passing the token works, of a node that has it.
LEMMA PassTokenWorks ==
  ASSUME NEW m \in NodeType, m.state \in Holders
  PROVE  Works(m, PassToken(m), 0)
<1> DEFINE r == PassToken(m)
<1>1. /\ r.node \in NodeType /\ r.out \in Seq(Plain)
      /\ r.node = [m EXCEPT !.state = "PassToken", !.retries = 0]
  BY PassTokenType
<1> HIDE DEF r
<1>2. /\ r.node.state = "PassToken" /\ r.node.queue = m.queue /\ r.node.frames = m.frames
      /\ r.node.asker = m.asker /\ r.node.rx = m.rx
  BY <1>1 DEF NodeType
<1>3. Works(m, r, 0)
  BY <1>1, <1>2, WorksWithout
<1> QED BY <1>3 DEF r

\* The fields of a frame another station sends.
LEMMA FrameFields ==
  ASSUME NEW f \in Frames
  PROVE  f.type \in FrameTypes /\ f.src \in Others /\ f.src \in 0..255
BY NodeValues DEF Frames, Control, FrameTypes

\* The wait for a reply ends, or goes on if there was none.
LEMMA EndWaitReceived ==
  ASSUME NEW n \in NodeType, NEW f, NEW q, ~Request(f), ~TokenForUs(f)
  PROVE  \E k \in Nat : Received(n, f, q, EndWait(Heard(n)), k)
<1> DEFINE m == Heard(n)
           e == [m EXCEPT !.expected = NoStation, !.state = "DoneWithToken"]
<1>1. /\ m \in NodeType /\ m.queue = n.queue /\ m.frames = n.frames /\ m.asker = n.asker
      /\ m.rx = n.rx /\ m.expected = n.expected
      /\ m.state = IF n.state = "PassToken" THEN "Idle" ELSE n.state
  BY HeardNode
<1> HIDE DEF m
<1>2. m.state \in Holders => n.state \in Holders \ {"PassToken"}
  BY <1>1 DEF Holders
<1>3. CASE m.state = "WaitForReply"
  <2>1. e \in NodeType /\ e.state = "DoneWithToken" /\ e.frames = m.frames /\ e.queue = m.queue
    BY <1>1, EndWaitNode
  <2>2. EndWait(m) = GoOn(e) /\ m.state \in Holders
    BY <1>3 DEF EndWait, Holders
  <2> HIDE DEF e
  <2>3. PICK k \in Nat : Works(e, GoOn(e), k)
    BY <2>1, GoOnWorks
  <2>4. Received(n, f, q, GoOn(e), k)
    BY <1>1, <1>2, <2>1, <2>2, <2>3, WorksReceived
  <2> QED BY <2>2, <2>4 DEF m
<1>4. CASE m.state # "WaitForReply"
  <2>1. EndWait(m) = GoOn(m)
    BY <1>4 DEF EndWait
  <2>2. PICK k \in Nat : Works(m, GoOn(m), k)
    BY <1>1, GoOnWorks
  <2>3. Received(n, f, q, GoOn(m), k)
    BY <1>1, <1>2, <2>2, WorksReceived
  <2> QED BY <2>1, <2>3 DEF m
<1> QED BY <1>3, <1>4

\* A frame of any other station, in any state.
LEMMA ReceiveWorks ==
  ASSUME NEW n \in NodeType, NEW f \in Frames, NEW q, Request(f) => q \in Numbers
  PROVE  \E k \in Nat : Received(n, f, q, Receive(n, f, q), k)
<1> DEFINE m == Heard(n)
<1>0. n.ts = ThisStation /\ f.type \in FrameTypes /\ f.src \in Others /\ f.src \in 0..255
  BY NodeFields, FrameFields
<1>1. /\ m \in NodeType /\ m.queue = n.queue /\ m.frames = n.frames /\ m.asker = n.asker
      /\ m.rx = n.rx /\ m.expected = n.expected
      /\ m.state = IF n.state = "PassToken" THEN "Idle" ELSE n.state
  BY HeardNode
<1>2. m.state \in Holders => n.state \in Holders \ {"PassToken"}
  BY <1>1 DEF Holders
<1>3. ASSUME NEW r, ~Request(f), ~TokenForUs(f), \E k \in Nat : Works(m, r, k)
      PROVE  \E k \in Nat : Received(n, f, q, r, k)
  <2> HIDE DEF m
  <2>1. PICK k \in Nat : Works(m, r, k)
    BY <1>3
  <2> QED BY <1>1, <1>2, <1>3, <2>1, WorksReceived
<1>4. CASE f.dst # n.ts
  <2>1. Receive(n, f, q) = GoOn(m)
    BY <1>4 DEF Receive
  <2>2. ~Request(f) /\ ~TokenForUs(f)
    BY <1>0, <1>4 DEF Request, TokenForUs
  <2> HIDE DEF m
  <2> QED BY <1>1, <1>3, <2>1, <2>2, GoOnWorks
<1>5. CASE f.dst = n.ts /\ f.type = "Token"
  <2> DEFINE t == (m.tokens + 1) % TokenCountSize
             e == [m EXCEPT !.state = "UseToken", !.frames = 0, !.retries = 0, !.tokens = t]
  <2>1. Receive(n, f, q) = GoOn(e)
    BY <1>5 DEF Receive, ReceiveToken
  <2> HIDE DEF m
  <2>2. t \in 0 .. TokenCountSize - 1
    BY <1>1, NodeFields, NodeAssumption
  <2> HIDE DEF t
  <2>3. e \in NodeType /\ e.state = "UseToken" /\ e.frames = 0 /\ e.queue = n.queue
    BY <1>1, <2>2, TokenNode
  <2>4. TokenForUs(f) /\ ~Request(f)
    BY <1>0, <1>5 DEF TokenForUs, Request
  <2> HIDE DEF e
  <2>5. PICK k \in Nat : Works(e, GoOn(e), k)
    BY <2>3, GoOnWorks
  <2> QED BY <2>1, <2>3, <2>4, <2>5, WorksReceived
<1>6. CASE f.dst = n.ts /\ f.type \in {"PollForMaster", "TestRequest"}
  <2> DEFINE w == Control(IF f.type = "PollForMaster" THEN "ReplyToPollForMaster"
                          ELSE "TestResponse", f.src, n.ts)
  <2>1. Receive(n, f, q) = Answer(w, m)
    BY <1>6 DEF Receive
  <2>2. w \in Plain /\ w \in Passive
    <3>1. PICK type \in {"ReplyToPollForMaster", "TestResponse"} : w = Control(type, f.src, n.ts)
      OBVIOUS
    <3>2. type \in FrameTypes /\ n.ts \in 0..255
      BY <1>0, <3>1, NodeValues DEF FrameTypes
    <3>3. Control(type, f.src, n.ts) \in Plain /\ Control(type, f.src, n.ts) \in Passive
      BY <1>0, <3>1, <3>2, ControlType
    <3> QED BY <3>1, <3>3
  <2>3. ~Request(f) /\ ~TokenForUs(f)
    BY <1>6 DEF Request, TokenForUs
  <2> HIDE DEF m, w
  <2> QED BY <1>1, <1>3, <2>1, <2>2, <2>3, AnswerWorks
<1>7. CASE f.dst = n.ts /\ f.type = "ReplyToPollForMaster"
  <2>1. Receive(n, f, q) = ReceivePollReply(m, f)
    BY <1>7 DEF Receive
  <2>2. ~Request(f) /\ ~TokenForUs(f)
    BY <1>7 DEF Request, TokenForUs
  <2> HIDE DEF m
  <2>3. CASE m.state = "PollForMaster"
    <3> DEFINE e == [m EXCEPT !.ns = f.src, !.ps = m.ts, !.tokens = 0, !.polls = 0]
    <3>1. /\ e \in NodeType /\ e.frames = m.frames /\ e.queue = m.queue /\ e.state = m.state
          /\ e.asker = m.asker /\ e.rx = m.rx
      BY <1>0, <1>1, PollReplyNode
    <3>2. ReceivePollReply(m, f) = PassToken(e) /\ m.state \in Holders
      BY <2>3 DEF ReceivePollReply, Holders
    <3> HIDE DEF e
    <3>3. Works(e, PassToken(e), 0)
      BY <3>1, <3>2, PassTokenWorks
    <3>4. Received(n, f, q, PassToken(e), 0)
      BY <1>1, <1>2, <2>2, <2>3, <3>1, <3>2, <3>3, WorksReceived
    <3> QED BY <2>1, <3>2, <3>4
  <2>4. CASE m.state # "PollForMaster"
    <3>1. ReceivePollReply(m, f) = GoOn(m)
      BY <2>4 DEF ReceivePollReply
    <3> QED BY <1>1, <1>3, <2>1, <2>2, <3>1, GoOnWorks
  <2> QED BY <2>3, <2>4
<1>8. CASE f.dst = n.ts /\ f.type \in {"DataNotExpectingReply", "ReplyPostponed"}
  <2>1. Receive(n, f, q) = EndWait(Heard(n))
    BY <1>8 DEF Receive
  <2>2. ~Request(f) /\ ~TokenForUs(f)
    BY <1>8 DEF Request, TokenForUs
  <2> QED BY <2>1, <2>2, EndWaitReceived
<1>9. CASE f.dst = n.ts /\ f.type = "DataExpectingReply"
  <2> DEFINE r == ReceiveRequest(m, f, q)
  <2>1. Receive(n, f, q) = r
    BY <1>9 DEF Receive
  <2>2. Request(f) /\ ~TokenForUs(f) /\ q \in Numbers
    BY <1>0, <1>9 DEF Request, TokenForUs
  <2> HIDE DEF m
  <2>3. /\ r.node \in NodeType /\ r.node.state = "AnswerDataRequest"
        /\ r.node.frames = m.frames /\ r.node.queue = m.queue
        /\ r.node.asker = f.src /\ r.node.rx = q /\ r.out = <<>>
    BY <1>0, <1>1, <2>2, RequestNode
  <2>4. r.node.frames = n.frames /\ r.node.queue = n.queue
    BY <1>1, <2>3
  <2>5. r.out \in Seq(Plain) /\ r.out \in Seq(Passive)
    BY <2>3
  <2> HIDE DEF r
  <2>6. /\ n.queue \in Seq(Entries) /\ 0 \in 0..Len(n.queue) /\ n.frames + 0 = n.frames
        /\ SubSeq(n.queue, 0 + 1, Len(n.queue)) = n.queue
    BY NodeFields, RestOf
  <2>7. Received(n, f, q, r, 0)
    BY <2>2, <2>3, <2>4, <2>5, <2>6 DEF Received, Holders
  <2> QED BY <2>1, <2>7
<1>10. CASE f.dst = n.ts /\ f.type = "TestResponse"
  <2>1. Receive(n, f, q) = GoOn(m)
    BY <1>10 DEF Receive
  <2>2. ~Request(f) /\ ~TokenForUs(f)
    BY <1>10 DEF Request, TokenForUs
  <2> HIDE DEF m
  <2> QED BY <1>1, <1>3, <2>1, <2>2, GoOnWorks
<1> QED BY <1>0, <1>4, <1>5, <1>6, <1>7, <1>8, <1>9, <1>10 DEF FrameTypes
-----------------------------------------------------------------------------
(* What a node makes of its timer.                                         *)

\* What comes of the timer at node n: the queue stays.
Expired(n, r) ==
  /\ r.node \in NodeType /\ r.node.queue = n.queue
  /\ r.node.state \notin {"WaitForReply", "AnswerDataRequest"}
  /\ r.node.state = "UseToken" \/ r.node.frames >= n.frames
  /\ n.state # "AnswerDataRequest" => r.out \in Seq(Plain)
  /\ n.state = "AnswerDataRequest" =>
       \A i \in DOMAIN r.out : /\ r.out[i].answers \in {0, n.rx}
                               /\ n.asker # NoStation => r.out[i].dst = n.asker
  /\ \/ n.state \in Holders \cup {"NoToken"}
     \/ r.node.state \notin Holders /\ r.out \in Seq(Passive)

\* Polling and passing the token keep the queue and the count of frames.
LEMMA PollKeeps ==
  ASSUME NEW n \in NodeType
  PROVE  LET r == Poll(n) IN
         /\ r.node \in NodeType /\ r.node.queue = n.queue /\ r.node.frames = n.frames
         /\ r.node.state = "PollForMaster" /\ r.out \in Seq(Plain)
<1> DEFINE m == [n EXCEPT !.state = "PollForMaster"]
<1>1. m \in NodeType
  BY StateType, NodeValues
<1>2. m.queue = n.queue /\ m.frames = n.frames /\ m.state = "PollForMaster"
  BY DEF NodeType
<1>3. Control("PollForMaster", n.ps, n.ts) \in Plain
  BY NodeFields, ControlType DEF FrameTypes
<1>4. Poll(n).node = m /\ Poll(n).out = <<Control("PollForMaster", n.ps, n.ts)>>
  BY DEF Poll
<1> HIDE DEF m
<1> QED BY <1>1, <1>2, <1>3, <1>4

\* Passing the token touches neither the queue nor the count of frames.
LEMMA PassTokenKeeps ==
  ASSUME NEW n \in NodeType
  PROVE  LET r == PassToken(n) IN
         /\ r.node \in NodeType /\ r.node.queue = n.queue /\ r.node.frames = n.frames
         /\ r.node.state = "PassToken" /\ r.out \in Seq(Plain)
<1> DEFINE m == [n EXCEPT !.state = "PassToken", !.retries = 0]
<1>1. PassToken(n).node = m /\ m \in NodeType /\ PassToken(n).out \in Seq(Plain)
  BY PassTokenType
<1>2. m.queue = n.queue /\ m.frames = n.frames /\ m.state = "PassToken"
  BY DEF NodeType
<1> HIDE DEF m
<1> QED BY <1>1, <1>2

\* A node that has the token, or generates one, may write what it likes that
\* is no answer.
LEMMA ExpiredHolding ==
  ASSUME NEW n \in NodeType, n.state \in Holders \cup {"NoToken"}, NEW r,
         r.node \in NodeType, r.node.queue = n.queue,
         r.node.state \notin {"WaitForReply", "AnswerDataRequest"},
         r.node.state = "UseToken" \/ r.node.frames >= n.frames, r.out \in Seq(Plain)
  PROVE  Expired(n, r)
BY DEF Expired, Holders

\* Nobody generated a token: the node looks for a successor.
LEMMA GenerateExpired ==
  ASSUME NEW n \in NodeType, n.state = "NoToken"
  PROVE  Expired(n, GenerateToken(n))
<1> DEFINE ps == NextAddr(n.ts)
           m == [n EXCEPT !.ps = ps, !.state = "PollForMaster", !.polls = 0]
           r == GenerateToken(n)
<1>1. ps \in 0..255
  BY NodeFields, NextAddrType
<1> HIDE DEF ps
<1>2. "PollForMaster" \in States /\ 0 \in 0 .. MaxPollRetries - 1
  BY NodeValues
<1>3. m \in NodeType
  BY <1>1, <1>2 DEF NodeType
<1>4. m.queue = n.queue /\ m.frames = n.frames /\ m.state = "PollForMaster"
  BY DEF NodeType
<1>5. Control("PollForMaster", ps, n.ts) \in Plain
  BY <1>1, NodeFields, ControlType DEF FrameTypes
<1>6. r.node = m /\ r.out = <<Control("PollForMaster", ps, n.ts)>>
  BY DEF GenerateToken, ps
<1> HIDE DEF m, r
<1>7. m.frames >= n.frames
  BY <1>4, NodeFields
<1>8. r.out \in Seq(Plain)
  BY <1>5, <1>6
<1>9. Expired(n, r)
  BY <1>3, <1>4, <1>6, <1>7, <1>8, ExpiredHolding
<1> QED BY <1>9 DEF r

\* A poll was not answered: again, the next address, or the end of the scan.
LEMMA PollExpired ==
  ASSUME NEW n \in NodeType, n.state = "PollForMaster"
  PROVE  Expired(n, PollTimeout(n))
<1> DEFINE ps == NextAddr(n.ps)
           m == [n EXCEPT !.polls = 0, !.ps = ps]
           e == [n EXCEPT !.polls = @ + 1]
           u == [m EXCEPT !.state = "UseToken", !.frames = 0, !.tokens = 0]
           r == PollTimeout(n)
<1>1. ps \in 0..255
  BY NodeFields, NextAddrType
<1>2. n.state \in Holders /\ n.frames \in Nat
  BY NodeFields DEF Holders
<1>3. ASSUME NEW x \in NodeType, x.queue = n.queue, x.frames = n.frames,
             r = Poll(x) \/ r = PassToken(x)
      PROVE  Expired(n, r)
  <2>1. /\ r.node \in NodeType /\ r.node.queue = n.queue /\ r.node.frames = n.frames
        /\ r.node.state \in {"PollForMaster", "PassToken"} /\ r.out \in Seq(Plain)
    BY <1>3, PollKeeps, PassTokenKeeps
  <2>2. r.node.frames >= n.frames
    BY <1>2, <2>1
  <2> QED BY <1>2, <2>1, <2>2, ExpiredHolding
<1>4. CASE n.polls + 1 < MaxPollRetries
  <2>1. n.polls + 1 \in 0 .. MaxPollRetries - 1
    BY <1>4, NodeFields, NodeAssumption
  <2>2. e \in NodeType
    BY <2>1 DEF NodeType
  <2>3. e.queue = n.queue /\ e.frames = n.frames
    BY DEF NodeType
  <2>4. r = Poll(e)
    BY <1>4 DEF PollTimeout
  <2> HIDE DEF e
  <2> QED BY <1>3, <2>2, <2>3, <2>4
<1>5. CASE ~(n.polls + 1 < MaxPollRetries)
  <2> HIDE DEF ps
  <2>1. 0 \in 0 .. MaxPollRetries - 1 /\ 0 \in 0 .. TokenCountSize - 1 /\ 0 \in 0..MaxInfoFrames
        /\ "UseToken" \in States
    BY NodeValues
  <2>2. m \in NodeType
    BY <1>1, <2>1 DEF NodeType
  <2>3. m.queue = n.queue /\ m.frames = n.frames
    BY DEF NodeType
  <2>4. CASE ps = n.ts /\ n.ns = n.ts
    <3>1. r = [node |-> u, out |-> <<Control("Token", n.ts, n.ts)>>]
      BY <1>5, <2>4 DEF PollTimeout, ps
    <3>2. r.node = u /\ r.out = <<Control("Token", n.ts, n.ts)>>
      BY <3>1
    <3> HIDE DEF m
    <3>3. u \in NodeType
      BY <2>1, <2>2 DEF NodeType
    <3>4. u.queue = n.queue /\ u.state = "UseToken"
      BY <2>2, <2>3 DEF NodeType
    <3> HIDE DEF u
    <3>5. Control("Token", n.ts, n.ts) \in Plain
      BY NodeFields, ControlType DEF FrameTypes
    <3>6. r.out \in Seq(Plain)
      BY <3>2, <3>5
    <3> QED BY <1>2, <3>2, <3>3, <3>4, <3>6, ExpiredHolding
  <2>5. CASE ~(ps = n.ts /\ n.ns = n.ts)
    <3>1. r = Poll(m) \/ r = PassToken(m)
      BY <1>5, <2>5 DEF PollTimeout, ps
    <3> HIDE DEF m
    <3> QED BY <1>3, <2>2, <2>3, <3>1
  <2> QED BY <2>4, <2>5
<1> QED BY <1>4, <1>5

\* The token was passed and nothing was heard.
LEMMA PassExpired ==
  ASSUME NEW n \in NodeType, n.state = "PassToken"
  PROVE  Expired(n, PassTokenTimeout(n))
<1> DEFINE ns == NextAddr(n.ns)
           r == PassTokenTimeout(n)
<1>1. ns \in 0..255 /\ n.ns \in 0..255 /\ n.ts \in 0..255
  BY NodeFields, NextAddrType
<1>2. n.state \in Holders /\ n.frames \in Nat /\ n.frames >= n.frames
  BY NodeFields DEF Holders
<1>3. 0 \in 0..NRetryToken /\ 0 \in 0..MaxInfoFrames /\ "NoToken" \in States /\ "UseToken" \in States
  BY NodeValues
<1>4. \A a \in 0..255 : <<Control("Token", a, n.ts)>> \in Seq(Plain)
  <2>1. \A a \in 0..255 : Control("Token", a, n.ts) \in Plain
    BY <1>1, ControlType DEF FrameTypes
  <2> QED BY <2>1
<1> HIDE DEF ns
<1>5. CASE n.retries < NRetryToken
  <2> DEFINE m == [n EXCEPT !.retries = @ + 1]
  <2>1. n.retries + 1 \in 0..NRetryToken
    BY <1>5, NodeFields, NodeAssumption
  <2>2. m \in NodeType
    BY <2>1 DEF NodeType
  <2>3. m.queue = n.queue /\ m.frames = n.frames /\ m.state = n.state
    BY DEF NodeType
  <2>4. r.node = m /\ r.out = <<Control("Token", n.ns, n.ts)>>
    BY <1>5 DEF PassTokenTimeout
  <2> HIDE DEF m
  <2> QED BY <1>1, <1>2, <1>4, <2>2, <2>3, <2>4, ExpiredHolding
<1>6. CASE ~(n.retries < NRetryToken) /\ n.ns = n.ts
  <2> DEFINE m == [n EXCEPT !.state = "NoToken"]
  <2>1. m \in NodeType
    BY <1>3, StateType
  <2>2. m.queue = n.queue /\ m.frames = n.frames /\ m.state = "NoToken"
    BY DEF NodeType
  <2>3. r.node = m /\ r.out = <<>>
    BY <1>6 DEF PassTokenTimeout, Silently
  <2>4. <<>> \in Seq(Plain)
    OBVIOUS
  <2> HIDE DEF m
  <2> QED BY <1>2, <2>1, <2>2, <2>3, <2>4, ExpiredHolding
<1>7. CASE ~(n.retries < NRetryToken) /\ n.ns # n.ts /\ ns = n.ts
  <2> DEFINE m == [n EXCEPT !.ns = ns, !.state = "UseToken", !.frames = 0]
  <2>1. m \in NodeType
    BY <1>1, <1>3 DEF NodeType
  <2>2. m.queue = n.queue /\ m.state = "UseToken"
    BY DEF NodeType
  <2>3. r.node = m /\ r.out = <<>>
    BY <1>7 DEF PassTokenTimeout, Silently, ns
  <2>4. <<>> \in Seq(Plain)
    OBVIOUS
  <2> HIDE DEF m
  <2> QED BY <1>2, <2>1, <2>2, <2>3, <2>4, ExpiredHolding
<1>8. CASE ~(n.retries < NRetryToken) /\ n.ns # n.ts /\ ns # n.ts
  <2> DEFINE m == [n EXCEPT !.ns = ns, !.retries = 0]
  <2>1. m \in NodeType
    BY <1>1, <1>3 DEF NodeType
  <2>2. m.queue = n.queue /\ m.frames = n.frames /\ m.state = n.state
    BY DEF NodeType
  <2>3. r.node = m /\ r.out = <<Control("Token", ns, n.ts)>>
    BY <1>8 DEF PassTokenTimeout, ns
  <2> HIDE DEF m
  <2> QED BY <1>1, <1>2, <1>4, <2>1, <2>2, <2>3, ExpiredHolding
<1> QED BY <1>5, <1>6, <1>7, <1>8
\* A request is answered, or its answer promised.
LEMMA AnswerExpired ==
  ASSUME NEW n \in NodeType, n.state = "AnswerDataRequest", NEW answers
  PROVE  Expired(n, AnswerTimeout(n, answers))
<1> DEFINE m == [n EXCEPT !.rx = NoRequest, !.asker = NoStation, !.state = "Idle"]
           dst == IF n.asker = NoStation THEN Broadcast ELSE n.asker
           w == IF n.rx \in answers
                THEN [Control("DataNotExpectingReply", dst, n.ts) EXCEPT !.answers = n.rx]
                ELSE Control("ReplyPostponed", dst, n.ts)
           r == AnswerTimeout(n, answers)
<1>1. NoRequest \in 0..MaxTraffic /\ NoStation \in Others \cup {NoStation} /\ "Idle" \in States
  BY NodeValues DEF NoRequest
<1>2. m \in NodeType
  BY <1>1 DEF NodeType
<1>3. m.queue = n.queue /\ m.frames = n.frames /\ m.state = "Idle"
  BY DEF NodeType
<1>4. r.node = m /\ r.out = <<w>>
  BY DEF AnswerTimeout
<1>5. dst \in 0..255 /\ n.ts \in 0..255 /\ n.rx \in Nat
  <2>1. n.asker \in Others \cup {NoStation} /\ n.rx \in 0..MaxTraffic /\ n.ts \in 0..255
    BY NodeFields
  <2>2. Broadcast \in 0..255 /\ Others \subseteq 0..255
    BY NodeValues DEF Broadcast
  <2>3. n.rx \in Nat
    BY <2>1, MasterAssumption
  <2> QED BY <2>1, <2>2, <2>3
<1>6. n.asker # NoStation => dst = n.asker
  OBVIOUS
<1> HIDE DEF m, dst
<1>7. w \in Passive /\ w.dst = dst /\ w.answers \in {0, n.rx}
  <2>1. CASE n.rx \in answers
    <3>1. w = [type |-> "DataNotExpectingReply", dst |-> dst, src |-> n.ts, npdu |-> 0,
               answers |-> n.rx]
      BY <2>1 DEF Control
    <3> HIDE DEF w
    <3>2. w \in Wire
      BY <1>5, <3>1 DEF Wire, FrameTypes
    <3>3. w.type = "DataNotExpectingReply" /\ w.npdu = 0 /\ w.dst = dst /\ w.answers = n.rx
      BY <3>1
    <3> QED BY <3>2, <3>3 DEF Passive, Initiative
  <2>2. CASE n.rx \notin answers
    <3>1. w = [type |-> "ReplyPostponed", dst |-> dst, src |-> n.ts, npdu |-> 0, answers |-> 0]
      BY <2>2 DEF Control
    <3> HIDE DEF w
    <3>2. w \in Wire
      BY <1>5, <3>1 DEF Wire, FrameTypes
    <3>3. w.type = "ReplyPostponed" /\ w.npdu = 0 /\ w.dst = dst /\ w.answers = 0
      BY <3>1
    <3> QED BY <3>2, <3>3 DEF Passive, Initiative
  <2> QED BY <2>1, <2>2
<1> HIDE DEF w, r
<1>8. r.out \in Seq(Passive) /\ \A i \in DOMAIN r.out : r.out[i] = w
  BY <1>4, <1>7
<1>9. r.node.frames >= n.frames
  BY <1>3, <1>4, NodeFields
<1>10. Expired(n, r)
  BY <1>2, <1>3, <1>4, <1>6, <1>7, <1>8, <1>9 DEF Expired, Holders
<1> QED BY <1>10 DEF r

\* The timer of any node.
LEMMA TimeoutWorks ==
  ASSUME NEW n \in NodeType, NEW answers
  PROVE  Expired(n, Timeout(n, answers))
<1> DEFINE r == Timeout(n, answers)
<1>0. n.frames \in Nat /\ n.frames <= MaxInfoFrames /\ MaxInfoFrames \in Nat
  BY NodeFields, NodeAssumption
<1>1. CASE n.state = "Idle"
  <2> DEFINE m == [n EXCEPT !.state = "NoToken", !.retries = 0]
  <2>1. "NoToken" \in States /\ 0 \in 0..NRetryToken
    BY NodeValues
  <2>2. m \in NodeType
    BY <2>1 DEF NodeType
  <2>3. m.queue = n.queue /\ m.frames = n.frames /\ m.state = "NoToken"
    BY DEF NodeType
  <2>4. r.node = m /\ r.out = <<>>
    BY <1>1 DEF Timeout, Silently
  <2> HIDE DEF m, r
  <2>5. r.out \in Seq(Plain) /\ r.out \in Seq(Passive)
    BY <2>4
  <2>6. Expired(n, r)
    BY <1>0, <1>1, <2>2, <2>3, <2>4, <2>5 DEF Expired, Holders
  <2> QED BY <2>6 DEF r
<1>2. CASE n.state = "NoToken"
  BY <1>2, GenerateExpired DEF Timeout
<1>3. CASE n.state = "PollForMaster"
  BY <1>3, PollExpired DEF Timeout
<1>4. CASE n.state = "WaitForReply"
  <2> DEFINE m == [n EXCEPT !.expected = NoStation, !.frames = MaxInfoFrames,
                            !.state = "DoneWithToken"]
  <2>1. /\ "DoneWithToken" \in States /\ NoStation \in Others \cup {NoStation}
        /\ MaxInfoFrames \in 0..MaxInfoFrames
    BY NodeValues
  <2>2. m \in NodeType
    BY <2>1 DEF NodeType
  <2>3. m.queue = n.queue /\ m.frames = MaxInfoFrames /\ m.state = "DoneWithToken"
    BY DEF NodeType
  <2>4. r.node = m /\ r.out = <<>>
    BY <1>4 DEF Timeout, Silently
  <2> HIDE DEF m, r
  <2>5. r.out \in Seq(Plain) /\ n.state \in Holders
    BY <1>4, <2>4 DEF Holders
  <2>6. Expired(n, r)
    BY <1>0, <2>2, <2>3, <2>4, <2>5, ExpiredHolding
  <2> QED BY <2>6 DEF r
<1>5. CASE n.state = "AnswerDataRequest"
  BY <1>5, AnswerExpired DEF Timeout
<1>6. CASE n.state = "PassToken"
  BY <1>6, PassExpired DEF Timeout
<1>7. CASE n.state \in {"UseToken", "DoneWithToken"}
  <2>1. r = PassToken(n)
    BY <1>7 DEF Timeout
  <2> HIDE DEF r
  <2>2. /\ r.node \in NodeType /\ r.node.queue = n.queue /\ r.node.frames = n.frames
        /\ r.node.state = "PassToken" /\ r.out \in Seq(Plain)
    BY <2>1, PassTokenKeeps
  <2>3. n.state \in Holders /\ r.node.frames >= n.frames
    BY <1>0, <1>7, <2>2 DEF Holders
  <2>4. Expired(n, r)
    BY <2>2, <2>3, ExpiredHolding
  <2> QED BY <2>4 DEF r
<1>8. n.state \in States
  BY NodeFields
<1> QED BY <1>1, <1>2, <1>3, <1>4, <1>5, <1>6, <1>7, <1>8 DEF States

-----------------------------------------------------------------------------
(* The invariants.                                                         *)

\* The frames of the token are counted by the node, which may count more.
FramesInv == sentNow <= node.frames

\* Nothing has passed through the queue before the first start.
QueueInv ==
  /\ mode = "new" => /\ handle = "none" /\ accepted = 0
                     /\ taken = <<>> /\ node.queue = <<>>
  /\ NoneLostNoneRepeated

\* The node waits for the station it sent to last.
WaitInv ==
  node.state = "WaitForReply" => taken # <<>> /\ node.expected = taken[Len(taken)].dst

\* A node that acts on the token may.
HoldInv == node.state \in Holders => entitled

\* The node answers the request that came last.
AskInv ==
  node.state = "AnswerDataRequest" =>
    requests # <<>> /\ node.asker = requests[Len(requests)] /\ node.rx = Len(requests)

MasterInv ==
  TypeOK /\ FramesInv /\ QueueInv /\ WaitInv /\ HoldInv /\ AskInv /\ AnswersLastRequest
-----------------------------------------------------------------------------
(* They hold initially, and every step keeps them.                         *)

\* A new node is a node.
LEMMA NewNodeType == NewNode(ThisStation) \in NodeType
<1>1. /\ "Idle" \in States /\ ThisStation \in 0..255 /\ NPoll \in 0 .. TokenCountSize - 1
      /\ 0 \in 0..MaxInfoFrames /\ 0 \in 0 .. MaxPollRetries - 1 /\ 0 \in 0..NRetryToken
      /\ NoRequest \in 0..MaxTraffic /\ NoStation \in Others \cup {NoStation}
  BY NodeAssumption, NodeValues DEF NoRequest
<1>2. <<>> \in Seq(Entries)
  OBVIOUS
<1> QED BY <1>1, <1>2 DEF NewNode, NodeType

\* A node that was never started.
LEMMA MasterInit == Init => MasterInv
<1> SUFFICES ASSUME Init PROVE MasterInv
  OBVIOUS
<1>1. TypeOK
  <2>1. node \in NodeType
    BY NewNodeType DEF Init
  <2>2. accepted \in 0..MaxTraffic
    BY MasterAssumption DEF Init
  <2>3. taken \in Seq(Entries) /\ requests \in Seq(Others) /\ answered \subseteq 1..Len(requests)
    BY DEF Init
  <2>4. handed \in Others \cup {NoStation} /\ sentNow \in Nat
    BY DEF Init
  <2> QED BY <2>1, <2>2, <2>3, <2>4 DEF Init, TypeOK
<1>2. node.state = "Idle" /\ node.frames = 0 /\ node.queue = <<>>
  BY DEF Init, NewNode
<1>3. FramesInv /\ QueueInv /\ WaitInv /\ HoldInv /\ AskInv
  BY <1>2 DEF Init, FramesInv, QueueInv, NoneLostNoneRepeated, WaitInv, HoldInv, Holders, AskInv
<1>4. AnswersLastRequest
  BY DEF Init, AnswersLastRequest
<1> QED BY <1>1, <1>3, <1>4 DEF MasterInv

\* The variables of the master, typed.
LEMMA MasterTypes ==
  ASSUME MasterInv
  PROVE  /\ node \in NodeType /\ taken \in Seq(Entries) /\ requests \in Seq(Others)
         /\ Len(taken) \in Nat /\ Len(requests) \in Nat /\ sentNow \in Nat
         /\ accepted \in 0..MaxTraffic /\ accepted \in Nat /\ entitled \in BOOLEAN
         /\ node.queue \in Seq(Entries) /\ node.frames \in Nat
BY NodeFields, MasterAssumption DEF MasterInv, TypeOK

\* The steps that leave node, queue and requests as they are.
LEMMA AsideInv ==
  ASSUME MasterInv, UNCHANGED <<node, accepted, taken, sentNow, requests, entitled>>,
         wire' = <<>>, handed' = NoStation,
         mode' \in {"new", "running", "ended"}, handle' \in {"none", "task", "other"},
         answered' \subseteq 1..Len(requests),
         mode' = "new" => mode = "new" /\ handle' = "none",
         mode' = "running" /\ handle' = "task" => mode = "new" \/ (mode = "running" /\ handle = "task")
  PROVE  MasterInv'
<1>1. TypeOK'
  BY DEF MasterInv, TypeOK
<1>2. FramesInv' /\ WaitInv' /\ HoldInv' /\ AskInv'
  BY DEF MasterInv, FramesInv, WaitInv, HoldInv, AskInv
<1>3. AnswersLastRequest'
  BY DEF AnswersLastRequest
<1>4. QueueInv'
  BY DEF MasterInv, QueueInv, NoneLostNoneRepeated
<1> QED BY <1>1, <1>2, <1>3, <1>4 DEF MasterInv

\* A stop, and a read error, which ends the task likewise.
LEMMA StopInv ==
  ASSUME MasterInv, Stop
  PROVE  MasterInv'
<1>0. /\ UNCHANGED <<handle, accepted, taken, sentNow, requests, answered, entitled>>
      /\ wire' = <<>> /\ handed' = NoStation
      /\ mode' = IF mode = "running" THEN "ended" ELSE mode
      /\ node' = IF handle = "task" THEN Stopped(node) ELSE node
  BY DEF Stop, Quietly, app
<1>1. mode \in {"new", "running", "ended"} /\ handle \in {"none", "task", "other"}
  BY DEF MasterInv, TypeOK
<1>2. CASE handle # "task"
  BY <1>0, <1>1, <1>2, AsideInv DEF MasterInv, TypeOK, QueueInv
<1>3. CASE handle = "task"
  <2> DEFINE m == [node EXCEPT !.queue = <<>>, !.state = "Idle", !.expected = NoStation]
  <2>0. node \in NodeType
    BY MasterTypes
  <2>1. <<>> \in Seq(Entries) /\ "Idle" \in States /\ NoStation \in Others \cup {NoStation}
    BY NodeValues
  <2>2. m \in NodeType
    BY <2>0, <2>1 DEF NodeType
  <2>3. m.state = "Idle" /\ m.frames = node.frames
    BY <2>0 DEF NodeType
  <2>4. node' = m
    BY <1>0, <1>3 DEF Stopped
  <2> HIDE DEF m
  <2>5. TypeOK'
    BY <1>0, <1>1, <2>2, <2>4 DEF MasterInv, TypeOK
  <2>6. FramesInv' /\ WaitInv' /\ HoldInv' /\ AskInv'
    BY <1>0, <2>3, <2>4 DEF MasterInv, FramesInv, WaitInv, HoldInv, AskInv, Holders
  <2>7. mode' # "new" /\ mode' # "running"
    BY <1>0, <1>1, <1>3 DEF MasterInv, QueueInv
  <2>8. QueueInv' /\ AnswersLastRequest'
    BY <1>0, <2>7 DEF QueueInv, NoneLostNoneRepeated, AnswersLastRequest
  <2> QED BY <2>5, <2>6, <2>8 DEF MasterInv
<1> QED BY <1>2, <1>3

\* What is appended to the queue comes last of all.
LEMMA ConcatAppend ==
  ASSUME NEW S, NEW t \in Seq(S), NEW q \in Seq(S), NEW e \in S
  PROVE  /\ Len(t \o Append(q, e)) = Len(t \o q) + 1
         /\ (t \o Append(q, e))[Len(t \o q) + 1] = e
         /\ \A i \in 1..Len(t \o q) : (t \o Append(q, e))[i] = (t \o q)[i]
         /\ Len(t \o q) \in Nat
<1>1. PICK a \in Seq(S) : a = Append(q, e) /\ Len(a) = Len(q) + 1 /\ a[Len(q) + 1] = e
                          /\ \A i \in 1..Len(q) : a[i] = q[i]
  <2>1. /\ Append(q, e) \in Seq(S) /\ Len(Append(q, e)) = Len(q) + 1
        /\ Append(q, e)[Len(q) + 1] = e
        /\ \A i \in 1..Len(q) : Append(q, e)[i] = q[i]
    BY AppendProperties
  <2> QED BY <2>1
<1>2. Len(t) \in Nat /\ Len(q) \in Nat
  OBVIOUS
<1>3. /\ Len(t \o a) = Len(t) + Len(a)
      /\ \A i \in 1 .. Len(t) + Len(a) : (t \o a)[i] = IF i <= Len(t) THEN t[i] ELSE a[i - Len(t)]
  BY ConcatProperties
<1>4. /\ Len(t \o q) = Len(t) + Len(q)
      /\ \A i \in 1 .. Len(t) + Len(q) : (t \o q)[i] = IF i <= Len(t) THEN t[i] ELSE q[i - Len(t)]
  BY ConcatProperties
<1>5. Len(t \o a) = Len(t \o q) + 1 /\ Len(t \o q) \in Nat
  BY <1>1, <1>2, <1>3, <1>4
<1>6. (t \o a)[Len(t \o q) + 1] = e
  <2> DEFINE i == Len(t) + Len(q) + 1
  <2>1. i \in 1 .. Len(t) + Len(a) /\ ~(i <= Len(t)) /\ i - Len(t) = Len(q) + 1
    BY <1>1, <1>2
  <2>2. (t \o a)[i] = a[i - Len(t)]
    BY <1>3, <2>1
  <2> QED BY <1>1, <1>4, <2>1, <2>2
<1>7. ASSUME NEW i \in 1..Len(t \o q) PROVE (t \o a)[i] = (t \o q)[i]
  <2>0. i \in 1 .. Len(t) + Len(q) /\ i \in 1 .. Len(t) + Len(a)
    BY <1>1, <1>2, <1>4
  <2>1. CASE i <= Len(t)
    BY <1>3, <1>4, <2>0, <2>1
  <2>2. CASE ~(i <= Len(t))
    <3>1. i - Len(t) \in 1..Len(q)
      BY <1>2, <2>0, <2>2
    <3>2. (t \o a)[i] = a[i - Len(t)] /\ (t \o q)[i] = q[i - Len(t)]
      BY <1>3, <1>4, <2>0, <2>2
    <3>3. a[i - Len(t)] = q[i - Len(t)]
      BY <1>1, <3>1
    <3> QED BY <3>2, <3>3
  <2> QED BY <2>1, <2>2
<1> QED BY <1>1, <1>5, <1>6, <1>7

\* An NPDU is queued for the task, or for a fresh node that no task runs.
LEMMA SendInv ==
  ASSUME MasterInv, NEW dst \in Others \cup {Broadcast}, NEW reply \in Flags, Send(dst, reply)
  PROVE  MasterInv'
<1>0. /\ UNCHANGED <<mode, handle, taken, sentNow, requests, answered, entitled>>
      /\ wire' = <<>> /\ handed' = NoStation /\ handle # "none"
      /\ accepted + Len(requests) < MaxTraffic
  BY DEF Send, Quietly
<1>1. CASE UNCHANGED <<node, accepted>>
  BY <1>0, <1>1, AsideInv DEF MasterInv, TypeOK, QueueInv
<1>2. CASE node' = QueueNpdu(node, dst, reply, accepted + 1) /\ accepted' = accepted + 1
  <2> DEFINE e == [dst |-> dst, reply |-> reply, npdu |-> accepted + 1]
             m == [node EXCEPT !.queue = Append(node.queue, e)]
  <2>0. /\ node \in NodeType /\ node.queue \in Seq(Entries) /\ accepted \in Nat
        /\ Len(requests) \in Nat /\ taken \in Seq(Entries)
    BY MasterTypes
  <2>1. accepted + 1 \in 1..MaxTraffic /\ reply \in BOOLEAN
    BY <1>0, <2>0, MasterAssumption
  <2>2. e \in Entries
    BY <2>1 DEF Entries
  <2>3. e.npdu = accepted + 1
    OBVIOUS
  <2> HIDE DEF e
  <2>4. Append(node.queue, e) \in Seq(Entries)
    BY <2>0, <2>2
  <2>5. m \in NodeType
    BY <2>0, <2>4 DEF NodeType
  <2>6. /\ m.queue = Append(node.queue, e) /\ m.state = node.state /\ m.frames = node.frames
        /\ m.asker = node.asker /\ m.rx = node.rx /\ m.expected = node.expected
    BY <2>0 DEF NodeType
  <2>7. node' = m
    BY <1>2 DEF QueueNpdu, e
  <2> HIDE DEF m
  <2>8. TypeOK'
    <3>1. accepted' \in 0..MaxTraffic
      BY <1>2, <2>1
    <3> QED BY <1>0, <2>5, <2>7, <3>1 DEF MasterInv, TypeOK
  <2>9. FramesInv' /\ WaitInv' /\ HoldInv' /\ AskInv'
    BY <1>0, <2>6, <2>7 DEF MasterInv, FramesInv, WaitInv, HoldInv, AskInv
  <2>10. AnswersLastRequest'
    BY <1>0 DEF AnswersLastRequest
  <2>11. QueueInv'
    <3>1. mode' # "new"
      BY <1>0 DEF MasterInv, QueueInv
    <3>2. ASSUME mode = "running", handle = "task"
          PROVE  /\ Len(taken \o m.queue) = accepted + 1
                 /\ \A i \in DOMAIN (taken \o m.queue) : (taken \o m.queue)[i].npdu = i
      <4> DEFINE all == taken \o node.queue
                 now == taken \o m.queue
      <4>1. Len(all) = accepted /\ \A i \in DOMAIN all : all[i].npdu = i
        BY <3>2 DEF MasterInv, QueueInv, NoneLostNoneRepeated
      <4>2. /\ Len(now) = Len(all) + 1 /\ now[Len(all) + 1] = e
            /\ \A i \in 1..Len(all) : now[i] = all[i]
            /\ Len(all) \in Nat
        BY <2>0, <2>2, <2>6, ConcatAppend
      <4>3. all \in Seq(Entries) /\ now \in Seq(Entries)
        BY <2>0, <2>4, <2>6, ConcatProperties
      <4> HIDE DEF all, now
      <4>4. DOMAIN all = 1..Len(all) /\ DOMAIN now = 1 .. Len(all) + 1
        BY <4>2, <4>3
      <4>5. ASSUME NEW i \in 1 .. Len(all) + 1 PROVE now[i].npdu = i
        <5>1. CASE i = Len(all) + 1
          BY <2>3, <4>1, <4>2, <5>1
        <5>2. CASE i \in 1..Len(all)
          BY <4>1, <4>2, <4>4, <5>2
        <5>3. i = Len(all) + 1 \/ i \in 1..Len(all)
          BY <4>2
        <5> QED BY <5>1, <5>2, <5>3
      <4>6. Len(now) = accepted + 1
        BY <4>1, <4>2
      <4>7. \A i \in DOMAIN now : now[i].npdu = i
        BY <4>4, <4>5
      <4> QED BY <4>6, <4>7 DEF now
    <3> QED BY <1>0, <1>2, <2>7, <3>1, <3>2 DEF QueueInv, NoneLostNoneRepeated
  <2> QED BY <2>8, <2>9, <2>10, <2>11 DEF MasterInv
<1> QED BY <1>1, <1>2 DEF Send
\* A frame arrives. The node is any that obeys the invariants.
LEMMA ReceiveInv ==
  ASSUME MasterInv, NEW f \in Frames, ReceiveFrame(f)
  PROVE  MasterInv'
<1> DEFINE q == Len(requests) + 1
           r == Receive(node, f, q)
<1>0. /\ node \in NodeType /\ taken \in Seq(Entries) /\ requests \in Seq(Others)
      /\ Len(taken) \in Nat /\ Len(requests) \in Nat /\ sentNow \in Nat /\ accepted \in Nat
      /\ node.queue \in Seq(Entries) /\ node.frames \in Nat /\ sentNow <= node.frames
  BY MasterTypes DEF MasterInv, FramesInv
<1>1. /\ mode = "running" /\ node' = r.node /\ wire' = r.out
      /\ handed' \in (IF HandsUp(node, f) THEN {NoStation, f.src} ELSE {NoStation})
      /\ taken' = taken \o SubSeq(node.queue, 1, Len(node.queue) - Len(r.node.queue))
      /\ sentNow' = (IF TokenForUs(f) THEN 0 ELSE sentNow)
                    + Len(node.queue) - Len(r.node.queue)
      /\ entitled' = (TokenForUs(f) \/ (entitled /\ node.state # "PassToken"))
      /\ IF Request(f)
         THEN accepted + Len(requests) < MaxTraffic /\ requests' = Append(requests, f.src)
         ELSE UNCHANGED requests
      /\ UNCHANGED <<mode, handle, accepted, answered>>
  BY DEF ReceiveFrame
<1>2. Request(f) => q \in Numbers
  BY <1>0, <1>1, MasterAssumption DEF Numbers
<1> HIDE DEF q
<1>3. PICK k \in Nat : Received(node, f, q, r, k)
  BY <1>0, <1>2, ReceiveWorks
<1> HIDE DEF r
<1>4. /\ r.node \in NodeType /\ k \in 0..Len(node.queue)
      /\ r.node.queue = SubSeq(node.queue, k + 1, Len(node.queue))
      /\ r.node.frames = (IF TokenForUs(f) THEN 0 ELSE node.frames) + k
      /\ r.out \in Seq(Plain)
  BY <1>3 DEF Received
<1>5. Len(node.queue) - Len(r.node.queue) = k /\ Len(node.queue) \in Nat
  <2>1. Len(r.node.queue) = Len(node.queue) - k
    BY <1>0, <1>4, RestOf
  <2>2. Len(node.queue) \in Nat
    BY <1>0
  <2> QED BY <2>1, <2>2
<1>6. /\ taken' = taken \o SubSeq(node.queue, 1, k)
      /\ sentNow' = (IF TokenForUs(f) THEN 0 ELSE sentNow) + k
  <2>1. taken' = taken \o SubSeq(node.queue, 1, k)
    BY <1>1, <1>5
  <2>2. PICK s \in Nat : s = IF TokenForUs(f) THEN 0 ELSE sentNow
    BY <1>0
  <2>3. Len(r.node.queue) \in Nat
    BY <1>4, NodeFields
  <2>4. sentNow' = s + Len(node.queue) - Len(r.node.queue)
    BY <1>1, <2>2
  <2>5. sentNow' = s + k
    BY <1>5, <2>2, <2>3, <2>4
  <2> QED BY <2>1, <2>2, <2>5
<1>7. /\ taken' \in Seq(Entries) /\ Len(taken') = Len(taken) + k
      /\ k = 0 => taken' = taken
      /\ k > 0 => taken'[Len(taken) + k] = node.queue[k]
      /\ taken' \o node'.queue = taken \o node.queue
  <2> DEFINE first == SubSeq(node.queue, 1, k)
             rest  == SubSeq(node.queue, k + 1, Len(node.queue))
  <2>1. /\ taken \o first \in Seq(Entries)
        /\ Len(taken \o first) = Len(taken) + k
        /\ k = 0 => taken \o first = taken
        /\ k > 0 => (taken \o first)[Len(taken) + k] = node.queue[k]
        /\ (taken \o first) \o rest = taken \o node.queue
    <3>1. PICK t \in Seq(Entries) : t = taken
      BY <1>0
    <3>2. PICK w \in Seq(Entries) : w = node.queue
      BY <1>0
    <3>3. k \in 0..Len(w)
      BY <1>4, <3>2
    <3>4. /\ t \o SubSeq(w, 1, k) \in Seq(Entries)
          /\ Len(t \o SubSeq(w, 1, k)) = Len(t) + k
          /\ k = 0 => t \o SubSeq(w, 1, k) = t
          /\ k > 0 => (t \o SubSeq(w, 1, k))[Len(t) + k] = w[k]
          /\ (t \o SubSeq(w, 1, k)) \o SubSeq(w, k + 1, Len(w)) = t \o w
      BY <3>3, Moved
    <3> QED BY <3>1, <3>2, <3>4, Zenon
  <2>2. taken' = taken \o first
    BY <1>6
  <2>3. node'.queue = rest
    BY <1>1, <1>4
  <2> HIDE DEF first, rest
  <2> QED BY <2>1, <2>2, <2>3
<1>8. /\ requests' \in Seq(Others)
      /\ Request(f) => /\ Len(requests') = q /\ requests'[q] = f.src /\ requests' # <<>>
                       /\ 1..Len(requests) \subseteq 1..Len(requests')
  <2>1. f.src \in Others
    BY FrameFields
  <2>2. CASE Request(f)
    <3>1. requests' = Append(requests, f.src)
      BY <1>1, <2>2
    <3>2. /\ Append(requests, f.src) \in Seq(Others)
          /\ Len(Append(requests, f.src)) = Len(requests) + 1
          /\ Append(requests, f.src)[Len(requests) + 1] = f.src
      BY <1>0, <2>1, AppendProperties
    <3>3. Append(requests, f.src) # <<>>
      BY <1>0, <3>2
    <3> QED BY <1>0, <3>1, <3>2, <3>3 DEF q
  <2>3. CASE ~Request(f)
    BY <1>0, <1>1, <2>3
  <2> QED BY <2>2, <2>3
<1>9. TypeOK'
  <2>1. sentNow' \in Nat
    BY <1>0, <1>6
  <2>2. handed' \in Others \cup {NoStation}
    BY <1>1, FrameFields
  <2>3. entitled' \in BOOLEAN
    BY <1>1
  <2>4. answered' \subseteq 1..Len(requests')
    BY <1>1, <1>8 DEF MasterInv, TypeOK
  <2> QED BY <1>1, <1>4, <1>7, <1>8, <2>1, <2>2, <2>3, <2>4 DEF MasterInv, TypeOK
<1>10. FramesInv'
  <2>1. sentNow' <= r.node.frames
    <3>1. CASE TokenForUs(f)
      <4>1. sentNow' = 0 + k
        BY <1>6, <3>1
      <4>2. r.node.frames = 0 + k
        BY <1>4, <3>1
      <4> QED BY <4>1, <4>2
    <3>2. CASE ~TokenForUs(f)
      <4>1. sentNow' = sentNow + k
        BY <1>6, <3>2
      <4>2. r.node.frames = node.frames + k
        BY <1>4, <3>2
      <4> QED BY <1>0, <4>1, <4>2
    <3> QED BY <3>1, <3>2
  <2>2. node' = r.node
    BY <1>1
  <2>3. sentNow' <= node'.frames
    BY <2>1, <2>2
  <2> QED BY <2>3 DEF FramesInv
<1>11. QueueInv'
  BY <1>1, <1>7 DEF MasterInv, QueueInv, NoneLostNoneRepeated
<1>12. WaitInv'
  <2> SUFFICES ASSUME r.node.state = "WaitForReply"
               PROVE  taken' # <<>> /\ r.node.expected = taken'[Len(taken')].dst
    BY <1>1 DEF WaitInv
  <2>1. \/ k > 0 /\ r.node.expected = node.queue[k].dst
        \/ k = 0 /\ node.state = "WaitForReply" /\ r.node.expected = node.expected
    BY <1>3 DEF Received
  <2>2. CASE k > 0 /\ r.node.expected = node.queue[k].dst
    <3>1. Len(taken') > 0
      BY <1>0, <1>7, <2>2
    <3>2. taken' # <<>>
      BY <3>1
    <3> QED BY <1>7, <2>2, <3>2
  <2>3. CASE k = 0 /\ node.state = "WaitForReply" /\ r.node.expected = node.expected
    BY <1>7, <2>3 DEF MasterInv, WaitInv
  <2> QED BY <2>1, <2>2, <2>3
<1>13. HoldInv'
  BY <1>1, <1>3 DEF MasterInv, HoldInv, Received, Holders
<1>14. AskInv'
  <2> SUFFICES ASSUME r.node.state = "AnswerDataRequest"
               PROVE  /\ requests' # <<>> /\ r.node.asker = requests'[Len(requests')]
                      /\ r.node.rx = Len(requests')
    BY <1>1 DEF AskInv
  <2>1. IF Request(f) THEN r.node.asker = f.src /\ r.node.rx = q
        ELSE node.state = "AnswerDataRequest" /\ r.node.asker = node.asker /\ r.node.rx = node.rx
    BY <1>3 DEF Received
  <2>2. CASE Request(f)
    BY <1>8, <2>1, <2>2
  <2>3. CASE ~Request(f)
    BY <1>1, <2>1, <2>3 DEF MasterInv, AskInv
  <2> QED BY <2>2, <2>3
<1>15. AnswersLastRequest'
  <2>1. \A i \in DOMAIN wire' : wire'[i] \in Plain
    BY <1>1, <1>4
  <2>2. \A i \in DOMAIN wire' : wire'[i].answers = 0 /\ wire'[i].type # "ReplyPostponed"
    BY <2>1 DEF Plain
  <2> QED BY <2>2 DEF AnswersLastRequest
<1> QED BY <1>9, <1>10, <1>11, <1>12, <1>13, <1>14, <1>15 DEF MasterInv

\* The timer expires.
LEMMA TimerInv ==
  ASSUME MasterInv, TimerExpires
  PROVE  MasterInv'
<1> DEFINE r == Timeout(node, answered)
<1>0. /\ node \in NodeType /\ node.frames \in Nat /\ sentNow \in Nat /\ sentNow <= node.frames
      /\ requests \in Seq(Others) /\ Len(requests) \in Nat
  BY MasterTypes DEF MasterInv, FramesInv
<1>1. /\ node' = r.node /\ wire' = r.out /\ handed' = NoStation
      /\ sentNow' = IF r.node.state = "UseToken" THEN 0 ELSE sentNow
      /\ entitled' = (entitled \/ node.state = "NoToken")
      /\ UNCHANGED <<mode, handle, accepted, requests, answered, taken>>
  BY DEF TimerExpires, app
<1>2. Expired(node, r)
  BY <1>0, TimeoutWorks
<1> HIDE DEF r
<1>3. r.node.frames \in Nat
  BY <1>2, NodeFields DEF Expired
<1>4. TypeOK'
  <2>1. node' \in NodeType /\ sentNow' \in Nat
    BY <1>0, <1>1, <1>2 DEF Expired
  <2>2. entitled' \in BOOLEAN
    BY <1>1
  <2> QED BY <1>1, <2>1, <2>2 DEF MasterInv, TypeOK
<1>5. FramesInv'
  BY <1>0, <1>1, <1>2, <1>3 DEF FramesInv, Expired
<1>6. QueueInv'
  BY <1>1, <1>2 DEF MasterInv, QueueInv, NoneLostNoneRepeated, Expired
<1>7. WaitInv' /\ AskInv'
  BY <1>1, <1>2 DEF WaitInv, AskInv, Expired
<1>8. HoldInv'
  BY <1>1, <1>2 DEF MasterInv, HoldInv, Expired
<1>9. AnswersLastRequest'
  <2>1. CASE node.state # "AnswerDataRequest"
    <3>1. \A i \in DOMAIN wire' : wire'[i] \in Plain
      BY <1>1, <1>2, <2>1 DEF Expired
    <3>2. \A i \in DOMAIN wire' : wire'[i].answers = 0 /\ wire'[i].type # "ReplyPostponed"
      BY <3>1 DEF Plain
    <3> QED BY <3>2 DEF AnswersLastRequest
  <2>2. CASE node.state = "AnswerDataRequest"
    <3>1. requests # <<>> /\ node.asker = requests[Len(requests)] /\ node.rx = Len(requests)
      BY <2>2 DEF MasterInv, AskInv
    <3>2. requests[Len(requests)] \in Others
      <4>1. Len(requests) \in 1..Len(requests)
        BY <1>0, <3>1
      <4> QED BY <1>0, <4>1
    <3>3. node.asker # NoStation
      BY <3>1, <3>2, MasterAssumption DEF NoStation
    <3>4. \A i \in DOMAIN wire' : wire'[i].answers \in {0, node.rx} /\ wire'[i].dst = node.asker
      BY <1>1, <1>2, <2>2, <3>3 DEF Expired
    <3> QED BY <1>1, <3>1, <3>4 DEF AnswersLastRequest
  <2> QED BY <2>1, <2>2
<1> QED BY <1>4, <1>5, <1>6, <1>7, <1>8, <1>9 DEF MasterInv

\* Every step keeps the invariant.
LEMMA MasterNext == MasterInv /\ [Next]_vars => MasterInv'
<1> SUFFICES ASSUME MasterInv, [Next]_vars PROVE MasterInv'
  OBVIOUS
<1>0. mode \in {"new", "running", "ended"} /\ handle \in {"none", "task", "other"}
      /\ answered \subseteq 1..Len(requests) /\ (mode = "new" => handle = "none")
  BY DEF MasterInv, TypeOK, QueueInv
<1>1. CASE UNCHANGED vars
  <2>1. TypeOK' /\ FramesInv' /\ QueueInv' /\ WaitInv' /\ HoldInv' /\ AskInv' /\ AnswersLastRequest'
    BY <1>1 DEF vars, MasterInv, TypeOK, FramesInv, QueueInv, NoneLostNoneRepeated, WaitInv,
           HoldInv, AskInv, AnswersLastRequest
  <2> QED BY <2>1 DEF MasterInv
<1>2. CASE Start
  BY <1>0, <1>2, AsideInv DEF Start, Quietly, app
<1>3. CASE Stop
  BY <1>3, StopInv
<1>4. CASE ReadError
  BY <1>0, <1>4, AsideInv DEF ReadError, Quietly, app
<1>5. ASSUME NEW r \in 1..MaxTraffic, AppAnswers(r) PROVE MasterInv'
  <2>1. r \in 1..Len(requests)
    <3>1. requests \in Seq(Others)
      BY MasterTypes
    <3> QED BY <1>5, <3>1 DEF AppAnswers
  <2> QED BY <1>0, <1>5, <2>1, AsideInv DEF AppAnswers, Quietly
<1>6. ASSUME NEW dst \in Others \cup {Broadcast}, NEW reply \in Flags, Send(dst, reply)
      PROVE  MasterInv'
  BY <1>6, SendInv
<1>7. ASSUME NEW f \in Frames, ReceiveFrame(f) PROVE MasterInv'
  BY <1>7, ReceiveInv
<1>8. CASE TimerExpires
  BY <1>8, TimerInv
<1> QED BY <1>1, <1>2, <1>3, <1>4, <1>5, <1>6, <1>7, <1>8 DEF Next

\* The invariants hold of every behaviour.
LEMMA MasterAlways == Spec => []MasterInv
<1>1. Init => MasterInv
  BY MasterInit
<1>2. MasterInv /\ [Next]_vars => MasterInv'
  BY MasterNext
<1> QED BY <1>1, <1>2, PTL DEF Spec

-----------------------------------------------------------------------------
(* What a master owes the others.                                          *)

\* The state is always well typed: whatever comes in whatever state, the
\* node, its task and its queue hold what the code expects.
THEOREM TypeCorrect == Spec => []TypeOK
<1>1. MasterInv => TypeOK
  BY DEF MasterInv
<1> QED BY <1>1, MasterAlways, PTL

\* A token is used for max_info_frames frames at most, whatever interrupts
\* its use (use_token, handle_timeout).
THEOREM FrameLimitKept == Spec => []FrameLimit
<1>1. MasterInv => FrameLimit
  <2> SUFFICES ASSUME MasterInv PROVE FrameLimit
    OBVIOUS
  <2>1. node.frames \in 0..MaxInfoFrames /\ sentNow \in Nat /\ sentNow <= node.frames
    BY MasterTypes, NodeFields DEF MasterInv, FramesInv
  <2> QED BY <2>1, NodeAssumption DEF FrameLimit
<1> QED BY <1>1, MasterAlways, PTL

\* What was accepted for sending is sent or queued, once and in order, while
\* the task runs (send_unicast, use_token).
THEOREM QueueInOrder == Spec => []NoneLostNoneRepeated
<1>1. MasterInv => NoneLostNoneRepeated
  BY DEF MasterInv, QueueInv
<1> QED BY <1>1, MasterAlways, PTL

\* An answer, or the promise of one, goes to the station that asked last and
\* is the answer to what it asked (the AnswerDataRequest state).
THEOREM AnswersGoBack == Spec => []AnswersLastRequest
<1>1. MasterInv => AnswersLastRequest
  BY DEF MasterInv
<1> QED BY <1>1, MasterAlways, PTL

\* A node sends nothing of its own accord without the token: not after
\* somebody was heard, until it is given the token or waited in vain.
THEOREM OnlyHoldersInitiate == Spec => OnlyHolderInitiates
<1>1. ASSUME MasterInv, [Next]_vars
      PROVE  [ (\E i \in DOMAIN wire' : Initiative(wire'[i])) => entitled' ]_vars
  <2> SUFFICES ASSUME ~(UNCHANGED vars), NEW i \in DOMAIN wire', Initiative(wire'[i])
               PROVE  entitled'
    OBVIOUS
  <2>0. \A out : out \in Seq(Passive) /\ i \in DOMAIN out => ~Initiative(out[i])
    BY DEF Passive
  <2>1. ASSUME wire' = <<>> PROVE entitled'
    BY <2>1
  <2>2. ASSUME NEW f \in Frames, ReceiveFrame(f) PROVE entitled'
    <3> DEFINE q == Len(requests) + 1
               r == Receive(node, f, q)
    <3>1. /\ wire' = r.out
          /\ entitled' = (TokenForUs(f) \/ (entitled /\ node.state # "PassToken"))
          /\ Request(f) => accepted + Len(requests) < MaxTraffic
      BY <2>2 DEF ReceiveFrame
    <3>2. node \in NodeType /\ (Request(f) => q \in Numbers)
      BY <1>1, <3>1, MasterTypes, MasterAssumption DEF Numbers
    <3> HIDE DEF q
    <3>3. PICK k \in Nat : Received(node, f, q, r, k)
      BY <3>2, ReceiveWorks
    <3> HIDE DEF r
    <3> QED BY <1>1, <2>0, <3>1, <3>3 DEF MasterInv, HoldInv, Received, Holders
  <2>3. CASE TimerExpires
    <3> DEFINE r == Timeout(node, answered)
    <3>1. wire' = r.out /\ entitled' = (entitled \/ node.state = "NoToken")
      BY <2>3 DEF TimerExpires
    <3>2. Expired(node, r)
      BY <1>1, MasterTypes, TimeoutWorks
    <3> HIDE DEF r
    <3> QED BY <1>1, <2>0, <3>1, <3>2 DEF MasterInv, HoldInv, Expired
  <2> QED BY <1>1, <2>1, <2>2, <2>3 DEF Next, Start, Stop, ReadError, Send, AppAnswers, Quietly
<1> QED BY <1>1, MasterAlways, PTL DEF Spec, OnlyHolderInitiates

\* Data that ends a wait for a reply and is handed up came from the station
\* that was asked last (handle_received_frame in the state WaitForReply).
THEOREM OnlyTheAskedBelieved == Spec => OnlyAskedIsBelieved
<1>1. ASSUME MasterInv, [Next]_vars
      PROVE  [ node.state = "WaitForReply" /\ node'.state = "PassToken" /\ handed' # NoStation
                 => handed' = taken[Len(taken)].dst ]_vars
  <2> SUFFICES ASSUME ~(UNCHANGED vars), node.state = "WaitForReply", node'.state = "PassToken",
                      handed' # NoStation
               PROVE  handed' = taken[Len(taken)].dst
    OBVIOUS
  <2>1. PICK f \in Frames : ReceiveFrame(f)
    BY <1>1 DEF Next, Start, Stop, ReadError, Send, AppAnswers, Quietly, TimerExpires
  <2>2. node' = Receive(node, f, Len(requests) + 1).node /\ HandsUp(node, f) /\ handed' = f.src
    BY <2>1 DEF ReceiveFrame
  <2>3. f.dst \in {node.ts, Broadcast} /\ (f.dst = node.ts => f.src = node.expected)
    BY <2>2 DEF HandsUp
  <2>4. CASE f.dst = node.ts
    BY <1>1, <2>2, <2>3, <2>4 DEF MasterInv, WaitInv
  <2>5. CASE f.dst # node.ts
    <3>1. Receive(node, f, Len(requests) + 1) = GoOn(Heard(node)) /\ Heard(node) = node
      BY <2>5 DEF Receive, Heard
    <3>2. GoOn(node) = Silently(node)
      BY DEF GoOn
    <3>3. node' = node
      BY <2>2, <3>1, <3>2 DEF Silently
    <3> QED BY <3>3
  <2> QED BY <2>4, <2>5
<1> QED BY <1>1, MasterAlways, PTL DEF Spec, OnlyAskedIsBelieved
=============================================================================
