------------------------------ MODULE MstpNode ------------------------------
(***************************************************************************)
(* The MS/TP master node of bacnet-transport as a function of its state:   *)
(* MasterNode (mstp/mod.rs) together with the two branches of the receive  *)
(* loop that drive it (mstp/port.rs), a decoded frame and the timer.  The  *)
(* node's mutex is held over the whole of a branch, so each branch is one  *)
(* step; it answers with the node's next state and the frames it is about  *)
(* to write.                                                               *)
(*                                                                         *)
(* Abstractions: a frame carries the number of its NPDU instead of its     *)
(* octets; every NPDU fits in a frame, so nothing fails to encode; a reply *)
(* channel is the number of the request it belongs to.  sole_master and    *)
(* event_count are never read by the code and are left out.                *)
(***************************************************************************)
EXTENDS Naturals, Sequences

CONSTANTS
  MaxMaster,       \* MstpConfig.max_master
  MaxInfoFrames,   \* MstpConfig.max_info_frames
  NPoll,           \* NPOLL
  MaxPollRetries,  \* MAX_POLL_RETRIES
  NRetryToken,     \* N_RETRY_TOKEN
  TokenCountSize,  \* token_count is a u8: it wraps at this value (256)
  QueueDepth       \* MAX_TX_QUEUE_DEPTH

ASSUME NodeAssumption ==
  /\ MaxMaster \in 1..127
  /\ MaxInfoFrames \in Nat
  /\ NPoll \in Nat /\ NPoll < TokenCountSize
  /\ MaxPollRetries \in Nat \ {0}
  /\ NRetryToken \in Nat
  /\ TokenCountSize \in Nat \ {0}
  /\ QueueDepth \in Nat

Stations == 0..MaxMaster

Broadcast == 255

NoStation == 254   \* None, where a station is optional

NoRequest == 0     \* None, where a reply channel is optional

States == {"Idle", "NoToken", "UseToken", "DoneWithToken", "PassToken",
           "WaitForReply", "PollForMaster", "AnswerDataRequest"}

(* A node: `rx' is the reply channel (reply_rx), `asker' is                *)
(* pending_reply_source, `expected' is expected_reply_source.              *)
NewNode(ts) ==
  [ts |-> ts, state |-> "Idle", ns |-> ts, ps |-> ts, tokens |-> NPoll, frames |-> 0,
   polls |-> 0, retries |-> 0, queue |-> <<>>, rx |-> NoRequest, asker |-> NoStation,
   expected |-> NoStation]

(* A frame: `npdu' numbers the data it carries, `answers' the request that *)
(* data is the answer to.                                                  *)
Control(type, dst, src) == [type |-> type, dst |-> dst, src |-> src, npdu |-> 0, answers |-> 0]

NextAddr(a) == IF a >= MaxMaster THEN 0 ELSE a + 1

Smaller(a, b) == IF a < b THEN a ELSE b

Silently(n) == [node |-> n, out |-> <<>>]

-----------------------------------------------------------------------------
(* Using and passing the token.                                            *)

PassToken(n) ==
  [node |-> [n EXCEPT !.state = "PassToken", !.retries = 0],
   out  |-> <<Control("Token", n.ns, n.ts)>>]

ExpectsReply(entry) == entry.dst # Broadcast /\ entry.reply

DataFrame(n, entry) ==
  [type |-> IF ExpectsReply(entry) THEN "DataExpectingReply" ELSE "DataNotExpectingReply",
   dst |-> entry.dst, src |-> n.ts, npdu |-> entry.npdu, answers |-> 0]

\* What the limit on the frames of a token leaves.
Room(n) == IF n.frames < MaxInfoFrames THEN MaxInfoFrames - n.frames ELSE 0

\* How many of the queued NPDUs go out: up to the limit, but none after one
\* that expects a reply.
BurstLength(n) ==
  LET most   == Smaller(Len(n.queue), Room(n))
      asking == {i \in 1..most : ExpectsReply(n.queue[i])}
  IN  IF asking = {} THEN most ELSE CHOOSE i \in asking : \A j \in asking : i <= j

\* With the queue empty and frames to spare: poll when it is time to and
\* there is an address to poll, otherwise pass the token.
PollOrPass(n) ==
  LET ps == NextAddr(n.ns)
  IN  IF n.tokens < NPoll THEN PassToken(n)
      ELSE IF ps = n.ts THEN PassToken([n EXCEPT !.tokens = 0, !.ps = ps])
      ELSE [node |-> [n EXCEPT !.tokens = 0, !.ps = ps, !.state = "PollForMaster"],
            out  |-> <<Control("PollForMaster", ps, n.ts)>>]

\* Faulty: the station asked before is still the one expected.
AwaitFirstReply(n, dst) ==
  [n EXCEPT !.state = "WaitForReply", !.expected = IF @ = NoStation THEN dst ELSE @]

AwaitReply(n, dst) == [n EXCEPT !.state = "WaitForReply", !.expected = dst]

\* The burst, and what ends it: an outstanding reply, the frame limit, or an
\* empty queue.
UseToken(n) ==
  LET k    == BurstLength(n)
      sent == [i \in 1..k |-> DataFrame(n, n.queue[i])]
      m    == [n EXCEPT !.frames = @ + k, !.queue = SubSeq(@, k + 1, Len(@))]
      end  == IF k > 0 /\ ExpectsReply(n.queue[k])
              THEN Silently(AwaitReply(m, n.queue[k].dst))
              ELSE IF m.frames >= MaxInfoFrames THEN PassToken(m) ELSE PollOrPass(m)
  IN  [node |-> end.node, out |-> sent \o end.out]

\* What the loop does after every frame that was handled.
GoOn(n) ==
  CASE n.state = "UseToken"      -> UseToken(n)
    [] n.state = "DoneWithToken" -> PassToken(n)
    [] OTHER                     -> Silently(n)

\* A frame is answered first, then the token is used if the node has it.
Answer(frame, n) ==
  LET r == GoOn(n) IN [node |-> r.node, out |-> <<frame>> \o r.out]

-----------------------------------------------------------------------------
(* handle_received_frame, for a frame f that is not the node's own.        *)

\* Faulty: the token goes on being passed.
HeardNothing(n) == n

\* Any frame heard while passing shows that the token is in use.
Heard(n) == IF n.state = "PassToken" THEN [n EXCEPT !.state = "Idle"] ELSE n

\* Faulty: the count of tokens does not wrap.
ReceiveTokenWide(n) ==
  GoOn([n EXCEPT !.state = "UseToken", !.frames = 0, !.retries = 0, !.tokens = @ + 1])

ReceiveToken(n) ==
  GoOn([n EXCEPT !.state = "UseToken", !.frames = 0, !.retries = 0,
                 !.tokens = (@ + 1) % TokenCountSize])

\* The poll found a master: it becomes the successor and gets the token.
ReceivePollReply(n, f) ==
  IF n.state = "PollForMaster"
  THEN PassToken([n EXCEPT !.ns = f.src, !.ps = n.ts, !.tokens = 0, !.polls = 0])
  ELSE GoOn(n)

\* Faulty: the token is used afresh after a reply.
EndWaitAfresh(n) ==
  IF n.state = "WaitForReply"
  THEN GoOn([n EXCEPT !.expected = NoStation, !.state = "UseToken", !.frames = 0])
  ELSE GoOn(n)

\* A reply, the promise of one, or something unexpected: the wait is over.
EndWait(n) ==
  IF n.state = "WaitForReply"
  THEN GoOn([n EXCEPT !.expected = NoStation, !.state = "DoneWithToken"])
  ELSE GoOn(n)

\* Faulty: the station to answer is set only if there is none.
ReceiveRequestKeepsAsker(n, f, r) ==
  Silently([n EXCEPT !.state = "AnswerDataRequest", !.rx = r,
                     !.asker = IF @ = NoStation THEN f.src ELSE @])

\* Request number r: a channel for its answer is opened.
ReceiveRequest(n, f, r) ==
  Silently([n EXCEPT !.state = "AnswerDataRequest", !.asker = f.src, !.rx = r])

Receive(n, f, r) ==
  LET m == Heard(n)
  IN  IF f.dst # n.ts THEN GoOn(m)
      ELSE CASE f.type = "Token"                 -> ReceiveToken(m)
             [] f.type = "PollForMaster"         ->
                  Answer(Control("ReplyToPollForMaster", f.src, n.ts), m)
             [] f.type = "ReplyToPollForMaster"  -> ReceivePollReply(m, f)
             [] f.type = "DataNotExpectingReply" -> EndWait(m)
             [] f.type = "DataExpectingReply"    -> ReceiveRequest(m, f, r)
             [] f.type = "TestRequest"           -> Answer(Control("TestResponse", f.src, n.ts), m)
             [] f.type = "ReplyPostponed"        -> EndWait(m)
             [] OTHER                            -> GoOn(m)

\* Whether frame f is data, expecting no reply, for the network layer.
HandsUp(n, f) ==
  /\ f.type = "DataNotExpectingReply"
  /\ f.dst \in {n.ts, Broadcast}
  /\ n.state = "WaitForReply" /\ f.dst = n.ts => f.src = n.expected

-----------------------------------------------------------------------------
(* The timer.                                                              *)

\* NoToken: nobody generated a token, so this node looks for a successor.
GenerateToken(n) ==
  LET ps == NextAddr(n.ts)
  IN  [node |-> [n EXCEPT !.ps = ps, !.state = "PollForMaster", !.polls = 0],
       out  |-> <<Control("PollForMaster", ps, n.ts)>>]

Poll(n) ==
  [node |-> [n EXCEPT !.state = "PollForMaster"],
   out  |-> <<Control("PollForMaster", n.ps, n.ts)>>]

\* poll_timeout: the same address again, the next one, or the end of the scan.
PollTimeout(n) ==
  LET ps == NextAddr(n.ps)
      m  == [n EXCEPT !.polls = 0, !.ps = ps]
  IN  IF n.polls + 1 < MaxPollRetries THEN Poll([n EXCEPT !.polls = @ + 1])
      ELSE IF ps = n.ts /\ n.ns = n.ts
      THEN [node |-> [m EXCEPT !.state = "UseToken", !.frames = 0, !.tokens = 0],
            out  |-> <<Control("Token", n.ts, n.ts)>>]
      ELSE IF ps \in {n.ts, n.ns} THEN PassToken(m) ELSE Poll(m)

\* pass_token_timeout: retry, give up, or try the next address.
PassTokenTimeout(n) ==
  LET ns == NextAddr(n.ns)
  IN  IF n.retries < NRetryToken
      THEN [node |-> [n EXCEPT !.retries = @ + 1], out |-> <<Control("Token", n.ns, n.ts)>>]
      ELSE IF n.ns = n.ts THEN Silently([n EXCEPT !.state = "NoToken"])
      ELSE IF ns = n.ts
      THEN Silently([n EXCEPT !.ns = ns, !.state = "UseToken", !.frames = 0])
      ELSE [node |-> [n EXCEPT !.ns = ns, !.retries = 0], out |-> <<Control("Token", ns, n.ts)>>]

\* The answer the application has given by now, or else ReplyPostponed.
AnswerTimeout(n, answered) ==
  [node |-> [n EXCEPT !.rx = NoRequest, !.asker = NoStation, !.state = "Idle"],
   out  |-> << LET dst == IF n.asker = NoStation THEN Broadcast ELSE n.asker
               IN  IF n.rx \in answered
                   THEN [Control("DataNotExpectingReply", dst, n.ts) EXCEPT !.answers = n.rx]
                   ELSE Control("ReplyPostponed", dst, n.ts) >>]

Timeout(n, answered) ==
  CASE n.state = "Idle"              -> Silently([n EXCEPT !.state = "NoToken", !.retries = 0])
    [] n.state = "NoToken"           -> GenerateToken(n)
    [] n.state = "PollForMaster"     -> PollTimeout(n)
    [] n.state = "WaitForReply"      ->
         Silently([n EXCEPT !.expected = NoStation, !.frames = MaxInfoFrames,
                            !.state = "DoneWithToken"])
    [] n.state = "AnswerDataRequest" -> AnswerTimeout(n, answered)
    [] n.state = "PassToken"         -> PassTokenTimeout(n)
    [] OTHER                         -> PassToken(n)

-----------------------------------------------------------------------------
(* send_unicast, send_broadcast and stop.                                  *)

CanQueue(n) == Len(n.queue) < QueueDepth

\* Faulty: the newest goes first.
QueueNpduFirst(n, dst, reply, npdu) ==
  [n EXCEPT !.queue = <<[dst |-> dst, reply |-> reply, npdu |-> npdu]>> \o @]

QueueNpdu(n, dst, reply, npdu) ==
  [n EXCEPT !.queue = Append(@, [dst |-> dst, reply |-> reply, npdu |-> npdu])]

Stopped(n) ==
  [n EXCEPT !.queue = <<>>, !.state = "Idle", !.expected = NoStation]
=============================================================================
