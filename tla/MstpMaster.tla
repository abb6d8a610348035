----------------------------- MODULE MstpMaster -----------------------------
(***************************************************************************)
(* One MS/TP master among stations that may send it any frame at any time: *)
(* MstpTransport::start spawns the task that runs the node of module       *)
(* MstpNode, send_unicast and send_broadcast fill its queue, the           *)
(* application answers requests through their reply channels, stop aborts  *)
(* the task.                                                               *)
(*                                                                         *)
(* The properties are the ones a node owes the others whatever they do;    *)
(* what the stations of a bus achieve together is a question for a         *)
(* composition.  Time is left out: the timer may expire at any moment.  A  *)
(* failed write is left out too: the node does not notice it, and for the  *)
(* others it is a frame lost on the bus.                                   *)
(***************************************************************************)
EXTENDS MstpNode

CONSTANTS
  ThisStation,   \* MstpConfig.this_station
  Others,        \* the stations this one may hear
  Flags,         \* the expecting-reply flags of the NPDUs sent
  StartedTwice,  \* bound: whether start may be called on a started transport
  MaxTraffic     \* bound: NPDUs accepted for sending and requests received

ASSUME MasterAssumption ==
  /\ ThisStation \in 0..127
  /\ Others \subseteq (0..253) \ {ThisStation}
  /\ Flags \subseteq BOOLEAN
  /\ StartedTwice \in BOOLEAN /\ MaxTraffic \in Nat

VARIABLES
  node,      \* the node that the task runs
  mode,      \* the task: not started, running, or ended
  handle,    \* the node that send_* fills: none, that of the task, or another
  accepted,  \* NPDUs that send_* has accepted for the node of the task
  taken,     \* history: what the node has taken from its queue, in order
  sentNow,   \* history: data frames since the token was received or claimed
  requests,  \* history: the sources of the requests received
  answered,  \* requests the application has answered
  wire,      \* the frames the last step writes
  handed,    \* who sent the NPDU, expecting no reply, handed up in the last step
  entitled   \* history: the node may still act on the token

vars == <<node, mode, handle, accepted, taken, sentNow, requests, answered,
          wire, handed, entitled>>

app == <<accepted, requests, answered>>

-----------------------------------------------------------------------------

FrameTypes == {"Token", "PollForMaster", "ReplyToPollForMaster", "TestRequest", "TestResponse",
               "DataExpectingReply", "DataNotExpectingReply", "ReplyPostponed"}

\* Of the frames for other stations and of the broadcasts the node tells
\* nothing but data apart.
Frames ==
  {Control(type, ThisStation, src) : type \in FrameTypes, src \in Others}
  \cup {Control("DataNotExpectingReply", dst, src) : src \in Others,
                                                    dst \in Others \cup {Broadcast}}

Request(f) == f.type = "DataExpectingReply" /\ f.dst = ThisStation

TokenForUs(f) == f.type = "Token" /\ f.dst = ThisStation

Init ==
  /\ node = NewNode(ThisStation)
  /\ mode = "new" /\ handle = "none"
  /\ accepted = 0 /\ taken = <<>> /\ sentNow = 0
  /\ requests = <<>> /\ answered = {}
  /\ wire = <<>> /\ handed = NoStation
  /\ entitled = FALSE

Quietly == wire' = <<>> /\ handed' = NoStation

\* start takes the serial port.  Called again it puts a fresh node behind
\* send_* before it finds that the port is gone, and fails.
Start ==
  /\ mode = "new" \/ StartedTwice
  /\ IF mode = "new" THEN mode' = "running" /\ handle' = "task"
     ELSE handle' = "other" /\ UNCHANGED mode
  /\ Quietly
  /\ UNCHANGED <<node, app, taken, sentNow, entitled>>

\* stop aborts the task and clears the node behind send_*.
Stop ==
  /\ mode' = IF mode = "running" THEN "ended" ELSE mode
  /\ node' = IF handle = "task" THEN Stopped(node) ELSE node
  /\ Quietly
  /\ UNCHANGED <<handle, app, taken, sentNow, entitled>>

\* The serial port fails to read: the task ends, and only the task.
ReadError ==
  /\ mode = "running" /\ mode' = "ended"
  /\ Quietly
  /\ UNCHANGED <<node, handle, app, taken, sentNow, entitled>>

\* send_unicast and send_broadcast.  A queue that is full is an error; a node
\* no task serves takes what it is given.
Send(dst, reply) ==
  /\ accepted + Len(requests) < MaxTraffic
  /\ handle # "none"
  /\ IF handle = "task" /\ CanQueue(node)
     THEN /\ node' = QueueNpdu(node, dst, reply, accepted + 1)
          /\ accepted' = accepted + 1
     ELSE UNCHANGED <<node, accepted>>
  /\ Quietly
  /\ UNCHANGED <<mode, handle, taken, sentNow, requests, answered, entitled>>

\* The application answers a request, in time or not.  It may never do so,
\* if only because the channel on which it gets its requests was full.
AppAnswers(r) ==
  /\ mode = "running"
  /\ r \in DOMAIN requests /\ r \notin answered
  /\ answered' = answered \cup {r}
  /\ Quietly
  /\ UNCHANGED <<node, mode, handle, accepted, taken, sentNow, requests, entitled>>

-----------------------------------------------------------------------------
(* The task.                                                               *)

\* A frame arrives and is handled.  What is for the network layer is handed
\* up unless its channel is full.
ReceiveFrame(f) ==
  LET r == Receive(node, f, Len(requests) + 1)
  IN  /\ mode = "running"
      /\ node' = r.node
      /\ wire' = r.out
      /\ handed' \in (IF HandsUp(node, f) THEN {NoStation, f.src} ELSE {NoStation})
      /\ taken' = taken \o SubSeq(node.queue, 1, Len(node.queue) - Len(r.node.queue))
      /\ sentNow' = (IF TokenForUs(f) THEN 0 ELSE sentNow)
                    + Len(node.queue) - Len(r.node.queue)
      /\ entitled' = (TokenForUs(f) \/ (entitled /\ node.state # "PassToken"))
      /\ IF Request(f)
         THEN /\ accepted + Len(requests) < MaxTraffic
              /\ requests' = Append(requests, f.src)
         ELSE UNCHANGED requests
      /\ UNCHANGED <<mode, handle, accepted, answered>>

\* The timer expires.  A node that hears nothing claims the token.
TimerExpires ==
  LET r == Timeout(node, answered)
  IN  /\ mode = "running"
      /\ node' = r.node
      /\ wire' = r.out /\ handed' = NoStation
      /\ sentNow' = IF r.node.state = "UseToken" THEN 0 ELSE sentNow
      /\ entitled' = (entitled \/ node.state = "NoToken")
      /\ UNCHANGED <<mode, handle, app, taken>>

-----------------------------------------------------------------------------

Next ==
  \/ Start \/ Stop \/ ReadError
  \/ \E dst \in Others \cup {Broadcast}, reply \in Flags : Send(dst, reply)
  \/ \E r \in 1..MaxTraffic : AppAnswers(r)
  \/ \E f \in Frames : ReceiveFrame(f)
  \/ TimerExpires

Spec == Init /\ [][Next]_vars

\* Time passes: the timer of a running task expires.
FairSpec == Spec /\ WF_vars(TimerExpires)

-----------------------------------------------------------------------------
(* Properties.                                                             *)

Entries == [dst : Others \cup {Broadcast}, reply : BOOLEAN, npdu : 1..MaxTraffic]

NodeType ==
  [ts : {ThisStation}, state : States, ns : 0..255, ps : 0..255,
   tokens : 0..TokenCountSize - 1, frames : 0..MaxInfoFrames, polls : 0..MaxPollRetries - 1,
   retries : 0..NRetryToken, queue : Seq(Entries), rx : 0..MaxTraffic,
   asker : Others \cup {NoStation}, expected : Others \cup {NoStation}]

\* The type invariant.
TypeOK ==
  /\ node \in NodeType
  /\ mode \in {"new", "running", "ended"} /\ handle \in {"none", "task", "other"}
  /\ accepted \in 0..MaxTraffic
  /\ taken \in Seq(Entries) /\ sentNow \in Nat
  /\ requests \in Seq(Others)
  /\ answered \subseteq 1..Len(requests)
  /\ handed \in Others \cup {NoStation}
  /\ entitled \in BOOLEAN

\* While the task runs, what was accepted is what the node took followed by
\* what is queued: whatever frames and timeouts interrupt it, nothing is
\* lost, repeated or reordered on its way through the queue.
NoneLostNoneRepeated ==
  mode = "running" /\ handle = "task" =>
    LET all == taken \o node.queue
    IN  Len(all) = accepted /\ \A i \in DOMAIN all : all[i].npdu = i

\* A token, however it was come by, is used for at most max_info_frames.
FrameLimit == sentNow <= MaxInfoFrames

\* The frames a master sends of its own accord.
Initiative(f) ==
  f.type \in {"Token", "PollForMaster", "DataExpectingReply"} \/ f.npdu # 0

\* Once somebody has been heard after the token was passed, the node sends
\* nothing of its own accord until it is given the token or has waited for
\* it in vain: neither a retry nor a burst may disturb the next holder.
OnlyHolderInitiates ==
  [][ (\E i \in DOMAIN wire' : Initiative(wire'[i])) => entitled' ]_vars

\* An answer, and a ReplyPostponed, go to the station whose request came
\* last, and an answer is the answer to that request.
AnswersLastRequest ==
  \A i \in DOMAIN wire :
    wire[i].answers # 0 \/ wire[i].type = "ReplyPostponed" =>
      /\ requests # <<>> /\ wire[i].dst = requests[Len(requests)]
      /\ wire[i].answers \in {0, Len(requests)}

\* While the node waits for a reply, data addressed to it is believed only
\* from the station that it asked last.
OnlyAskedIsBelieved ==
  [][ node.state = "WaitForReply" /\ node'.state = "PassToken" /\ handed' # NoStation
        => handed' = taken[Len(taken)].dst ]_vars

FallsSilent == <>[][\A f \in Frames : ~ReceiveFrame(f)]_vars

\* mod.rs on the state UseToken, "We have the token -- decide whether to send
\* data or pass": a node that has claimed the token for want of others sends
\* what it has.
SoleMasterSends ==
  FallsSilent => []<>(mode # "running" \/ node.queue = <<>>)
=============================================================================
