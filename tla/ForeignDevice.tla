---------------------------- MODULE ForeignDevice ----------------------------
(***************************************************************************)
(* One foreign device and its entry in the table of its BBMD, in time: the *)
(* registration task of bip/mod.rs sends at a fixed interval, the BBMD     *)
(* (bbmd.rs) forgets an entry when its time to live and a grace period are *)
(* over.  Nobody looks at the answers, so what keeps the device registered *)
(* is only that the interval fits the expiry, and module BipNetwork may    *)
(* let an entry expire at any time.                                        *)
(*                                                                         *)
(* Time advances in seconds and does not pass the moment at which the task *)
(* must send or a datagram must have arrived or be lost.  A datagram takes *)
(* less than the interval, so one is in flight at most.  The table of the  *)
(* BBMD has room.                                                          *)
(***************************************************************************)
EXTENDS Naturals

CONSTANTS
  Ttl,          \* ForeignDeviceConfig.ttl
  Grace,        \* GRACE_PERIOD
  MinInterval,  \* the 30 seconds of start
  MaxDelay      \* how long a datagram may take

\* Faulty: a registration for each time to live.
WholeLife == IF Ttl > MinInterval THEN Ttl ELSE MinInterval

\* The interval of the registration task.
Interval == IF Ttl \div 2 > MinInterval THEN Ttl \div 2 ELSE MinInterval

\* Two intervals and a delay fit into the life of an entry.
ASSUME DeviceAssumption ==
  /\ Ttl \in Nat /\ Grace \in Nat /\ MinInterval \in Nat \ {0} /\ MaxDelay \in Nat
  /\ MaxDelay <= Grace /\ MaxDelay < MinInterval
  /\ MinInterval + MinInterval + MaxDelay <= Ttl + Grace

VARIABLES
  entry,      \* the BBMD has an entry for the device
  age,        \* seconds since it was refreshed or, if there is none, since the
              \* start of the BBMD or of the task, whichever came last
  sinceSent,  \* seconds since the task sent a registration
  inFlight,   \* that registration has neither arrived nor been lost
  lost        \* history: the registrations lost since one arrived

vars == <<entry, age, sinceSent, inFlight, lost>>

\* The task sends as it starts.
Init ==
  /\ entry = FALSE /\ age = 0
  /\ sinceSent = 0 /\ inFlight = TRUE
  /\ lost = 0

\* is_expired: what purge_expired, which comes before every use of the table,
\* takes away.  NeverExpires says that it finds nothing, so it is no action.
Expired == age > Ttl + Grace

\* Faulty: the ticker comes late.
TickLate ==
  /\ sinceSent <= Interval
  /\ inFlight => sinceSent < MaxDelay
  /\ age' = age + 1 /\ sinceSent' = sinceSent + 1
  /\ UNCHANGED <<entry, inFlight, lost>>

Tick ==
  /\ sinceSent < Interval
  /\ inFlight => sinceSent < MaxDelay
  /\ age' = age + 1 /\ sinceSent' = sinceSent + 1
  /\ UNCHANGED <<entry, inFlight, lost>>

Send ==
  /\ sinceSent = Interval
  /\ sinceSent' = 0 /\ inFlight' = TRUE
  /\ UNCHANGED <<entry, age, lost>>

\* Faulty: an entry that is there keeps its time.
ArriveUnrefreshed ==
  /\ inFlight
  /\ entry' = TRUE
  /\ age' = IF entry THEN age ELSE 0
  /\ inFlight' = FALSE
  /\ lost' = 0
  /\ UNCHANGED sinceSent

\* register_foreign_device.
Arrive ==
  /\ inFlight
  /\ entry' = TRUE /\ age' = 0
  /\ inFlight' = FALSE
  /\ lost' = 0
  /\ UNCHANGED sinceSent

\* No two registrations in a row are lost.
Lose ==
  /\ inFlight /\ lost = 0
  /\ inFlight' = FALSE
  /\ lost' = 1
  /\ UNCHANGED <<entry, age, sinceSent>>

\* The BBMD restarts; its table is not on disk.
Restart ==
  /\ entry' = FALSE /\ age' = 0
  /\ UNCHANGED <<sinceSent, inFlight, lost>>

Next == Tick \/ Send \/ Arrive \/ Lose \/ Restart

Spec == Init /\ [][Next]_vars

-----------------------------------------------------------------------------
(* Properties.                                                             *)

\* The type invariant.
TypeOK ==
  /\ entry \in BOOLEAN /\ age \in Nat
  /\ sinceSent \in 0..Interval /\ inFlight \in BOOLEAN
  /\ lost \in {0, 1}

\* A device that goes on registering keeps its entry, although one
\* registration of every two is lost: the entry does not expire, so only a
\* restart of the BBMD takes it away.
NeverExpires == entry => ~Expired

\* After a restart of the BBMD, or its own, the device is registered again
\* within the life of an entry, again although a registration may be lost.
BackInTime == ~entry => ~Expired
=============================================================================
