------------------------- MODULE ForeignDeviceProofs -------------------------
(***************************************************************************)
(* Proofs about module ForeignDevice, for every time to live, grace period,*)
(* minimal interval and delay that DeviceAssumption allows: the entry of a *)
(* device that goes on registering does not expire, and one that was lost  *)
(* with its BBMD comes back in time.                                       *)
(*                                                                         *)
(* The strengthening bounds the age of the entry by the registrations that *)
(* were sent and have not arrived.                                         *)
(***************************************************************************)
EXTENDS ForeignDevice, TLAPS

\* The age of the entry is at most what has passed since the task sent the
\* registration that arrived last: the seconds since it sent the newest one,
\* and an interval for each one after it that is lost or in flight.
AgeInv ==
  /\ inFlight => sinceSent <= MaxDelay
  /\ lost = 0 /\ ~inFlight => age <= sinceSent
  /\ lost = 0 /\ inFlight => age <= Interval + sinceSent
  /\ lost = 1 /\ ~inFlight => age <= Interval + sinceSent
  /\ lost = 1 /\ inFlight => age <= Interval + Interval + sinceSent

IInv == TypeOK /\ AgeInv

-----------------------------------------------------------------------------

\* What the proofs use of the interval: a datagram is through before the
\* next is sent, and two intervals and a delay fit into a life.
LEMMA IntervalFits ==
  /\ Interval \in Nat /\ MaxDelay \in Nat /\ Ttl + Grace \in Nat
  /\ MaxDelay < Interval
  /\ Interval + Interval + MaxDelay <= Ttl + Grace
<1>1. /\ Ttl \div 2 \in Nat
      /\ Ttl \div 2 + Ttl \div 2 <= Ttl
  BY DeviceAssumption
<1>2. CASE Ttl \div 2 > MinInterval
  BY <1>1, <1>2, DeviceAssumption DEF Interval
<1>3. CASE ~(Ttl \div 2 > MinInterval)
  BY <1>1, <1>3, DeviceAssumption DEF Interval
<1> QED BY <1>2, <1>3

\* The task has just sent its first registration.
LEMMA InitInv == Init => IInv
<1> SUFFICES ASSUME Init PROVE IInv
  OBVIOUS
<1>1. entry \in BOOLEAN /\ inFlight \in BOOLEAN
  BY Zenon DEF Init
<1>2. age \in Nat /\ sinceSent \in 0..Interval /\ lost \in {0, 1} /\ AgeInv
  BY IntervalFits DEF Init, AgeInv
<1> QED BY <1>1, <1>2 DEF IInv, TypeOK

\* Every step keeps the bounds.
LEMMA NextInv == IInv /\ [Next]_vars => IInv'
<1> SUFFICES ASSUME IInv, [Next]_vars PROVE IInv'
  OBVIOUS
<1>1. entry' \in BOOLEAN /\ inFlight' \in BOOLEAN
  BY Zenon DEF IInv, TypeOK, Next, Tick, Send, Arrive, Lose, Restart, vars
<1>2. age' \in Nat /\ sinceSent' \in 0..Interval /\ lost' \in {0, 1} /\ AgeInv'
  <2> USE IntervalFits DEF IInv, TypeOK, AgeInv
  <2>1. CASE Tick
    BY <2>1 DEF Tick
  <2>2. CASE Send
    <3>1. ~inFlight
      BY <2>2 DEF Send
    <3> QED BY <2>2, <3>1 DEF Send
  <2>3. CASE Arrive
    BY <2>3 DEF Arrive
  <2>4. CASE Lose
    BY <2>4 DEF Lose
  <2>5. CASE Restart
    BY <2>5 DEF Restart
  <2>6. CASE UNCHANGED vars
    BY <2>6 DEF vars
  <2> QED BY <2>1, <2>2, <2>3, <2>4, <2>5, <2>6 DEF Next
<1> QED BY <1>1, <1>2 DEF IInv, TypeOK

-----------------------------------------------------------------------------

\* In every reachable state the variables have their types and the age of an
\* entry is bounded by what was sent since.
THEOREM Inductive == Spec => []IInv
<1> QED BY InitInv, NextInv, PTL DEF Spec

\* The type invariant.
THEOREM TypeCorrect == Spec => []TypeOK
<1>1. IInv => TypeOK
  BY DEF IInv
<1> QED BY <1>1, Inductive, PTL

\* A bound on the age that does not know of registrations.
LEMMA NotTooOld == IInv => age <= Ttl + Grace
<1> SUFFICES ASSUME IInv PROVE age <= Ttl + Grace
  OBVIOUS
<1>1. CASE inFlight
  BY <1>1, IntervalFits DEF IInv, TypeOK, AgeInv
<1>2. CASE ~inFlight
  BY <1>2, IntervalFits DEF IInv, TypeOK, AgeInv
<1> QED BY <1>1, <1>2

\* The entry of a device that goes on registering does not expire, though
\* one registration of every two be lost (start and is_expired).
THEOREM NeverExpiresCorrect == Spec => []NeverExpires
<1>1. IInv => NeverExpires
  BY NotTooOld, IntervalFits DEF NeverExpires, Expired, IInv, TypeOK
<1> QED BY <1>1, Inductive, PTL

\* After a restart the device is registered again within the life of an
\* entry.
THEOREM BackInTimeCorrect == Spec => []BackInTime
<1>1. IInv => BackInTime
  BY NotTooOld, IntervalFits DEF BackInTime, Expired, IInv, TypeOK
<1> QED BY <1>1, Inductive, PTL
=============================================================================
