---------------------------- MODULE HealthProofs ----------------------------
(***************************************************************************)
(* Theorems about Health for any number of requests, any snapshot ttl and  *)
(* any lookup timeout.                                                     *)
(***************************************************************************)
EXTENDS Health, TLAPS

USE SnapshotTtlPositive, LookupLimitNat, MaxTimeNat, NeverIsNoTime

Snapshots == [at : Times, probed : Times, available : BOOLEAN]

\* A snapshot's answer was at most a lookup old when it was stamped, and the
\* clock never leaves a request behind between its answer and its reply.
SnapshotAge == snapshot # NoSnapshot =>
    /\ snapshot.probed <= snapshot.at /\ snapshot.at <= now
    /\ snapshot.at - snapshot.probed <= LookupLimit

RequestTimes == \A r \in Requests :
    /\ pc[r] = "lookup" => probed[r] <= now /\ now - probed[r] <= LookupLimit
    /\ pc[r] = "uptime" => replied[r] = now

StartInPast == startTime # Never => startTime <= now

IInv == TypeOK /\ SnapshotAge /\ RequestTimes /\ StartInPast /\ AnswerAge

\* Times are numbers, and the unset marker is none of them.
LEMMA TimesAreNat == Times \subseteq Nat /\ 0 \in Times /\ Never \notin Times
BY DEF Times

\* A snapshot with a time in it is not the empty one.
LEMMA SnapshotIsOne == NoSnapshot \notin Snapshots
BY TimesAreNat DEF NoSnapshot, Snapshots

\* The process starts without a snapshot and without requests.
LEMMA InitIInv == Init => IInv
<1> SUFFICES ASSUME Init PROVE IInv
  OBVIOUS
<1>1. now \in Times /\ reachable \in BOOLEAN /\ snapshot = NoSnapshot
      /\ startTime \in Times \cup {Never}
  BY TimesAreNat DEF Init
<1>2. /\ pc \in [Requests -> PCs] /\ probed \in [Requests -> Times]
      /\ uptime \in [Requests -> Times] /\ replied \in [Requests -> Times]
  BY TimesAreNat DEF Init, PCs
<1>3. available \in [Requests -> BOOLEAN]
  BY DEF Init
<1>4. SnapshotAge /\ RequestTimes /\ StartInPast /\ AnswerAge
  BY DEF Init, SnapshotAge, RequestTimes, StartInPast, AnswerAge
<1> QED BY <1>1, <1>2, <1>3, <1>4 DEF IInv, TypeOK

\* Every step of a request, of the clock and of the game server keeps the
\* invariant: what bounds an answer's age is when it was probed, not stamped.
LEMMA NextIInv == IInv /\ [Next]_vars => IInv'
<1> SUFFICES ASSUME IInv, [Next]_vars PROVE IInv'
  OBVIOUS
<1> USE TimesAreNat DEF IInv, TypeOK, PCs, Goto, Times
<1>1. ASSUME NEW r \in Requests, Reuse(r) PROVE IInv'
  <2>1. snapshot \in Snapshots /\ now - snapshot.at < SnapshotTtl
    BY <1>1 DEF Reuse, Fresh, Snapshots
  <2>2. snapshot.probed \in Times /\ snapshot.at \in Times /\ snapshot.available \in BOOLEAN
    BY <2>1 DEF Snapshots
  <2>3. TypeOK'
    BY <1>1, <2>2 DEF Reuse
  <2>4. SnapshotAge' /\ StartInPast' /\ RequestTimes'
    BY <1>1 DEF Reuse, SnapshotAge, StartInPast, RequestTimes
  <2>5. now - snapshot.probed < SnapshotTtl + LookupLimit
    BY <1>1, <2>1, <2>2 DEF SnapshotAge, Reuse, Fresh
  <2>6. AnswerAge'
    BY <1>1, <2>2, <2>5 DEF Reuse, AnswerAge
  <2> QED BY <2>3, <2>4, <2>6
<1>2. ASSUME NEW r \in Requests, BeginProbe(r) PROVE IInv'
  BY <1>2 DEF BeginProbe, SnapshotAge, StartInPast, RequestTimes, AnswerAge
<1>3. ASSUME NEW r \in Requests, EndProbe(r) PROVE IInv'
  <2>0. PICK ok \in BOOLEAN : available' = [available EXCEPT ![r] = ok]
    BY <1>3 DEF EndProbe
  <2>1. TypeOK'
    BY <1>3, <2>0 DEF EndProbe
  <2>2. SnapshotAge' /\ StartInPast' /\ RequestTimes' /\ AnswerAge'
    BY <1>3 DEF EndProbe, SnapshotAge, StartInPast, RequestTimes, AnswerAge
  <2> QED BY <2>1, <2>2
<1>4. ASSUME NEW r \in Requests, WriteSnapshot(r) PROVE IInv'
  <2>1. snapshot' = [at |-> now, probed |-> probed[r], available |-> available[r]]
    BY <1>4 DEF WriteSnapshot, Stamp
  <2>2. snapshot' \in Snapshots
    BY <2>1 DEF Snapshots
  <2>3. TypeOK'
    BY <1>4, <2>2 DEF WriteSnapshot, Snapshots
  <2>4. SnapshotAge'
    BY <1>4, <2>1 DEF WriteSnapshot, SnapshotAge, RequestTimes
  <2>5. StartInPast' /\ RequestTimes' /\ AnswerAge'
    BY <1>4 DEF WriteSnapshot, StartInPast, RequestTimes, AnswerAge
  <2> QED BY <2>3, <2>4, <2>5
<1>5. ASSUME NEW r \in Requests, ReportUptime(r) PROVE IInv'
  <2>1. PICK started \in Times : /\ started <= now
                                 /\ startTime' = started
                                 /\ uptime' = [uptime EXCEPT ![r] = now - started]
    <3>1. CASE startTime = Never
      <4>1. startTime' = now /\ uptime' = [uptime EXCEPT ![r] = now - now]
        BY <1>5, <3>1 DEF ReportUptime
      <4>2. now \in Times /\ now <= now
        OBVIOUS
      <4> QED BY <4>1, <4>2
    <3>2. CASE startTime # Never
      BY <1>5, <3>2 DEF ReportUptime, StartInPast
    <3> QED BY <3>1, <3>2
  <2>2. now - started \in Times
    BY <2>1 DEF Times
  <2>3. TypeOK'
    BY <1>5, <2>1, <2>2 DEF ReportUptime
  <2>4. SnapshotAge' /\ StartInPast' /\ RequestTimes' /\ AnswerAge'
    BY <1>5, <2>1 DEF ReportUptime, SnapshotAge, StartInPast, RequestTimes, AnswerAge
  <2> QED BY <2>3, <2>4
<1>6. ASSUME NEW r \in Requests, Done(r) \/ Disconnect(r) PROVE IInv'
  <2>0. Reset(r) /\ available' \in [Requests -> BOOLEAN]
    BY <1>6 DEF Done, Disconnect, Reset
  <2>1. TypeOK'
    BY <2>0 DEF Reset
  <2>2. SnapshotAge' /\ StartInPast' /\ RequestTimes' /\ AnswerAge'
    BY <1>6 DEF Done, Disconnect, Reset, SnapshotAge, StartInPast, RequestTimes, AnswerAge
  <2> QED BY <2>1, <2>2
<1>7. CASE Tick
  <2>1. now' = now + 1 /\ now' \in Times
    BY <1>7 DEF Tick, Times
  <2>2. TypeOK'
    BY <1>7, <2>1 DEF Tick
  <2>3. SnapshotAge'
    <3>1. CASE snapshot = NoSnapshot
      BY <1>7, <3>1 DEF Tick, SnapshotAge
    <3>2. CASE snapshot \in Snapshots
      BY <1>7, <2>1, <3>2 DEF Tick, SnapshotAge, Snapshots
    <3> QED BY <3>1, <3>2 DEF Snapshots
  <2>4. StartInPast' /\ RequestTimes' /\ AnswerAge'
    BY <1>7, <2>1 DEF Tick, StartInPast, RequestTimes, AnswerAge
  <2> QED BY <2>2, <2>3, <2>4
<1>8. CASE Toggle
  BY <1>8 DEF Toggle, SnapshotAge, StartInPast, RequestTimes, AnswerAge
<1>9. CASE UNCHANGED vars
  BY <1>9 DEF vars, SnapshotAge, StartInPast, RequestTimes, AnswerAge
<1> QED BY <1>1, <1>2, <1>3, <1>4, <1>5, <1>6, <1>7, <1>8, <1>9 DEF Next

\* The inductive invariant holds in every reachable state.
LEMMA Invariance == Spec => []IInv
BY InitIInv, NextIInv, PTL DEF Spec

\* The snapshot, the clock and every request's locals keep their types: an
\* uptime is never negative.
THEOREM TypeCorrect == Spec => []TypeOK
<1>1. IInv => TypeOK
  BY DEF IInv
<1> QED BY <1>1, Invariance, PTL

\* No health answer is older than the snapshot ttl plus a lookup's timeout.
THEOREM AnswersAreRecent == Spec => []AnswerAge
<1>1. IInv => AnswerAge
  BY DEF IInv
<1> QED BY <1>1, Invariance, PTL
=============================================================================
