---------------------------- MODULE ProcessProofs ----------------------------
(***************************************************************************)
(* Process.tla for every set of clients and of layers of settings: the     *)
(* types, and that only a complete configuration is served.                *)
(***************************************************************************)
EXTENDS Process, TLAPS

\* What from_env accepts is complete: config.rs 130-185.
LEMMA AcceptedIsComplete ==
  ASSUME Disabled \/ ~Invalid
  PROVE  Complete(FromEnv.server)
<1>1. FromEnv.server = Server
  BY DEF FromEnv
<1>2. CASE Disabled
  BY <1>1, <1>2 DEF Server, Complete
<1>3. CASE ~Disabled
  <2>1. Text("base", "") # "" /\ \A s \in Credential : Text(s, "") # ""
    BY <1>3 DEF Disabled, Invalid
  <2>2. Text("key", "") = "good" /\ Text("iv", "") = "good"
    BY <1>3 DEF Invalid
  <2>3. to_base_url(Text("base", "")).slash /\ to_base_url(Text("base", "")).url # ""
    BY <2>1 DEF to_base_url
  <2>4. Server = [base |-> to_base_url(Text("base", "")), uid |-> Text("uid", ""),
                  uuid |-> Text("uuid", ""), key |-> Text("key", ""), iv |-> Text("iv", "")]
    BY <1>3 DEF Server
  <2>5. Text("uid", "") # "" /\ Text("uuid", "") # ""
    BY <2>1 DEF Credential
  <2>6. Server.base = to_base_url(Text("base", "")) /\ Server.uid = Text("uid", "")
        /\ Server.uuid = Text("uuid", "") /\ Server.key = Text("key", "") /\ Server.iv = Text("iv", "")
    BY <2>4
  <2> QED BY <1>1, <2>2, <2>3, <2>5, <2>6 DEF Complete
<1> QED BY <1>2, <1>3

LEMMA InitHolds == Init => IInv
<1> SUFFICES ASSUME Init PROVE IInv
  OBVIOUS
<1>1. TypeOK
  BY ProcessAssumption DEF Init, TypeOK, Free, ProcessAssumption
<1>2. ConfigIsComplete /\ ServesOnlyComplete
  BY DEF Init, ConfigIsComplete, ServesOnlyComplete
<1>3. PendingHasProcess
  BY DEF Init, PendingHasProcess, Free
<1> QED BY <1>1, <1>2, <1>3 DEF IInv

LEMMA StepKeepsIInv == IInv /\ [Next]_vars => IInv'
<1> SUFFICES ASSUME IInv, [Next]_vars PROVE IInv'
  OBVIOUS
<1> USE DEF IInv
<1>1. CASE Configure
  <2>1. TypeOK'
    BY <1>1 DEF Configure, TypeOK
  <2>2. ConfigIsComplete'
    <3>1. config' = FromEnv /\ (Disabled \/ ~Invalid)
      BY <1>1 DEF Configure
    <3> QED BY <3>1, AcceptedIsComplete DEF ConfigIsComplete, Complete, NoServer
  <2>3. ServesOnlyComplete' /\ PendingHasProcess'
    BY <1>1 DEF Configure, ServesOnlyComplete, PendingHasProcess
  <2> QED BY <2>1, <2>2, <2>3
<1>2. CASE Serve
  <2>1. TypeOK' /\ ConfigIsComplete' /\ PendingHasProcess'
    BY <1>2 DEF Serve, TypeOK, ConfigIsComplete, PendingHasProcess, Complete, NoServer
  <2>2. ServesOnlyComplete'
    BY <1>2 DEF Serve, ConfigIsComplete, ServesOnlyComplete, Complete, NoServer
  <2> QED BY <2>1, <2>2
<1>3. CASE StartPanics
  BY <1>3 DEF StartPanics, TypeOK, ConfigIsComplete, ServesOnlyComplete, PendingHasProcess
<1>4. ASSUME NEW c \in Client, Accept(c) PROVE IInv'
  <2>1. TypeOK'
    BY <1>4 DEF Accept, TypeOK
  <2>2. ConfigIsComplete' /\ ServesOnlyComplete'
    BY <1>4 DEF Accept, ConfigIsComplete, ServesOnlyComplete, Complete, NoServer
  <2>3. PendingHasProcess'
    BY <1>4 DEF Accept, PendingHasProcess
  <2> QED BY <2>1, <2>2, <2>3
<1>5. ASSUME NEW c \in Client, Answer(c) PROVE IInv'
  <2>1. TypeOK'
    BY <1>5 DEF Answer, TypeOK
  <2>2. ConfigIsComplete' /\ ServesOnlyComplete'
    BY <1>5 DEF Answer, ConfigIsComplete, ServesOnlyComplete, Complete, NoServer
  <2>3. PendingHasProcess'
    BY <1>5 DEF Answer, PendingHasProcess, TypeOK
  <2> QED BY <2>1, <2>2, <2>3
<1>6. CASE Signal
  BY <1>6 DEF Signal, TypeOK, ConfigIsComplete, ServesOnlyComplete, PendingHasProcess, Complete, NoServer
<1>7. CASE Drained
  BY <1>7 DEF Drained, TypeOK, ConfigIsComplete, ServesOnlyComplete, PendingHasProcess
<1>8. CASE Crash
  <2>1. TypeOK'
    BY <1>8, ProcessAssumption DEF Crash, TypeOK, Dropped, ProcessAssumption
  <2>2. ConfigIsComplete' /\ ServesOnlyComplete'
    BY <1>8 DEF Crash, ConfigIsComplete, ServesOnlyComplete
  <2>3. PendingHasProcess'
    BY <1>8 DEF Crash, Dropped, PendingHasProcess
  <2> QED BY <2>1, <2>2, <2>3
<1>9. CASE Stop
  BY <1>9 DEF Stop, TypeOK, ConfigIsComplete, ServesOnlyComplete, PendingHasProcess, Complete, NoServer
<1>10. CASE StartAgain
  BY <1>10 DEF StartAgain, TypeOK, ConfigIsComplete, ServesOnlyComplete, PendingHasProcess, Complete, NoServer
<1>11. ASSUME NEW i \in 1 .. 3, NEW layer \in Layers, Edit(i, layer) PROVE IInv'
  <2>1. TypeOK'
    BY <1>11, ProcessAssumption DEF Edit, TypeOK, ProcessAssumption
  <2>2. ConfigIsComplete' /\ ServesOnlyComplete' /\ PendingHasProcess'
    BY <1>11 DEF Edit, ConfigIsComplete, ServesOnlyComplete, PendingHasProcess, Complete, NoServer
  <2> QED BY <2>1, <2>2
<1>12. CASE ConfigurationError \/ UNCHANGED vars
  BY <1>12 DEF ConfigurationError, vars, TypeOK, ConfigIsComplete, ServesOnlyComplete,
               PendingHasProcess, Complete, NoServer
<1> QED
  BY <1>1, <1>2, <1>3, <1>4, <1>5, <1>6, <1>7, <1>8, <1>9, <1>10, <1>11, <1>12 DEF Next

\* The inductive invariant: what a process that is up has read, and who waits.
THEOREM SpecIInv == Spec => []IInv
<1> QED BY InitHolds, StepKeepsIInv, PTL DEF Spec

\* The variables keep their types.
THEOREM SpecTypeOK == Spec => []TypeOK
<1>1. IInv => TypeOK
  BY DEF IInv
<1> QED BY <1>1, SpecIInv, PTL

\* Whatever the layers hold and however they are edited between and during the
\* lives of the process, what serves has a complete game server or none.
THEOREM SpecServesOnlyComplete == Spec => []ServesOnlyComplete
<1>1. IInv => ServesOnlyComplete
  BY DEF IInv
<1> QED BY <1>1, SpecIInv, PTL

\* A request that was accepted and is not answered waits for a process that is
\* up: a shutdown leaves none behind (main.rs 59-62).
THEOREM SpecPendingHasProcess == Spec => []PendingHasProcess
<1>1. IInv => PendingHasProcess
  BY DEF IInv
<1> QED BY <1>1, SpecIInv, PTL

=============================================================================
