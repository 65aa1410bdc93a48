--------------------------- MODULE CoalescerProofs ---------------------------
(***************************************************************************)
(* Theorems about Coalescer for any callers, keys, cells and outcomes.     *)
(* Everything rests on IInv: an unset cell is in its key's slot for as     *)
(* long as anyone holds it, a set one only until a holder takes it out.    *)
(***************************************************************************)
EXTENDS Coalescer, FiniteSetTheorems, TLAPS

USE NoKeyIsNoKey, NoCellIsNoCell, NoOutcomeIsNoOutcome

\* The reference count of a guard's own cell is 2 exactly when the slot and
\* this guard are all that refers to it: what FlightGuard::drop counts is
\* whether anybody else is in the flight.
LEMMA CountIsTwo ==
    ASSUME IInv, NEW c \in Callers, pc[c] # "idle", inflight[key[c]] = guard[c]
    PROVE  StrongCount(guard[c]) = 2 <=> Holders(guard[c]) = {c}
<1> DEFINE x == guard[c]
<1>1. x \in Cells /\ key[c] \in Keys /\ x # NoCell
  BY DEF IInv, CallShape
<1>2. SlotsOf(x) = {key[c]}
  BY <1>1 DEF IInv, OneKeyPerCell, SlotsOf
<1>3. Cardinality(SlotsOf(x)) = 1
  BY <1>2, FS_Singleton
<1>4. IsFiniteSet(Holders(x)) /\ c \in Holders(x)
  BY CallersFinite, FS_Subset DEF Holders
<1>5. Cardinality(Holders(x)) \in Nat
  BY <1>4, FS_CardinalityType
<1>6. StrongCount(x) = 2 <=> Cardinality(Holders(x)) = 1
  BY <1>3, <1>5 DEF StrongCount
<1>7. Cardinality(Holders(x)) = 1 <=> \E y : Holders(x) = {y}
  BY <1>4, FS_Singleton
<1>8. (\E y : Holders(x) = {y}) <=> Holders(x) = {c}
  BY <1>4
<1> QED BY <1>6, <1>7, <1>8

\* The initial state satisfies the inductive invariant.
LEMMA InitIInv == Init => IInv
BY DEF Init, IInv, TypeOK, PCs, CallShape, OneKeyPerCell, UnsetCellInSlot, OutcomeShape,
       OnePermit, NoLeakedSlot, SetCellLeavesSlot, ReturnedFlightsClosed

\* Joining the flight in the slot, or opening one in a cell nothing refers to.
LEMMA JoinIInv ==
    ASSUME IInv, NEW c \in Callers, NEW k \in Keys, Join(c, k)
    PROVE  IInv'
<1> USE DEF IInv, TypeOK, PCs
<1>1. CASE JoinFlight(c, k)
  <2> USE <1>1 DEF Join, JoinFlight
  <2>1. TypeOK'
    OBVIOUS
  <2>2. CallShape'
    BY DEF CallShape
  <2>3. OneKeyPerCell'
    BY DEF OneKeyPerCell, CallShape, NoLeakedSlot
  <2>4. UnsetCellInSlot'
    BY DEF UnsetCellInSlot
  <2>5. OutcomeShape' /\ OnePermit'
    BY DEF OutcomeShape, OnePermit
  <2>6. NoLeakedSlot'
    BY DEF NoLeakedSlot, CallShape
  <2>7. SetCellLeavesSlot'
    BY DEF SetCellLeavesSlot
  <2>8. ReturnedFlightsClosed'
    BY DEF ReturnedFlightsClosed
  <2> QED BY <2>1, <2>2, <2>3, <2>4, <2>5, <2>6, <2>7, <2>8
<1>2. CASE OpenFlight(c, k)
  <2> PICK x \in Cells : /\ Unused(x)
                         /\ inflight' = [inflight EXCEPT ![k] = x]
                         /\ outcome' = [outcome EXCEPT ![x] = NoOutcome]
                         /\ guard' = [guard EXCEPT ![c] = x]
                         /\ answered' = answered \ {x}
    BY <1>2 DEF OpenFlight
  <2>0. /\ \A d \in Callers : guard[d] # x
        /\ \A j \in Keys : inflight[j] # x
        /\ inflight[k] = NoCell /\ x # NoCell
    BY <1>2 DEF Unused, Holders, SlotsOf, OpenFlight
  <2> USE <2>0 DEF Join
  <2>1. TypeOK'
    OBVIOUS
  <2>2. CallShape'
    BY DEF CallShape
  <2>3. OneKeyPerCell'
    BY DEF OneKeyPerCell, CallShape
  <2>4. UnsetCellInSlot'
    BY DEF UnsetCellInSlot, CallShape
  <2>5. OutcomeShape' /\ OnePermit'
    BY DEF OutcomeShape, OnePermit, CallShape
  <2>6. NoLeakedSlot'
    BY DEF NoLeakedSlot, CallShape
  <2>7. SetCellLeavesSlot'
    BY DEF SetCellLeavesSlot
  <2>8. ReturnedFlightsClosed'
    BY DEF ReturnedFlightsClosed, CallShape
  <2> QED BY <2>1, <2>2, <2>3, <2>4, <2>5, <2>6, <2>7, <2>8
<1> QED BY <1>1, <1>2 DEF Join

\* The steps of get_or_init, and being cancelled in it: only pc and the cell
\* move.
LEMMA CellStepIInv ==
    ASSUME IInv, NEW c \in Callers, 
           \/ Acquire(c) \/ Follow(c) \/ Cancel(c)
           \/ \E o \in Outcomes : Resolve(c, o)
    PROVE  IInv'
<1> USE DEF IInv, TypeOK, PCs, CallShape
<1>1. CASE Acquire(c)
  <2> USE <1>1 DEF Acquire
  <2>1. TypeOK' /\ CallShape' /\ OneKeyPerCell' /\ UnsetCellInSlot' /\ OutcomeShape'
    BY DEF OneKeyPerCell, UnsetCellInSlot, OutcomeShape
  <2>2. OnePermit'
    BY DEF OnePermit, PermitFree, Holders
  <2>3. NoLeakedSlot' /\ SetCellLeavesSlot' /\ ReturnedFlightsClosed'
    BY DEF NoLeakedSlot, SetCellLeavesSlot, ReturnedFlightsClosed
  <2> QED BY <2>1, <2>2, <2>3
<1>2. CASE Follow(c)
  <2> USE <1>2 DEF Follow
  <2>1. TypeOK' /\ CallShape' /\ OneKeyPerCell' /\ UnsetCellInSlot' /\ OutcomeShape'
    BY DEF OneKeyPerCell, UnsetCellInSlot, OutcomeShape
  <2>2. OnePermit' /\ NoLeakedSlot' /\ SetCellLeavesSlot' /\ ReturnedFlightsClosed'
    BY DEF OnePermit, NoLeakedSlot, SetCellLeavesSlot, ReturnedFlightsClosed
  <2> QED BY <2>1, <2>2
<1>3. CASE Cancel(c)
  <2> USE <1>3 DEF Cancel
  <2>1. TypeOK' /\ CallShape' /\ OneKeyPerCell' /\ UnsetCellInSlot' /\ OutcomeShape'
    BY DEF OneKeyPerCell, UnsetCellInSlot, OutcomeShape
  <2>2. OnePermit' /\ NoLeakedSlot' /\ SetCellLeavesSlot' /\ ReturnedFlightsClosed'
    BY DEF OnePermit, NoLeakedSlot, SetCellLeavesSlot, ReturnedFlightsClosed
  <2> QED BY <2>1, <2>2
<1>4. ASSUME NEW o \in Outcomes, Resolve(c, o) PROVE IInv'
  <2> USE <1>4 DEF Resolve
  <2>1. TypeOK' /\ CallShape' /\ OneKeyPerCell'
    BY DEF OneKeyPerCell
  <2>2. UnsetCellInSlot' /\ NoLeakedSlot' /\ ReturnedFlightsClosed'
    BY DEF UnsetCellInSlot, NoLeakedSlot, ReturnedFlightsClosed
  <2>3. OutcomeShape' /\ OnePermit'
    BY DEF OutcomeShape, OnePermit
  <2>4. SetCellLeavesSlot'
    BY DEF SetCellLeavesSlot
  <2> QED BY <2>1, <2>2, <2>3, <2>4
<1> QED BY <1>1, <1>2, <1>3, <1>4

\* Taking the slot away, after ptr_eq said it is this flight's.
LEMMA RemoveSlotIInv ==
    ASSUME IInv, NEW c \in Callers, RemoveSlot(c)
    PROVE  IInv'
<1> USE DEF IInv, TypeOK, PCs, CallShape, RemoveSlot, OwnsSlot
<1>1. TypeOK' /\ CallShape'
  OBVIOUS
<1>2. OneKeyPerCell'
  BY DEF OneKeyPerCell
<1>3. UnsetCellInSlot'
  BY DEF UnsetCellInSlot, OutcomeShape
<1>4. OutcomeShape' /\ OnePermit'
  BY DEF OutcomeShape, OnePermit
<1>5. NoLeakedSlot'
  BY DEF NoLeakedSlot
<1>6. SetCellLeavesSlot'
  BY DEF SetCellLeavesSlot, OneKeyPerCell
<1>7. ReturnedFlightsClosed'
  BY DEF ReturnedFlightsClosed
<1> QED BY <1>1, <1>2, <1>3, <1>4, <1>5, <1>6, <1>7

\* The guard goes last, and the slot with it if nobody else is in the flight.
LEMMA DropGuardIInv ==
    ASSUME IInv, NEW c \in Callers, Return(c) \/ Release(c)
    PROVE  IInv'
<1> USE DEF IInv, TypeOK, PCs
<1> DEFINE x == guard[c]
<1>0. pc[c] \in {"leaving", "cancelled"} /\ DropGuard(c) /\ outcome' = outcome
  BY DEF Return, Release
<1>1. x \in Cells /\ key[c] \in Keys /\ x # NoCell
  BY <1>0 DEF CallShape
<1>2. \/ /\ inflight[key[c]] = x /\ Holders(x) = {c}
         /\ inflight' = [inflight EXCEPT ![key[c]] = NoCell]
      \/ /\ ~(inflight[key[c]] = x /\ Holders(x) = {c})
         /\ inflight' = inflight
  BY <1>0, CountIsTwo DEF DropGuard, LastOfFlight
<1>3. /\ guard' = [guard EXCEPT ![c] = NoCell]
      /\ key' = [key EXCEPT ![c] = NoKey]
      /\ pc' = [pc EXCEPT ![c] = "idle"]
  BY <1>0 DEF DropGuard
<1>4. TypeOK'
  BY <1>0, <1>1, <1>2, <1>3 DEF Return, Release
<1>5. CallShape'
  BY <1>3 DEF CallShape
<1>6. OneKeyPerCell'
  BY <1>2, <1>3 DEF OneKeyPerCell
<1>7. UnsetCellInSlot'
  BY <1>0, <1>1, <1>2, <1>3 DEF UnsetCellInSlot, CallShape, OneKeyPerCell, Holders
<1>8. OutcomeShape' /\ OnePermit'
  BY <1>0, <1>3 DEF OutcomeShape, OnePermit
<1>9. NoLeakedSlot'
  BY <1>1, <1>2, <1>3 DEF NoLeakedSlot, Holders, OneKeyPerCell
<1>10. SetCellLeavesSlot'
  BY <1>0, <1>1, <1>2, <1>3 DEF SetCellLeavesSlot
<1>11. ReturnedFlightsClosed'
  <2>1. CASE Return(c)
    BY <2>1, <1>0, <1>1, <1>2, <1>3 DEF ReturnedFlightsClosed, Return, CallShape, OneKeyPerCell
  <2>2. CASE Release(c)
    BY <2>2, <1>0, <1>1, <1>2, <1>3 DEF ReturnedFlightsClosed, Release, CallShape
  <2> QED BY <2>1, <2>2
<1> QED BY <1>4, <1>5, <1>6, <1>7, <1>8, <1>9, <1>10, <1>11

\* Every step keeps the inductive invariant.
LEMMA NextIInv == IInv /\ [Next]_vars => IInv'
<1> SUFFICES ASSUME IInv, [Next]_vars PROVE IInv'
  OBVIOUS
<1>1. ASSUME NEW c \in Callers, NEW k \in Keys, Join(c, k) PROVE IInv'
  BY <1>1, JoinIInv
<1>2. ASSUME NEW c \in Callers,
             \/ Acquire(c) \/ Follow(c) \/ Cancel(c)
             \/ \E o \in Outcomes : Resolve(c, o)
      PROVE  IInv'
  BY <1>2, CellStepIInv
<1>3. ASSUME NEW c \in Callers, RemoveSlot(c) PROVE IInv'
  BY <1>3, RemoveSlotIInv
<1>4. ASSUME NEW c \in Callers, Return(c) \/ Release(c) PROVE IInv'
  BY <1>4, DropGuardIInv
<1>5. CASE UNCHANGED vars
  BY <1>5 DEF vars, IInv, TypeOK, CallShape, OneKeyPerCell, UnsetCellInSlot, OutcomeShape,
              OnePermit, NoLeakedSlot, SetCellLeavesSlot, ReturnedFlightsClosed
<1> QED BY <1>1, <1>2, <1>3, <1>4, <1>5 DEF Next

\* The inductive invariant holds in every reachable state of the coalescer.
THEOREM Invariance == Spec => []IInv
BY InitIInv, NextIInv, PTL DEF Spec

\* Every variable keeps its type: guards, slots and cells never dangle.
THEOREM TypeCorrect == Spec => []TypeOK
<1>1. IInv => TypeOK
  BY DEF IInv
<1> QED BY <1>1, Invariance, PTL

\* Coalescer::run never has two fetches of one key running, for any number of
\* callers and any pattern of cancellations.
THEOREM SingleFetch == Spec => []OneFetchPerKey
<1>1. IInv => OneFetchPerKey
  BY DEF IInv, OneFetchPerKey, UnsetCellInSlot, OutcomeShape, OnePermit
<1> QED BY <1>1, Invariance, PTL

\* Nobody waits in a flight newcomers cannot find.
THEOREM NoOrphans == Spec => []NoOrphanFlight
<1>1. IInv => NoOrphanFlight
  BY DEF IInv, NoOrphanFlight, UnsetCellInSlot
<1> QED BY <1>1, Invariance, PTL

\* The in-flight map never keeps a slot nobody is responsible for.
THEOREM NoLeaks == Spec => []NoLeakedSlot
<1>1. IInv => NoLeakedSlot
  BY DEF IInv
<1> QED BY <1>1, Invariance, PTL

\* Once a caller has returned with a flight's outcome nobody joins the flight.
THEOREM FreshFlights == Spec => NoLateJoin
<1>1. ASSUME IInv, [Next]_vars, NEW c \in Callers, pc[c] = "idle", pc'[c] = "waiting"
      PROVE  guard'[c] \notin answered'
  <2>0. PICK d \in Callers :
          \/ \E k \in Keys : Join(d, k)
          \/ /\ pc[d] # "idle"
             /\ \E s \in PCs : s # "waiting" /\ pc' = [pc EXCEPT ![d] = s]
    BY <1>1 DEF Next, vars, Acquire, Resolve, Follow, RemoveSlot, Return, Cancel, Release,
                DropGuard, PCs
  <2>1. PICK k \in Keys : Join(c, k)
    BY <1>1, <2>0 DEF Join, IInv, TypeOK
  <2>2. CASE JoinFlight(c, k)
    BY <1>1, <2>2 DEF JoinFlight, IInv, TypeOK, ReturnedFlightsClosed
  <2>3. CASE OpenFlight(c, k)
    BY <1>1, <2>3 DEF OpenFlight, IInv, TypeOK
  <2> QED BY <2>1, <2>2, <2>3 DEF Join
<1>2. IInv /\ [Next]_vars
      => [\A c \in Callers : pc[c] = "idle" /\ pc'[c] = "waiting"
              => guard'[c] \notin answered']_vars
  BY <1>1
<1> QED BY <1>2, Invariance, PTL DEF Spec, NoLateJoin

\* No straggler takes away the slot of a flight that still runs.
THEOREM SlotsLast == Spec => SlotOutlivesFlight
<1>1. ASSUME IInv, [Next]_vars, NEW k \in Keys, inflight[k] # NoCell,
             inflight'[k] # inflight[k], outcome[inflight[k]] = NoOutcome,
             NEW d \in Callers
      PROVE  guard'[d] # inflight[k]
  <2> USE <1>1 DEF IInv, TypeOK
  <2>1. PICK c \in Callers :
          \/ \E j \in Keys : OpenFlight(c, j)
          \/ RemoveSlot(c)
          \/ Return(c) \/ Release(c)
    BY DEF Next, Join, JoinFlight, Acquire, Resolve, Follow, Cancel, vars
  <2>2. CASE \E j \in Keys : OpenFlight(c, j)
    BY <2>2 DEF OpenFlight
  <2>3. CASE RemoveSlot(c)
    BY <2>3 DEF RemoveSlot, OwnsSlot, OutcomeShape
  <2>4. CASE Return(c) \/ Release(c)
    <3>1. pc[c] # "idle" /\ LastOfFlight(c) /\ key[c] = k
          /\ guard' = [guard EXCEPT ![c] = NoCell]
      BY <2>4 DEF Return, Release, DropGuard, CallShape
    <3>2. Holders(guard[c]) = {c}
      BY <3>1, CountIsTwo DEF LastOfFlight
    <3> QED BY <3>1, <3>2 DEF Holders, LastOfFlight
  <2> QED BY <2>1, <2>2, <2>3, <2>4
<1>2. IInv /\ [Next]_vars
      => [\A k \in Keys : inflight[k] # NoCell /\ inflight'[k] # inflight[k]
              => \/ outcome[inflight[k]] # NoOutcome
                 \/ \A c \in Callers : guard'[c] # inflight[k]]_vars
  BY <1>1
<1> QED BY <1>2, Invariance, PTL DEF Spec, SlotOutlivesFlight

-----------------------------------------------------------------------------
(* Refinement of SingleFlight *)

\* Before the first call nobody asks for anything.
LEMMA InitImplements == Init => Promise!Init
BY DEF Init, Promise!Init, PhaseOf, Gone

\* Joining is starting: what a newcomer is due is what some caller of the
\* flight, still on its way out, is due.
LEMMA JoinImplements ==
    ASSUME IInv, NEW c \in Callers, NEW k \in Keys, Join(c, k)
    PROVE  Promise!Start(c, k)
<1> USE DEF IInv, TypeOK, CallShape, Join, PhaseOf, Gone
<1> DEFINE ph == [d \in Callers |-> PhaseOf(d)]
           as == [d \in Callers |-> IF Gone(d) THEN NoKey ELSE key[d]]
           du == [d \in Callers |-> IF Gone(d) THEN NoOutcome ELSE outcome[guard[d]]]
<1>1. ph[c] = "idle" /\ ph' = [ph EXCEPT ![c] = "waiting"] /\ as' = [as EXCEPT ![c] = k]
  OBVIOUS
<1>2. CASE JoinFlight(c, k)
  <2>1. du' = [du EXCEPT ![c] = outcome[inflight[k]]]
    BY <1>2 DEF JoinFlight
  <2>2. CASE outcome[inflight[k]] = NoOutcome
    BY <1>1, <2>1, <2>2 DEF Promise!Start
  <2>3. CASE outcome[inflight[k]] # NoOutcome
    <3>1. PICK d \in Callers : guard[d] = inflight[k] /\ pc[d] = "resolved"
      BY <1>2, <2>3 DEF SetCellLeavesSlot, JoinFlight
    <3>2. as[d] = k /\ du[d] = outcome[inflight[k]]
      BY <1>2, <3>1 DEF OneKeyPerCell, JoinFlight
    <3>3. outcome[inflight[k]] \in Promise!Lingering(k)
      BY <2>3, <3>2 DEF Promise!Lingering
    <3> QED BY <1>1, <2>1, <3>3 DEF Promise!Start
  <2> QED BY <2>2, <2>3
<1>3. CASE OpenFlight(c, k)
  <2>1. du' = [du EXCEPT ![c] = NoOutcome]
    BY <1>3 DEF OpenFlight, Unused, Holders
  <2> QED BY <1>1, <2>1 DEF Promise!Start
<1> QED BY <1>2, <1>3

\* Taking the permit is beginning the key's only fetch.
LEMMA AcquireImplements ==
    ASSUME IInv, NEW c \in Callers, Acquire(c)
    PROVE  Promise!Begin(c)
<1> USE DEF IInv, TypeOK, CallShape, Acquire, PhaseOf, Gone
<1>1. ASSUME NEW d \in Callers, key[d] = key[c], pc[d] = "fetching" PROVE FALSE
  BY <1>1 DEF OutcomeShape, UnsetCellInSlot, PermitFree, Holders
<1> QED BY <1>1 DEF Promise!Begin

\* Setting the cell answers exactly the callers then waiting for the key.
LEMMA ResolveImplements ==
    ASSUME IInv, NEW c \in Callers, NEW o \in Outcomes, Resolve(c, o)
    PROVE  Promise!Finish(c, o)
<1> USE DEF IInv, TypeOK, CallShape, Resolve, PhaseOf, Gone
<1>1. ASSUME NEW d \in Callers, ~Gone(d)
      PROVE  guard[d] = guard[c] <=> key[d] = key[c] /\ outcome[guard[d]] = NoOutcome
  BY <1>1 DEF OutcomeShape, UnsetCellInSlot, OneKeyPerCell
<1> QED BY <1>1 DEF Promise!Finish

\* Finding the cell set is sharing its outcome.
LEMMA FollowImplements ==
    ASSUME IInv, NEW c \in Callers, Follow(c)
    PROVE  Promise!Share(c)
<1> USE DEF IInv, TypeOK, CallShape, Follow
<1> DEFINE ph == [d \in Callers |-> PhaseOf(d)]
           as == [d \in Callers |-> IF Gone(d) THEN NoKey ELSE key[d]]
           du == [d \in Callers |-> IF Gone(d) THEN NoOutcome ELSE outcome[guard[d]]]
<1>1. ph[c] = "waiting" /\ du[c] # NoOutcome
  BY DEF PhaseOf, Gone
<1>2. ph' = [ph EXCEPT ![c] = "answered"]
  BY DEF PhaseOf, Gone
<1>3. \A d \in Callers : Gone(d)' <=> Gone(d)
  BY DEF Gone
<1>4. as' = as /\ du' = du
  BY <1>3
<1> QED BY <1>1, <1>2, <1>4 DEF Promise!Share

\* Every step is a step of SingleFlight, or changes nothing it can see.
LEMMA StepImplements ==
    IInv /\ [Next]_vars => [Promise!Next]_(Promise!vars)
<1> SUFFICES ASSUME IInv, [Next]_vars PROVE [Promise!Next]_(Promise!vars)
  OBVIOUS
<1> USE DEF IInv, TypeOK, CallShape, Promise!Next
<1>1. ASSUME NEW c \in Callers, NEW k \in Keys, Join(c, k) PROVE Promise!Next
  BY <1>1, JoinImplements
<1>2. ASSUME NEW c \in Callers, Acquire(c) PROVE Promise!Next
  BY <1>2, AcquireImplements
<1>3. ASSUME NEW c \in Callers, NEW o \in Outcomes, Resolve(c, o) PROVE Promise!Next
  BY <1>3, ResolveImplements
<1>4. ASSUME NEW c \in Callers, Follow(c) PROVE Promise!Next
  BY <1>4, FollowImplements
<1>5. ASSUME NEW c \in Callers, Return(c) PROVE Promise!Next
  BY <1>5 DEF Return, DropGuard, Promise!Leave, PhaseOf, Gone
<1>6. ASSUME NEW c \in Callers, Cancel(c) PROVE Promise!Next
  BY <1>6 DEF Cancel, Promise!Leave, PhaseOf, Gone
<1>7. ASSUME NEW c \in Callers, RemoveSlot(c) PROVE UNCHANGED Promise!vars
  BY <1>7 DEF RemoveSlot, Promise!vars, PhaseOf, Gone
<1>8. ASSUME NEW c \in Callers, Release(c) PROVE UNCHANGED Promise!vars
  BY <1>8 DEF Release, DropGuard, Promise!vars, PhaseOf, Gone
<1>9. CASE UNCHANGED vars
  BY <1>9 DEF vars, Promise!vars, PhaseOf, Gone
<1> QED BY <1>1, <1>2, <1>3, <1>4, <1>5, <1>6, <1>7, <1>8, <1>9 DEF Next

\* Coalescer::run keeps the promise SingleFlight states.
THEOREM Refinement == Spec => ImplementsSingleFlight
BY InitImplements, StepImplements, Invariance, PTL
   DEF Spec, ImplementsSingleFlight, Promise!Spec
=============================================================================
