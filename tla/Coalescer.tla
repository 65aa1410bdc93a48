------------------------------ MODULE Coalescer ------------------------------
(***************************************************************************)
(* Single-flight for cache misses: Coalescer::run, its FlightGuard and     *)
(* tokio's OnceCell.  A caller joins the cell in its key's slot, one       *)
(* holder of the cell at a time runs the fetch, everyone who holds the     *)
(* cell clones its outcome, and the slot goes when the flight resolves or  *)
(* when the last caller abandons it.                                       *)
(*                                                                         *)
(* One action per stretch between two points where other threads can run:  *)
(* each section under the `inflight` mutex is one step, and so is each     *)
(* step of the OnceCell.  A call can be dropped only where it awaits.      *)
(***************************************************************************)
EXTENDS Naturals, FiniteSets

CONSTANTS Callers,    \* tasks that call Coalescer::run
          Keys,       \* cache keys
          Cells,      \* identities (addresses) an Arc<OnceCell<_>> can have
          Outcomes,   \* what a fetch can resolve to, failures included
          NoKey, NoCell, NoOutcome

ASSUME CallersFinite == IsFiniteSet(Callers)
ASSUME NoKeyIsNoKey == NoKey \notin Keys
ASSUME NoCellIsNoCell == NoCell \notin Cells
ASSUME NoOutcomeIsNoOutcome == NoOutcome \notin Outcomes

VARIABLES inflight,   \* the map from key to cell, NoCell where absent
          outcome,    \* what each cell holds, NoOutcome until it is set
          guard,      \* the cell in each caller's FlightGuard
          key,        \* the key each caller passed to run
          pc,         \* where each caller is
          answered    \* history: cells whose outcome some caller has returned

vars == <<inflight, outcome, guard, key, pc, answered>>

PCs == {"idle", "waiting", "fetching", "resolved", "leaving", "cancelled"}

TypeOK == /\ inflight \in [Keys -> Cells \cup {NoCell}]
          /\ outcome \in [Cells -> Outcomes \cup {NoOutcome}]
          /\ guard \in [Callers -> Cells \cup {NoCell}]
          /\ key \in [Callers -> Keys \cup {NoKey}]
          /\ pc \in [Callers -> PCs]
          /\ answered \in SUBSET Cells

Init == /\ inflight = [k \in Keys |-> NoCell]
        /\ outcome = [x \in Cells |-> NoOutcome]
        /\ guard = [c \in Callers |-> NoCell]
        /\ key = [c \in Callers |-> NoKey]
        /\ pc = [c \in Callers |-> "idle"]
        /\ answered = {}

-----------------------------------------------------------------------------
(* References to a cell: those of guards, and that of the slot.            *)

Holders(x) == {c \in Callers : guard[c] = x}
SlotsOf(x) == {k \in Keys : inflight[k] = x}
StrongCount(x) == Cardinality(Holders(x)) + Cardinality(SlotsOf(x))

\* An address nothing refers to, which the allocator may hand out.
Unused(x) == Holders(x) = {} /\ SlotsOf(x) = {}

\* The cell's permit is with the one caller that runs the fetch in it.
PermitFree(x) == \A d \in Holders(x) : pc[d] # "fetching"

\* Dropping c's guard, under the lock: the slot goes with it if it is still
\* this flight's and c is the flight's last caller.
LastOfFlight_NoCount(c) == inflight[key[c]] = guard[c]            \* mutant
LastOfFlight_NoPtrEq(c) == StrongCount(guard[c]) = 2              \* mutant
LastOfFlight(c) == inflight[key[c]] = guard[c] /\ StrongCount(guard[c]) = 2

\* Mutant: the reference goes only after the lock is released.
DropGuard_AfterUnlock(c) ==
    /\ inflight' = IF LastOfFlight(c) THEN [inflight EXCEPT ![key[c]] = NoCell] ELSE inflight
    /\ key' = [key EXCEPT ![c] = NoKey]
    /\ pc' = [pc EXCEPT ![c] = "idle"]
    /\ UNCHANGED guard

DropGuard(c) ==
    /\ inflight' = IF LastOfFlight(c) THEN [inflight EXCEPT ![key[c]] = NoCell] ELSE inflight
    /\ guard' = [guard EXCEPT ![c] = NoCell]
    /\ key' = [key EXCEPT ![c] = NoKey]
    /\ pc' = [pc EXCEPT ![c] = "idle"]

-----------------------------------------------------------------------------
\* entry(key).or_insert_with(new cell).clone(), and the guard around it.
JoinFlight(c, k) ==
    /\ inflight[k] # NoCell
    /\ guard' = [guard EXCEPT ![c] = inflight[k]]
    /\ UNCHANGED <<inflight, outcome, answered>>

OpenFlight(c, k) ==
    /\ inflight[k] = NoCell
    /\ \E x \in Cells :
         /\ Unused(x)
         /\ inflight' = [inflight EXCEPT ![k] = x]
         /\ outcome' = [outcome EXCEPT ![x] = NoOutcome]
         /\ guard' = [guard EXCEPT ![c] = x]
         /\ answered' = answered \ {x}

Join(c, k) == /\ pc[c] = "idle"
              /\ JoinFlight(c, k) \/ OpenFlight(c, k)
              /\ key' = [key EXCEPT ![c] = k]
              /\ pc' = [pc EXCEPT ![c] = "waiting"]

\* get_or_init: the permit of an unset cell makes its taker the one to fetch...
Acquire(c) == /\ pc[c] = "waiting"
              /\ outcome[guard[c]] = NoOutcome
              /\ PermitFree(guard[c])
              /\ pc' = [pc EXCEPT ![c] = "fetching"]
              /\ UNCHANGED <<inflight, outcome, guard, key, answered>>

\* ... its fetch sets the cell ...
Resolve(c, o) == /\ pc[c] = "fetching"
                 /\ outcome' = [outcome EXCEPT ![guard[c]] = o]
                 /\ pc' = [pc EXCEPT ![c] = "resolved"]
                 /\ UNCHANGED <<inflight, guard, key, answered>>

\* ... and a set cell answers whoever holds it.
\* Mutant: a follower looks its flight up again and misses a cleared slot.
Follow_NeedsSlot(c) == /\ pc[c] = "waiting"
                       /\ inflight[key[c]] = guard[c]
                       /\ outcome[guard[c]] # NoOutcome
                       /\ pc' = [pc EXCEPT ![c] = "resolved"]
                       /\ UNCHANGED <<inflight, outcome, guard, key, answered>>

Follow(c) == /\ pc[c] = "waiting"
             /\ outcome[guard[c]] # NoOutcome
             /\ pc' = [pc EXCEPT ![c] = "resolved"]
             /\ UNCHANGED <<inflight, outcome, guard, key, answered>>

\* A caller with an outcome clears the slot if it still is its flight's.
OwnsSlot_NoPtrEq(c) == inflight[key[c]] # NoCell                  \* mutant
OwnsSlot_LastOnly(c) == LastOfFlight(c)                           \* mutant
OwnsSlot(c) == inflight[key[c]] = guard[c]

RemoveSlot(c) ==
    /\ pc[c] = "resolved"
    /\ inflight' = IF OwnsSlot(c) THEN [inflight EXCEPT ![key[c]] = NoCell] ELSE inflight
    /\ pc' = [pc EXCEPT ![c] = "leaving"]
    /\ UNCHANGED <<outcome, guard, key, answered>>

Return(c) == /\ pc[c] = "leaving"
             /\ DropGuard(c)
             /\ answered' = answered \cup {guard[c]}
             /\ UNCHANGED outcome

\* The call's future is dropped, or its fetch panics: the OnceCell future goes
\* first and gives its permit back, the guard is dropped in a later step.
Cancel(c) == /\ pc[c] \in {"waiting", "fetching"}
             /\ pc' = [pc EXCEPT ![c] = "cancelled"]
             /\ UNCHANGED <<inflight, outcome, guard, key, answered>>

Release(c) == /\ pc[c] = "cancelled"
              /\ DropGuard(c)
              /\ UNCHANGED <<outcome, answered>>

Next == \E c \in Callers : \/ \E k \in Keys : Join(c, k)
                           \/ Acquire(c)
                           \/ \E o \in Outcomes : Resolve(c, o)
                           \/ Follow(c)
                           \/ RemoveSlot(c)
                           \/ Return(c)
                           \/ Cancel(c)
                           \/ Release(c)

Spec == Init /\ [][Next]_vars

\* Tasks are polled when woken, and the upstream request times out, so every
\* enabled step of a call is taken; the cell's semaphore hands its permit to
\* waiters in order, so a waiter it becomes free for again and again gets it.
\* Nothing obliges a caller to start, or to go away.
Fairness == \A c \in Callers : /\ SF_vars(Acquire(c))
                               /\ WF_vars(\E o \in Outcomes : Resolve(c, o))
                               /\ WF_vars(Follow(c))
                               /\ WF_vars(RemoveSlot(c))
                               /\ WF_vars(Return(c))
                               /\ WF_vars(Release(c))

FairSpec == Spec /\ Fairness

-----------------------------------------------------------------------------
(* Properties *)

\* Two tasks never fetch the same key at once: "concurrent requests for the
\* same key share one in-flight upstream call" (cache.rs:103), through
\* cancelled leaders, stragglers of old flights and reused addresses.
OneFetchPerKey == \A c, d \in Callers :
    pc[c] = "fetching" /\ pc[d] = "fetching" /\ key[c] = key[d] => c = d

\* Whoever waits in an unresolved flight waits in the one its key's slot shows
\* to newcomers: no cancellation and no straggler's cleanup orphans a flight
\* that still has someone in it.
NoOrphanFlight == \A c \in Callers :
    pc[c] \in {"waiting", "fetching"} /\ outcome[guard[c]] = NoOutcome
        => inflight[key[c]] = guard[c]

\* "If all callers disconnect while fetching, release the abandoned slot"
\* (cache.rs:112): a slot always has a caller that will clear it, even when
\* its last callers are cancelled simultaneously.
NoLeakedSlot == \A k \in Keys : inflight[k] # NoCell =>
    \E c \in Callers : guard[c] = inflight[k] /\ key[c] = k

\* "A later request fetches afresh rather than reusing a stale in-flight
\* result" (cache.rs:140): once a caller has returned with a flight's outcome,
\* nobody joins that flight any more.
NoLateJoin == [][\A c \in Callers :
    pc[c] = "idle" /\ pc'[c] = "waiting" => guard'[c] \notin answered']_vars

\* A slot is vacated only when its flight has its outcome or when its last
\* caller goes: a straggler of an earlier flight for the same key never takes
\* away the slot of the flight that followed.
SlotOutlivesFlight == [][\A k \in Keys :
    inflight[k] # NoCell /\ inflight'[k] # inflight[k]
        => \/ outcome[inflight[k]] # NoOutcome
           \/ \A c \in Callers : guard'[c] # inflight[k]]_vars

\* What the guards, slots and cells of all callers and keys keep to, step by
\* step; the inductive invariant behind the properties above.
CallShape == \A c \in Callers :
    IF pc[c] = "idle" THEN guard[c] = NoCell /\ key[c] = NoKey
                      ELSE guard[c] \in Cells /\ key[c] \in Keys

\* A cell serves one key: its holders asked for it and only its slot shows it.
OneKeyPerCell ==
    /\ \A c, d \in Callers : guard[c] # NoCell /\ guard[c] = guard[d] => key[c] = key[d]
    /\ \A c \in Callers, k \in Keys :
          guard[c] # NoCell /\ inflight[k] = guard[c] => key[c] = k
    /\ \A j, k \in Keys : inflight[j] # NoCell /\ inflight[j] = inflight[k] => j = k

\* An unset cell stays in the slot of the key it was made for.
UnsetCellInSlot == \A c \in Callers :
    pc[c] # "idle" /\ outcome[guard[c]] = NoOutcome => inflight[key[c]] = guard[c]

OutcomeShape == \A c \in Callers :
    /\ pc[c] = "fetching" => outcome[guard[c]] = NoOutcome
    /\ pc[c] \in {"resolved", "leaving"} => outcome[guard[c]] # NoOutcome

OnePermit == \A c, d \in Callers :
    pc[c] = "fetching" /\ pc[d] = "fetching" /\ guard[c] = guard[d] => c = d

\* A set cell is in a slot only while somebody is about to take it out.
SetCellLeavesSlot == \A k \in Keys :
    inflight[k] # NoCell /\ outcome[inflight[k]] # NoOutcome
        => \E c \in Callers : guard[c] = inflight[k] /\ pc[c] = "resolved"

ReturnedFlightsClosed ==
    /\ \A c \in Callers : pc[c] = "leaving" => inflight[key[c]] # guard[c]
    /\ \A k \in Keys : inflight[k] \notin answered

IInv == /\ TypeOK
        /\ CallShape
        /\ OneKeyPerCell
        /\ UnsetCellInSlot
        /\ OutcomeShape
        /\ OnePermit
        /\ NoLeakedSlot
        /\ SetCellLeavesSlot
        /\ ReturnedFlightsClosed

\* Every caller that starts waiting ends its call (with the outcome, or because
\* it was cancelled), however many leaders are cancelled before it.
EveryCallEnds == \A c \in Callers : pc[c] = "waiting" ~> pc[c] = "idle"

\* The code implements SingleFlight: a cancelled call has left although its
\* guard is still to be dropped.
Gone(c) == pc[c] \in {"idle", "cancelled"}
PhaseOf(c) == CASE Gone(c) -> "idle"
                [] pc[c] \in {"resolved", "leaving"} -> "answered"
                [] OTHER -> pc[c]

Promise == INSTANCE SingleFlight WITH
    phase <- [c \in Callers |-> PhaseOf(c)],
    ask <- [c \in Callers |-> IF Gone(c) THEN NoKey ELSE key[c]],
    due <- [c \in Callers |-> IF Gone(c) THEN NoOutcome ELSE outcome[guard[c]]]

\* Every behaviour of Coalescer::run, seen through each caller's phase, key
\* and coming outcome, is one SingleFlight allows.
ImplementsSingleFlight == Promise!Spec
=============================================================================
