---------------------------- MODULE SingleFlight ----------------------------
(***************************************************************************)
(* What request coalescing promises its callers, with no slots, cells,     *)
(* locks or reference counts: at any time at most one caller per key runs  *)
(* the fetch, and its outcome answers every caller then waiting for that   *)
(* key.  A caller that arrives while a finished flight still has a         *)
(* participant on its way out may be given the same outcome.               *)
(* Coalescer.tla is the code that keeps this promise.                      *)
(***************************************************************************)
CONSTANTS Callers,    \* tasks that call Coalescer::run
          Keys,       \* cache keys
          Outcomes,   \* what a fetch can resolve to
          NoKey,      \* asked for by a caller that is not in a call
          NoOutcome   \* due to a caller whose flight has not resolved

VARIABLES phase,      \* where each caller is in its call
          ask,        \* the key each caller asked for
          due         \* the outcome each caller is going to receive

vars == <<phase, ask, due>>

Phases == {"idle", "waiting", "fetching", "answered"}

TypeOK == /\ phase \in [Callers -> Phases]
          /\ ask \in [Callers -> Keys \cup {NoKey}]
          /\ due \in [Callers -> Outcomes \cup {NoOutcome}]

Init == /\ phase = [c \in Callers |-> "idle"]
        /\ ask = [c \in Callers |-> NoKey]
        /\ due = [c \in Callers |-> NoOutcome]

\* Outcomes of finished flights for k whose participants are still in the call.
Lingering(k) == {due[d] : d \in {e \in Callers : ask[e] = k}} \ {NoOutcome}

Start(c, k) == /\ phase[c] = "idle"
               /\ phase' = [phase EXCEPT ![c] = "waiting"]
               /\ ask' = [ask EXCEPT ![c] = k]
               /\ \E o \in Lingering(k) \cup {NoOutcome} : due' = [due EXCEPT ![c] = o]

\* The fetch starts only when nobody else is fetching the same key.
Begin(c) == /\ phase[c] = "waiting"
            /\ due[c] = NoOutcome
            /\ \A d \in Callers : ask[d] = ask[c] => phase[d] # "fetching"
            /\ phase' = [phase EXCEPT ![c] = "fetching"]
            /\ UNCHANGED <<ask, due>>

\* One outcome for the fetching caller and for everyone waiting behind it.
Finish(c, o) ==
    /\ phase[c] = "fetching"
    /\ phase' = [phase EXCEPT ![c] = "answered"]
    /\ due' = [d \in Callers |-> IF ask[d] = ask[c] /\ due[d] = NoOutcome THEN o ELSE due[d]]
    /\ ask' = ask

Share(c) == /\ phase[c] = "waiting"
            /\ due[c] # NoOutcome
            /\ phase' = [phase EXCEPT ![c] = "answered"]
            /\ UNCHANGED <<ask, due>>

\* The call ends: with its answer, or because its caller went away.
Leave(c) == /\ phase[c] # "idle"
            /\ phase' = [phase EXCEPT ![c] = "idle"]
            /\ ask' = [ask EXCEPT ![c] = NoKey]
            /\ due' = [due EXCEPT ![c] = NoOutcome]

Next == \E c \in Callers : \/ \E k \in Keys : Start(c, k)
                           \/ Begin(c)
                           \/ \E o \in Outcomes : Finish(c, o)
                           \/ Share(c)
                           \/ Leave(c)

Spec == Init /\ [][Next]_vars
=============================================================================
