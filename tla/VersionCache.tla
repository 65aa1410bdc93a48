---------------------------- MODULE VersionCache ----------------------------
(***************************************************************************)
(* The client version of client/mod.rs: VersionCache and the 426 retry of  *)
(* GarupaClient::fetch.  Every upstream call sends the version the cache   *)
(* holds, or the one the App Store lists when the cached one is too old,   *)
(* and after a 426 drops the cache and tries once more.  Lookups are not   *)
(* coalesced: each call makes its own, and its answer is stored in a step  *)
(* of its own, so calls for different keys race for the one cached value.  *)
(*                                                                         *)
(* The App Store and the game server are the environment: one publishes    *)
(* new versions, the other starts to refuse old ones.                      *)
(***************************************************************************)
EXTENDS Naturals

CONSTANTS Callers,        \* tasks inside GarupaClient::fetch or client_version
          MaxVersion,     \* bound on versions; 0 is the configured static one
          PackageUrl,     \* TRUE iff a lookup URL is configured
          NoVersion

ASSUME MaxVersionNat == MaxVersion \in Nat
ASSUME PackageUrlIsBoolean == PackageUrl \in BOOLEAN

Versions == 0..MaxVersion
Static == 0
TooMany == 3       \* attempts are counted up to here: a bound
ASSUME NoVersionIsNoVersion == NoVersion \notin [version : Versions, fresh : BOOLEAN]

VARIABLES inner,     \* the cached version, and whether its age is below the ttl
          listed,    \* the version the App Store lists
          required,  \* the oldest version the game server accepts
          pc,        \* where each caller is
          version,   \* the version each caller found, or sends
          retrying,  \* the caller is on its second attempt
          attempts,  \* history: how often this call has asked for a version to send
          fellBack,  \* history: this attempt's lookup failed
          floor,     \* history: what the store listed when the caller was refused
          raced      \* history: then, a lookup was answered but not yet stored

vars == <<inner, listed, required, pc, version, retrying, attempts, fellBack, floor, raced>>
history == <<attempts, floor, raced>>
environment == <<listed, required>>

Cached == [version : Versions, fresh : BOOLEAN]
PCs == {"idle", "get", "lookup", "found", "failed", "send", "refused"}

TypeOK == /\ inner \in Cached \cup {NoVersion}
          /\ listed \in Versions /\ required \in Versions
          /\ pc \in [Callers -> PCs]
          /\ version \in [Callers -> Versions]
          /\ retrying \in [Callers -> BOOLEAN]
          /\ attempts \in [Callers -> 0..TooMany]
          /\ fellBack \in [Callers -> BOOLEAN]
          /\ floor \in [Callers -> Versions]
          /\ raced \in [Callers -> BOOLEAN]

Init == /\ inner = NoVersion
        /\ listed \in Versions /\ required \in Versions
        /\ pc = [c \in Callers |-> "idle"]
        /\ version = [c \in Callers |-> Static]
        /\ retrying = [c \in Callers |-> FALSE]
        /\ attempts = [c \in Callers |-> 0]
        /\ fellBack = [c \in Callers |-> FALSE]
        /\ floor = [c \in Callers |-> Static]
        /\ raced = [c \in Callers |-> FALSE]

Goto(c, p) == pc' = [pc EXCEPT ![c] = p]

\* The call is over: its caller's locals are gone.
Finish(c) == /\ Goto(c, "idle")
             /\ version' = [version EXCEPT ![c] = Static]
             /\ retrying' = [retrying EXCEPT ![c] = FALSE]
             /\ attempts' = [attempts EXCEPT ![c] = 0]
             /\ fellBack' = [fellBack EXCEPT ![c] = FALSE]
             /\ floor' = [floor EXCEPT ![c] = Static]
             /\ raced' = [raced EXCEPT ![c] = FALSE]

-----------------------------------------------------------------------------
(* VersionCache::get *)

Start(c) == /\ pc[c] = "idle"
            /\ Goto(c, "get")
            /\ attempts' = [attempts EXCEPT ![c] = 1]
            /\ UNCHANGED <<inner, environment, version, retrying, fellBack, floor, raced>>

Fresh == inner # NoVersion /\ inner.fresh

GetCached(c) == /\ pc[c] = "get"
                /\ Fresh
                /\ version' = [version EXCEPT ![c] = inner.version]
                /\ Goto(c, "send")
                /\ UNCHANGED <<inner, environment, retrying, fellBack, history>>

GetStale(c) == /\ pc[c] = "get"
               /\ ~Fresh
               /\ Goto(c, "lookup")
               /\ UNCHANGED <<inner, environment, version, retrying, fellBack, history>>

\* The lookup's answer; without a lookup URL the static version stands in.
Listing_Missing == IF PackageUrl THEN NoVersion ELSE Static        \* mutant
Listing == IF PackageUrl THEN listed ELSE Static

LookupAnswers(c) == /\ pc[c] = "lookup"
                    /\ version' = [version EXCEPT ![c] = Listing]
                    /\ Goto(c, "found")
                    /\ UNCHANGED <<inner, environment, retrying, fellBack, history>>

\* Timeout, transport error, or an answer without a version.
LookupFails(c) == /\ pc[c] = "lookup"
                  /\ PackageUrl
                  /\ Goto(c, "failed")
                  /\ fellBack' = [fellBack EXCEPT ![c] = TRUE]
                  /\ UNCHANGED <<inner, environment, version, retrying, history>>

\* replace((version, now)): whoever stores last wins.
Store(c) == /\ pc[c] = "found"
            /\ inner' = [version |-> version[c], fresh |-> TRUE]
            /\ Goto(c, "send")
            /\ UNCHANGED <<environment, version, retrying, fellBack, history>>

\* What a failed lookup falls back to: a cached version however old, else the
\* static one.
Fallback == IF inner # NoVersion THEN inner.version ELSE Static

FallBack(c) == /\ pc[c] = "failed"
               /\ version' = [version EXCEPT ![c] = Fallback]
               /\ Goto(c, "send")
               /\ UNCHANGED <<inner, environment, retrying, fellBack, history>>

-----------------------------------------------------------------------------
(* GarupaClient::fetch *)

\* Any answer but 426 ends the call, and so does an error; client_version, which
\* sends nothing, ends here too.
Answered(c) == /\ pc[c] = "send"
               /\ Finish(c)
               /\ UNCHANGED <<inner, environment>>

Refused(c) == pc[c] = "send" /\ version[c] < required

\* Mutant: a loop of retries that runs once too often.
FirstRefusal_Twice(c) ==
    /\ Refused(c) /\ attempts[c] < TooMany
    /\ Goto(c, "refused")
    /\ UNCHANGED <<inner, environment, version, retrying, fellBack, history>>

FirstRefusal(c) == /\ Refused(c) /\ ~retrying[c]
                   /\ Goto(c, "refused")
                   /\ UNCHANGED <<inner, environment, version, retrying, fellBack, history>>

\* A second 426 is the caller's answer.
SecondRefusal(c) == /\ Refused(c) /\ retrying[c]
                    /\ Finish(c)
                    /\ UNCHANGED <<inner, environment>>

Dropped_Kept == inner                                              \* mutant
Dropped == NoVersion

DropCache(c) ==
    /\ pc[c] = "refused"
    /\ inner' = Dropped
    /\ retrying' = [retrying EXCEPT ![c] = TRUE]
    /\ attempts' = [attempts EXCEPT ![c] = IF @ < TooMany THEN @ + 1 ELSE @]
    /\ fellBack' = [fellBack EXCEPT ![c] = FALSE]
    /\ Goto(c, "get")
    /\ floor' = [floor EXCEPT ![c] = Listing]
    /\ raced' = [raced EXCEPT ![c] = \E d \in Callers : pc[d] = "found"]
    /\ UNCHANGED <<environment, version>>

\* The flight's last client leaves while the lookup or the call is awaited.
Abort(c) == /\ pc[c] \in {"lookup", "send"}
            /\ Finish(c)
            /\ UNCHANGED <<inner, environment>>

-----------------------------------------------------------------------------
(* Environment *)

Age == /\ Fresh
       /\ inner' = [inner EXCEPT !.fresh = FALSE]
       /\ UNCHANGED <<environment, pc, version, retrying, fellBack, history>>

Publish == /\ listed < MaxVersion
           /\ listed' = listed + 1
           /\ UNCHANGED <<inner, required, pc, version, retrying, fellBack, history>>

Require == /\ required < MaxVersion
           /\ required' = required + 1
           /\ UNCHANGED <<inner, listed, pc, version, retrying, fellBack, history>>

Call(c) == \/ GetCached(c) \/ GetStale(c)
           \/ LookupAnswers(c) \/ LookupFails(c) \/ Store(c) \/ FallBack(c)
           \/ Answered(c) \/ FirstRefusal(c) \/ SecondRefusal(c) \/ DropCache(c)

Next == \/ \E c \in Callers : Start(c) \/ Call(c) \/ Abort(c)
        \/ Age \/ Publish \/ Require

Spec == Init /\ [][Next]_vars

\* Lookups and upstream calls end, by their answer or by their timeout.
Fairness == \A c \in Callers : WF_vars(Call(c))

FairSpec == Spec /\ Fairness

-----------------------------------------------------------------------------
(* Properties *)

\* "The version cache is dropped, refetched from the store, and the request
\* retried once" (client/mod.rs:175): unless its lookup failed, a retry sends a
\* version at least as new as what the store listed when the 426 came, whatever
\* other callers stored in between.
RetryIsCurrent == \A c \in Callers :
    pc[c] = "send" /\ retrying[c] /\ ~fellBack[c] => version[c] >= floor[c]

\* The same for every retry whose refusal did not come between the answer of
\* another caller's lookup and its being stored: only that window lets an old
\* version back into the dropped cache.
RetryIsCurrentUnlessRaced == \A c \in Callers :
    pc[c] = "send" /\ retrying[c] /\ ~fellBack[c] /\ ~raced[c] => version[c] >= floor[c]

\* "The request retried once before the error is surfaced" (client/mod.rs:176):
\* no call makes a third attempt.
RetriedOnce(c) == attempts[c] < TooMany

\* Every call ends, and after at most one retry, however often the game raises
\* its demand and whatever other callers store meanwhile.
EveryFetchEnds == \A c \in Callers :
    /\ []RetriedOnce(c)
    /\ pc[c] = "get" ~> pc[c] = "idle"

\* A client version left behind by a game update heals: when lookups stop
\* failing, from some time on a 426 is surfaced only if the store itself does
\* not list a version the game accepts.
RefusalsStop ==
    <>[][\A c \in Callers : ~(pc[c] = "lookup" /\ pc'[c] = "failed")]_vars
    => <>[][\A c \in Callers : SecondRefusal(c) => listed < required]_vars
=============================================================================
