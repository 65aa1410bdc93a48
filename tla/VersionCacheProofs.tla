------------------------- MODULE VersionCacheProofs -------------------------
(***************************************************************************)
(* Theorems about VersionCache for any number of concurrent calls and any  *)
(* range of versions.                                                      *)
(***************************************************************************)
EXTENDS VersionCache, TLAPS

USE MaxVersionNat, PackageUrlIsBoolean, NoVersionIsNoVersion

\* A retry nobody raced has only versions at least as new as its floor around
\* it: in the cache, and in every lookup answered but not yet stored.
CleanRetry(c) == retrying[c] /\ ~raced[c]

FloorKept == \A c \in Callers : CleanRetry(c) =>
    /\ floor[c] <= Listing
    /\ inner # NoVersion => floor[c] <= inner.version
    /\ \A d \in Callers : pc[d] = "found" => floor[c] <= version[d]

FailureNoted == \A c \in Callers : pc[c] = "failed" => fellBack[c]

\* An idle call has made no attempt and a refused one its first; a retry is
\* the second.
Counted(c) ==
    /\ pc[c] = "idle" => attempts[c] = 0 /\ ~retrying[c]
    /\ pc[c] # "idle" /\ ~retrying[c] => attempts[c] = 1
    /\ retrying[c] => attempts[c] = 2 /\ pc[c] # "refused"

AttemptsCounted == \A c \in Callers : Counted(c)

IInv == TypeOK /\ FloorKept /\ FailureNoted /\ RetryIsCurrentUnlessRaced

\* The configured version counts as the oldest one.
LEMMA StaticIsVersion == Static \in Versions /\ Versions \subseteq Nat
BY DEF Static, Versions

\* The process starts with an empty version cache and no call.
LEMMA InitTypeOK == Init => TypeOK
<1> SUFFICES ASSUME Init PROVE TypeOK
  OBVIOUS
<1>1. inner \in Cached \cup {NoVersion} /\ listed \in Versions /\ required \in Versions
  BY DEF Init
<1>2. pc \in [Callers -> PCs] /\ version \in [Callers -> Versions] /\ floor \in [Callers -> Versions]
  BY StaticIsVersion DEF Init, PCs
<1>3. retrying \in [Callers -> BOOLEAN] /\ attempts \in [Callers -> 0..TooMany] /\ fellBack \in [Callers -> BOOLEAN]
      /\ raced \in [Callers -> BOOLEAN]
  BY DEF Init, TooMany
<1> QED BY <1>1, <1>2, <1>3 DEF TypeOK

\* The call's end leaves no retry behind, and nothing is stored by it.
LEMMA FinishIInv ==
    ASSUME IInv, NEW c \in Callers, Finish(c), UNCHANGED <<inner, environment>>
    PROVE  IInv'
<1> USE StaticIsVersion DEF IInv, Finish, Goto, environment, TooMany
<1>1. TypeOK'
  BY DEF TypeOK, PCs
<1>2. FloorKept' /\ RetryIsCurrentUnlessRaced'
  BY DEF FloorKept, CleanRetry, RetryIsCurrentUnlessRaced, TypeOK, Listing
<1>3. FailureNoted'
  BY DEF FailureNoted, TypeOK
<1> QED BY <1>1, <1>2, <1>3

\* Every step of a call and of the environment keeps the invariant; only a
\* lookup that was already answered when the cache was dropped could not.
LEMMA NextIInv == IInv /\ [Next]_vars => IInv'
<1> SUFFICES ASSUME IInv, [Next]_vars PROVE IInv'
  OBVIOUS
<1> USE StaticIsVersion DEF IInv, TooMany, TypeOK, Goto, PCs, environment, history, FailureNoted
<1>1. ASSUME NEW c \in Callers, Start(c) PROVE IInv'
  BY <1>1 DEF Start, FloorKept, CleanRetry, RetryIsCurrentUnlessRaced, Listing
<1>2. ASSUME NEW c \in Callers, GetCached(c) PROVE IInv'
  BY <1>2 DEF GetCached, Fresh, Cached, FloorKept, CleanRetry, RetryIsCurrentUnlessRaced, Listing
<1>3. ASSUME NEW c \in Callers, GetStale(c) PROVE IInv'
  BY <1>3 DEF GetStale, FloorKept, CleanRetry, RetryIsCurrentUnlessRaced, Listing
<1>4. ASSUME NEW c \in Callers, LookupAnswers(c) PROVE IInv'
  <2>1. Listing \in Versions
    BY DEF Listing
  <2>2. TypeOK' /\ FailureNoted' /\ RetryIsCurrentUnlessRaced'
    BY <1>4, <2>1 DEF LookupAnswers, RetryIsCurrentUnlessRaced
  <2>3. FloorKept'
    BY <1>4, <2>1 DEF LookupAnswers, FloorKept, CleanRetry, Listing
  <2> QED BY <2>2, <2>3
<1>5. ASSUME NEW c \in Callers, LookupFails(c) PROVE IInv'
  BY <1>5 DEF LookupFails, FloorKept, CleanRetry, RetryIsCurrentUnlessRaced, Listing
<1>6. ASSUME NEW c \in Callers, Store(c) PROVE IInv'
  <2>1. inner' \in Cached /\ inner'.version = version[c]
    BY <1>6 DEF Store, Cached
  <2>2. TypeOK' /\ FailureNoted'
    BY <1>6, <2>1 DEF Store
  <2>3. FloorKept'
    BY <1>6, <2>1 DEF Store, FloorKept, CleanRetry, Listing
  <2>4. RetryIsCurrentUnlessRaced'
    BY <1>6 DEF Store, FloorKept, CleanRetry, RetryIsCurrentUnlessRaced
  <2> QED BY <2>2, <2>3, <2>4
<1>7. ASSUME NEW c \in Callers, FallBack(c) PROVE IInv'
  <2>1. Fallback \in Versions
    BY DEF Fallback, Cached
  <2>2. TypeOK' /\ FailureNoted'
    BY <1>7, <2>1 DEF FallBack
  <2>3. FloorKept' /\ RetryIsCurrentUnlessRaced'
    BY <1>7 DEF FallBack, FloorKept, CleanRetry, RetryIsCurrentUnlessRaced, Listing
  <2> QED BY <2>2, <2>3
<1>8. ASSUME NEW c \in Callers, Answered(c) \/ SecondRefusal(c) \/ Abort(c) PROVE IInv'
  BY <1>8, FinishIInv DEF Answered, SecondRefusal, Abort
<1>9. ASSUME NEW c \in Callers, FirstRefusal(c) PROVE IInv'
  BY <1>9 DEF FirstRefusal, FloorKept, CleanRetry, RetryIsCurrentUnlessRaced, Listing
<1>10. ASSUME NEW c \in Callers, DropCache(c) PROVE IInv'
  <2>1. Listing \in Versions /\ Listing' = Listing
    BY <1>10 DEF DropCache, Listing
  <2>2. TypeOK' /\ FailureNoted'
    BY <1>10, <2>1 DEF DropCache, Dropped
  <2>3. FloorKept'
    BY <1>10, <2>1 DEF DropCache, Dropped, FloorKept, CleanRetry
  <2>4. RetryIsCurrentUnlessRaced'
    BY <1>10 DEF DropCache, RetryIsCurrentUnlessRaced
  <2> QED BY <2>2, <2>3, <2>4
<1>11. CASE Age
  <2>1. inner # NoVersion /\ inner' \in Cached /\ inner'.version = inner.version
    BY <1>11 DEF Age, Fresh, Cached
  <2>2. TypeOK' /\ FailureNoted' /\ RetryIsCurrentUnlessRaced'
    BY <1>11, <2>1 DEF Age, RetryIsCurrentUnlessRaced
  <2>3. FloorKept'
    BY <1>11, <2>1 DEF Age, FloorKept, CleanRetry, Listing
  <2> QED BY <2>2, <2>3
<1>12. CASE Publish
  <2>1. listed' \in Versions /\ listed <= listed'
    BY <1>12 DEF Publish, Versions
  <2>2. TypeOK' /\ FailureNoted' /\ RetryIsCurrentUnlessRaced'
    BY <1>12, <2>1 DEF Publish, RetryIsCurrentUnlessRaced
  <2>3. FloorKept'
    BY <1>12, <2>1 DEF Publish, FloorKept, CleanRetry, Listing, Versions
  <2> QED BY <2>2, <2>3
<1>13. CASE Require
  <2>1. required' \in Versions
    BY <1>13 DEF Require, Versions
  <2> QED BY <1>13, <2>1 DEF Require, FloorKept, CleanRetry, RetryIsCurrentUnlessRaced, Listing
<1>14. CASE UNCHANGED vars
  BY <1>14 DEF vars, FloorKept, CleanRetry, RetryIsCurrentUnlessRaced, Listing
<1> QED BY <1>1, <1>2, <1>3, <1>4, <1>5, <1>6, <1>7, <1>8, <1>9, <1>10, <1>11, <1>12, <1>13, <1>14
        DEF Next, Call

\* The inductive invariant holds in every reachable state.
LEMMA Invariance == Spec => []IInv
<1>1. Init => IInv
  BY InitTypeOK DEF Init, IInv, FloorKept, CleanRetry, FailureNoted, RetryIsCurrentUnlessRaced
<1> QED BY <1>1, NextIInv, PTL DEF Spec

\* Every variable of the version cache and its callers keeps its type.
THEOREM TypeCorrect == Spec => []TypeOK
<1>1. IInv => TypeOK
  BY DEF IInv
<1> QED BY <1>1, Invariance, PTL

\* Only a refusal of a first attempt is followed by another.
LEMMA AttemptsStep == TypeOK /\ AttemptsCounted /\ [Next]_vars => AttemptsCounted'
<1> SUFFICES ASSUME TypeOK, AttemptsCounted, [Next]_vars, NEW d \in Callers PROVE Counted(d)'
  BY DEF AttemptsCounted
<1> USE DEF TooMany, TypeOK, AttemptsCounted, Counted, Goto, Finish, environment, history
<1>1. ASSUME NEW c \in Callers, Start(c) PROVE Counted(d)'
  BY <1>1 DEF Start
<1>2. ASSUME NEW c \in Callers, GetCached(c) \/ GetStale(c) PROVE Counted(d)'
  BY <1>2 DEF GetCached, GetStale
<1>3. ASSUME NEW c \in Callers, LookupAnswers(c) \/ LookupFails(c) PROVE Counted(d)'
  BY <1>3 DEF LookupAnswers, LookupFails
<1>4. ASSUME NEW c \in Callers, Store(c) \/ FallBack(c) PROVE Counted(d)'
  BY <1>4 DEF Store, FallBack
<1>5. ASSUME NEW c \in Callers, Answered(c) \/ SecondRefusal(c) \/ Abort(c) PROVE Counted(d)'
  BY <1>5 DEF Answered, SecondRefusal, Abort
<1>6. ASSUME NEW c \in Callers, FirstRefusal(c) PROVE Counted(d)'
  BY <1>6 DEF FirstRefusal, Refused
<1>7. ASSUME NEW c \in Callers, DropCache(c) PROVE Counted(d)'
  BY <1>7 DEF DropCache
<1>8. CASE Age \/ Publish \/ Require \/ UNCHANGED vars
  BY <1>8 DEF Age, Publish, Require, vars
<1> QED BY <1>1, <1>2, <1>3, <1>4, <1>5, <1>6, <1>7, <1>8 DEF Next, Call

\* However often a call is refused, it makes at most two attempts: the safety
\* half of EveryFetchEnds.
THEOREM RetriesOnce == Spec => [](\A c \in Callers : RetriedOnce(c))
<1>1. Init => AttemptsCounted
  BY DEF Init, AttemptsCounted, Counted
<1>2. TypeOK /\ AttemptsCounted => \A c \in Callers : RetriedOnce(c)
  <2> SUFFICES ASSUME TypeOK, AttemptsCounted, NEW c \in Callers PROVE RetriedOnce(c)
    OBVIOUS
  <2>1. attempts[c] \in {0, 1, 2}
    BY DEF TypeOK, AttemptsCounted, Counted
  <2> QED BY <2>1 DEF RetriedOnce, TooMany
<1> QED BY <1>1, <1>2, AttemptsStep, TypeCorrect, PTL DEF Spec

\* A retry after a 426 never goes back behind what the store listed when the
\* cache was dropped, unless a lookup was then answered but not yet stored.
THEOREM RetriesAreCurrent == Spec => []RetryIsCurrentUnlessRaced
<1>1. IInv => RetryIsCurrentUnlessRaced
  BY DEF IInv
<1> QED BY <1>1, Invariance, PTL
=============================================================================
