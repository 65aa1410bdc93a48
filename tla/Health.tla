------------------------------- MODULE Health -------------------------------
(***************************************************************************)
(* GET /health of handlers.rs: the snapshot of JP's availability shared by *)
(* all requests, and the process uptime.  A request that finds no fresh    *)
(* snapshot probes the game server and looks up the client version, each   *)
(* an await during which other requests do the same, then writes the       *)
(* snapshot and stamps it with the time of writing.  JP is configured.     *)
(***************************************************************************)
EXTENDS Naturals

CONSTANTS Requests,     \* concurrent requests
          SnapshotTtl,  \* HEALTH_SNAPSHOT_TTL
          LookupLimit,  \* the version lookup's timeout
          MaxTime,      \* bound on the clock
          Never

ASSUME SnapshotTtlPositive == SnapshotTtl \in Nat \ {0}
ASSUME LookupLimitNat == LookupLimit \in Nat
ASSUME MaxTimeNat == MaxTime \in Nat
ASSUME NeverIsNoTime == Never \notin 0..MaxTime

Times == 0..MaxTime
NoSnapshot == [at |-> Never, probed |-> Never, available |-> FALSE]

VARIABLES now,        \* the clock; the process starts at 0
          reachable,  \* the game server answers /application
          snapshot,   \* HEALTH_SNAPSHOT; probed is when its answer was obtained
          startTime,  \* START_TIME
          pc,         \* where each request is
          available,  \* each request's answer about JP
          probed,     \* when that answer was obtained
          uptime,     \* the uptime each request reports
          replied     \* when each request read its answer

vars == <<now, reachable, snapshot, startTime, pc, available, probed, uptime, replied>>

PCs == {"idle", "probe", "lookup", "uptime", "sent"}

TypeOK == /\ now \in Times
          /\ reachable \in BOOLEAN
          /\ \/ snapshot = NoSnapshot
             \/ snapshot \in [at : Times, probed : Times, available : BOOLEAN]
          /\ startTime \in Times \cup {Never}
          /\ pc \in [Requests -> PCs]
          /\ available \in [Requests -> BOOLEAN]
          /\ probed \in [Requests -> Times]
          /\ uptime \in [Requests -> Times]
          /\ replied \in [Requests -> Times]

Init == /\ now = 0
        /\ reachable \in BOOLEAN
        /\ snapshot = NoSnapshot
        /\ startTime = Never
        /\ pc = [r \in Requests |-> "idle"]
        /\ available = [r \in Requests |-> FALSE]
        /\ probed = [r \in Requests |-> 0]
        /\ uptime = [r \in Requests |-> 0]
        /\ replied = [r \in Requests |-> 0]

Goto(r, p) == pc' = [pc EXCEPT ![r] = p]

Fresh_NoTtl == snapshot # NoSnapshot                               \* mutant
Fresh == snapshot # NoSnapshot /\ now - snapshot.at < SnapshotTtl

Reuse(r) == /\ pc[r] = "idle"
            /\ Fresh
            /\ available' = [available EXCEPT ![r] = snapshot.available]
            /\ probed' = [probed EXCEPT ![r] = snapshot.probed]
            /\ replied' = [replied EXCEPT ![r] = now]
            /\ Goto(r, "uptime")
            /\ UNCHANGED <<now, reachable, snapshot, startTime, uptime>>

BeginProbe(r) == /\ pc[r] = "idle"
                 /\ ~Fresh
                 /\ Goto(r, "probe")
                 /\ UNCHANGED <<now, reachable, snapshot, startTime, available, probed, uptime, replied>>

\* check_health: an answer, or false on any error or after its own timeout.
EndProbe(r) == /\ pc[r] = "probe"
               /\ \E ok \in {reachable, FALSE} : available' = [available EXCEPT ![r] = ok]
               /\ probed' = [probed EXCEPT ![r] = now]
               /\ Goto(r, "lookup")
               /\ UNCHANGED <<now, reachable, snapshot, startTime, uptime, replied>>

\* client_version returned: write the snapshot, stamped now.
Stamp(r) == now

WriteSnapshot(r) ==
    /\ pc[r] = "lookup"
    /\ snapshot' = [at |-> Stamp(r), probed |-> probed[r], available |-> available[r]]
    /\ replied' = [replied EXCEPT ![r] = now]
    /\ Goto(r, "uptime")
    /\ UNCHANGED <<now, reachable, startTime, available, probed, uptime>>

\* START_TIME.get_or_init(Instant::now).elapsed()
ReportUptime(r) ==
    LET started == IF startTime = Never THEN now ELSE startTime
    IN  /\ pc[r] = "uptime"
        /\ startTime' = started
        /\ uptime' = [uptime EXCEPT ![r] = now - started]
        /\ replied' = [replied EXCEPT ![r] = now]
        /\ Goto(r, "sent")
        /\ UNCHANGED <<now, reachable, snapshot, available, probed>>

Reset(r) == /\ Goto(r, "idle")
            /\ available' = [available EXCEPT ![r] = FALSE]
            /\ probed' = [probed EXCEPT ![r] = 0]
            /\ uptime' = [uptime EXCEPT ![r] = 0]
            /\ replied' = [replied EXCEPT ![r] = 0]
            /\ UNCHANGED <<now, reachable, snapshot, startTime>>

Done(r) == pc[r] = "sent" /\ Reset(r)

\* The client leaves during one of the two awaits: nothing is written.
Disconnect(r) == pc[r] \in {"probe", "lookup"} /\ Reset(r)

\* A lookup ends within its timeout, and nothing else between the probe's
\* answer and the reply takes time.
Tick == /\ now < MaxTime
        /\ \A r \in Requests : /\ pc[r] = "lookup" => now - probed[r] < LookupLimit
                               /\ pc[r] # "uptime"
        /\ now' = now + 1
        /\ UNCHANGED <<reachable, snapshot, startTime, pc, available, probed, uptime, replied>>

Toggle == /\ reachable' = ~reachable
          /\ UNCHANGED <<now, snapshot, startTime, pc, available, probed, uptime, replied>>

Next == \/ \E r \in Requests : \/ Reuse(r) \/ BeginProbe(r) \/ EndProbe(r)
                               \/ WriteSnapshot(r) \/ ReportUptime(r)
                               \/ Done(r) \/ Disconnect(r)
        \/ Tick \/ Toggle

Spec == Init /\ [][Next]_vars

-----------------------------------------------------------------------------
(* Properties *)

\* However requests overlap and overwrite each other's snapshots, no answer
\* about JP is older than the snapshot's ttl plus the time a version lookup may
\* take between the probe and the stamp.
AnswerAge == \A r \in Requests :
    pc[r] \in {"uptime", "sent"} => replied[r] - probed[r] < SnapshotTtl + LookupLimit

\* "Records the process start time for the health uptime field"
\* (handlers.rs:39): the uptime reported counts from the start of the process.
UptimeFromStart == \A r \in Requests : pc[r] = "sent" => uptime[r] = replied[r]
=============================================================================
