------------------------------- MODULE Process -------------------------------
(***************************************************************************)
(* The life of the server process: config.rs (settings from the            *)
(* environment, .env.local and .env), main.rs (start, graceful shutdown)   *)
(* and the restart policy of docker-compose.yml.  Operator, signals and    *)
(* the supervisor are the environment.                                     *)
(*                                                                         *)
(* A setting is "unset", "blank", "good" or "bad" in a layer; a key or IV  *)
(* is good if it has 16 bytes, a host if it is an IP address, a port if it *)
(* is a number, a prefix if axum can nest a router under it.               *)
(* The base URL has the values that to_base_url tells apart.               *)
(***************************************************************************)
EXTENDS Integers, FiniteSets

CONSTANTS
  Client,        \* clients of the HTTP server, one request each at a time
  Layers,        \* what the operator puts into a layer of settings: a bound
  MaxCrashes,    \* bounds how often the process is killed or fails
  MaxEdits       \* bounds how often the operator changes a layer

Credential  == {"uid", "uuid", "key", "iv"}
Setting     == Credential \cup {"base", "host", "port", "prefix"}
Base        == {"host", "host/", "url", "url/"}
Value       == Base \cup {"unset", "blank", "good", "bad"}
Layer       == [Setting -> Value]

ASSUME ProcessAssumption ==
  /\ Layers \subseteq Layer
  /\ MaxCrashes \in Nat /\ MaxEdits \in Nat

VARIABLES
  layers,     \* the environment, .env.local and .env, in order of precedence
  phase,      \* "down", "configured", "serving" or "draining"
  config,     \* the Config the process runs with
  wanted,     \* the operator wants the container up
  request,    \* each client's request
  crashes, edits

vars == <<layers, phase, config, wanted, request, crashes, edits>>

-----------------------------------------------------------------------------
(* config.rs.  dotenvy sets a variable only if it is not set, so the first *)
(* layer that mentions a setting decides, even if it is blank there.       *)

Lookup(s) ==
  CASE layers[1][s] # "unset" -> layers[1][s]
    [] layers[1][s] = "unset" /\ layers[2][s] # "unset" -> layers[2][s]
    [] OTHER -> layers[3][s]

\* to_string; "" stands for an empty text.
Text(s, fallback) == IF Lookup(s) \in {"unset", "blank"} THEN fallback ELSE Lookup(s)

\* parse_or: what does not parse is the default, without a word.
ParseOr(s, fallback) == IF Lookup(s) = "good" THEN "good" ELSE fallback

\* mutant: a full URL is taken as it is.
BaseUrlAsGiven(raw) ==
  CASE raw = ""                -> [url |-> "", slash |-> FALSE]
    [] raw \in {"url", "url/"} -> [url |-> "url", slash |-> raw = "url/"]
    [] OTHER                   -> [url |-> "https://host/api", slash |-> TRUE]

to_base_url(raw) ==
  CASE raw = ""                -> [url |-> "", slash |-> FALSE]
    [] raw \in {"url", "url/"} -> [url |-> "url", slash |-> TRUE]
    [] OTHER                   -> [url |-> "https://host/api", slash |-> TRUE]

NoServer == [base |-> [url |-> "", slash |-> FALSE], uid |-> "", uuid |-> "", key |-> "", iv |-> ""]

\* mutant: no credential counts as a missing one.
DisabledWithoutBase == Text("base", "") = ""

Disabled == Text("base", "") = "" \/ \A s \in Credential : Text(s, "") = ""

\* mutant: the keys are not measured.
IncompleteOnly == \E s \in Credential : Text(s, "") = ""

\* MissingField and CipherLength.
Invalid ==
  \/ \E s \in Credential : Text(s, "") = ""
  \/ \E s \in {"key", "iv"} : Text(s, "") # "good"

Server ==
  IF Disabled THEN NoServer
  ELSE [base |-> to_base_url(Text("base", "")), uid |-> Text("uid", ""), uuid |-> Text("uuid", ""),
        key |-> Text("key", ""), iv |-> Text("iv", "")]

FromEnv ==
  [server |-> Server, host |-> Text("host", "good"), port |-> ParseOr("port", "default"),
   prefix |-> Text("prefix", "good")]

-----------------------------------------------------------------------------
Free == [c \in Client |-> "none"]

\* What a process that is gone leaves behind.
Dropped == [c \in Client |-> IF request[c] = "pending" THEN "lost" ELSE request[c]]

Init ==
  /\ layers \in [1 .. 3 -> Layers]
  /\ phase = "down" /\ wanted = TRUE
  /\ config = [server |-> NoServer, host |-> "good", port |-> "default", prefix |-> "good"]
  /\ request = Free /\ crashes = 0 /\ edits = 0

\* The supervisor or the operator starts the process and it reads its settings.
Configure ==
  /\ phase = "down" /\ wanted
  /\ Disabled \/ ~Invalid
  /\ phase' = "configured"
  /\ config' = FromEnv
  /\ UNCHANGED <<layers, wanted, request, crashes, edits>>

\* unwrap_or_exit: the process ends and is started again.
ConfigurationError ==
  /\ phase = "down" /\ wanted
  /\ ~Disabled /\ Invalid
  /\ UNCHANGED vars

\* main binds the address, builds the router and serves.
Serve ==
  /\ phase = "configured"
  /\ config.host = "good" /\ config.prefix = "good"
  /\ phase' = "serving"
  /\ UNCHANGED <<layers, config, wanted, request, crashes, edits>>

\* The address does not parse (a name is none) or the prefix cannot be nested.
StartPanics ==
  /\ phase = "configured"
  /\ config.host # "good" \/ config.prefix # "good"
  /\ phase' = "down"
  /\ UNCHANGED <<layers, config, wanted, request, crashes, edits>>

Accept(c) ==
  /\ phase = "serving" /\ request[c] # "pending"
  /\ request' = [request EXCEPT ![c] = "pending"]
  /\ UNCHANGED <<layers, phase, config, wanted, crashes, edits>>

Answer(c) ==
  /\ phase \in {"serving", "draining"} /\ request[c] = "pending"
  /\ request' = [request EXCEPT ![c] = "answered"]
  /\ UNCHANGED <<layers, phase, config, wanted, crashes, edits>>

\* SIGTERM or ctrl-c while serving: shutdown_signal ends, nothing is accepted.
Signal ==
  /\ phase = "serving"
  /\ phase' = "draining"
  /\ UNCHANGED <<layers, config, wanted, request, crashes, edits>>

\* mutant: axum::serve returns while requests are being answered.
DrainedAtOnce ==
  /\ phase = "draining"
  /\ phase' = "down"
  /\ UNCHANGED <<layers, config, wanted, request, crashes, edits>>

\* axum::serve returns when no request is left, main ends.
Drained ==
  /\ phase = "draining"
  /\ \A c \in Client : request[c] # "pending"
  /\ phase' = "down"
  /\ UNCHANGED <<layers, config, wanted, request, crashes, edits>>

\* The process is killed, its port is taken, its HTTP client cannot be built,
\* a signal comes before its handler is there.
Crash ==
  /\ phase # "down" /\ crashes < MaxCrashes
  /\ phase' = "down"
  /\ crashes' = crashes + 1
  /\ request' = Dropped
  /\ UNCHANGED <<layers, config, wanted, edits>>

\* docker stop: a signal, or the end of a process that is not serving yet; the
\* policy "unless-stopped" does not start it again.
Stop ==
  /\ wanted
  /\ wanted' = FALSE
  /\ phase' = IF phase \in {"serving", "draining"} THEN "draining" ELSE "down"
  /\ UNCHANGED <<layers, config, request, crashes, edits>>

StartAgain == ~wanted /\ wanted' = TRUE /\ UNCHANGED <<layers, phase, config, request, crashes, edits>>

\* A file changes at any time, the environment only between two processes.
Edit(i, layer) ==
  /\ edits < MaxEdits
  /\ i = 1 => phase = "down"
  /\ layers' = [layers EXCEPT ![i] = layer]
  /\ edits' = edits + 1
  /\ UNCHANGED <<phase, config, wanted, request, crashes>>

Next ==
  \/ Configure \/ ConfigurationError \/ Serve \/ StartPanics
  \/ Signal \/ Drained \/ Crash \/ Stop \/ StartAgain
  \/ \E c \in Client : Accept(c) \/ Answer(c)
  \/ \E i \in 1 .. 3, layer \in Layers : Edit(i, layer)

\* The supervisor starts what is wanted, main goes on, and a request ends: its
\* calls of the game have a timeout.
Fairness ==
  /\ WF_vars(Configure) /\ WF_vars(Serve) /\ WF_vars(StartPanics) /\ WF_vars(Drained)
  /\ \A c \in Client : WF_vars(Answer(c))

Spec == Init /\ [][Next]_vars /\ Fairness

-----------------------------------------------------------------------------
TypeOK ==
  /\ layers \in [1 .. 3 -> Layers]
  /\ phase \in {"down", "configured", "serving", "draining"}
  /\ wanted \in BOOLEAN
  /\ request \in [Client -> {"none", "pending", "answered", "lost"}]
  /\ crashes \in 0 .. MaxCrashes /\ edits \in 0 .. MaxEdits

\* A process that takes requests either has no game server at all or has all
\* that a call needs: an id, a device, a key and an IV that the cipher takes
\* (Decryptor::new panics on another length), and a base URL that paths can be
\* appended to.  However the layers were edited, no mixture of them is served
\* and none is kept from an earlier start.  config.rs 124-200, crypto.rs 29.
Complete(server) ==
  \/ server = NoServer
  \/ /\ server.base.slash /\ server.base.url # ""
     /\ server.uid # "" /\ server.uuid # ""
     /\ server.key = "good" /\ server.iv = "good"

ServesOnlyComplete ==
  phase \in {"serving", "draining"} =>
    /\ Complete(config.server)
    /\ config.host = "good" /\ config.prefix = "good"

\* The parts of it that no step breaks: a process past Configure has a complete
\* game server or none, and one that took its address serves; a request waits
\* only for a process that is up.
ConfigIsComplete == phase # "down" => Complete(config.server)
PendingHasProcess == \A c \in Client : request[c] = "pending" => phase \in {"serving", "draining"}
IInv == TypeOK /\ ConfigIsComplete /\ ServesOnlyComplete /\ PendingHasProcess

\* A request the process accepted is answered, unless the process is killed: a
\* shutdown waits for it.  main.rs 59-62.
AcceptedIsAnswered ==
  \A c \in Client : request[c] = "pending" ~> request[c] \in {"answered", "lost"}

\* What an operator may leave or must give: no base, no credential at all (a
\* fresh copy of .env.example), or all of them, the key and the IV with 16 bytes.
Sound ==
  /\ \/ Lookup("base") \in {"unset", "blank"}
     \/ \A s \in Credential : Lookup(s) \in {"unset", "blank"}
     \/ /\ \A s \in Credential : Lookup(s) \in {"good", "bad"}
        /\ Lookup("key") = "good" /\ Lookup("iv") = "good"
  /\ Lookup("host") # "bad" /\ Lookup("prefix") # "bad"

\* If from some time on the settings are sound and the operator wants the
\* container up, it comes up again after every crash and every signal and does
\* not exit over and over.  config.rs 138-148, docker-compose.yml.
ComesUpAgain == <>[](Sound /\ wanted) => []<>(phase = "serving")

=============================================================================
