------------------------------ MODULE MCProcess ------------------------------
EXTENDS Process

(* What the layers hold: nothing; a copy of .env.example; a full           *)
(* configuration; one whose key is too short; the credentials alone, with  *)
(* a full URL without its last slash; a blank device UUID; a bind address  *)
(* that is a name, and a port that is none.                                *)

None    == [s \in Setting |-> "unset"]
Example == [s \in Setting |-> CASE s \in Credential -> "blank" [] s = "base" -> "host" [] OTHER -> "good"]
Full    == [Example EXCEPT !["uid"] = "good", !["uuid"] = "good", !["key"] = "good", !["iv"] = "good"]
ShortKey == [None EXCEPT !["key"] = "bad", !["base"] = "url"]
Url      == [None EXCEPT !["base"] = "url"]
NoDevice == [None EXCEPT !["uuid"] = "blank"]
ByName   == [None EXCEPT !["host"] = "bad", !["port"] = "bad", !["prefix"] = "blank"]

MCLayers == {None, Example, Full, ShortKey, Url, NoDevice, ByName}
=============================================================================
