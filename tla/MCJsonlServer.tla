--------------------------- MODULE MCJsonlServer ---------------------------
(* Settings that tell the paths of the Gatekeeper apart.                   *)
EXTENDS JsonlServer

Choice(auth, users, jsonl) ==
  [enable_auth |-> auth, enable_users |-> TRUE, db |-> users, enable_jsonl |-> jsonl]

SomeSettings == {Choice(TRUE, Users, TRUE), Choice(FALSE, {Admin}, FALSE)}
=============================================================================
