--------------------------- MODULE MCCredentials ---------------------------
(***************************************************************************)
(* Credentials with two humans, an agent of theirs and one from the        *)
(* environment, and calls about them and about whoever is registered.      *)
(***************************************************************************)
EXTENDS Credentials, TLC

Human == [kind |-> "human", role |-> "admin", source |-> "db"]
MCStart == 1 :> Human @@ 2 :> Human @@ 3 :> [Human EXCEPT !.kind = "agent"]
                @@ 4 :> [kind |-> "agent", role |-> "admin", source |-> "env"]

Ask(op, caller, verb, about) == [op |-> op, caller |-> caller, verb |-> verb, about |-> about]
\* Revokes and rotations of the same and of different actors, by themselves and
\* by each other; registrations, retried and followed by a rotation; one operation
\* id for two requests; what is turned down: an agent as caller or as parent, an
\* actor from the environment, one that is not registered.
MCRequests ==
    11 :> {Ask("o1", 1, "revoke", 2), Ask("o3", 1, "revoke", 3), Ask(None, 1, "rotate", 3),
           Ask(None, 3, "rotate", 3), Ask(None, 1, "rotate", 1)}
    @@ 12 :> {Ask(None, 2, "rotate", 1), Ask("o2", 2, "revoke", 1),
              Ask("o3", 2, "registerHuman", None), Ask("o2", 1, "registerAgent", 2),
              Ask("o1", 1, "registerAgent", 3)}
    @@ 13 :> {Ask(None, 1, "rotate", 1), Ask(None, 1, "rotate", 3), Ask(None, 1, "rotate", 12),
              Ask("o1", 1, "revoke", 2), Ask("o2", 2, "revoke", 1),
              Ask("o3", 2, "registerHuman", None), Ask("o1", 2, "revoke", 4)}
============================================================================
