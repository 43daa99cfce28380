---------------------------- MODULE MCEventStream ----------------------------
(***************************************************************************)
(* EventStream with three events of a project and another that has none.   *)
(***************************************************************************)
EXTENDS EventStream, TLC

MCProject == "e1" :> "p" @@ "e2" :> "p" @@ "e3" :> "p"
\* A project that has no event yet.
MCOneProject == "e1" :> "p"
==============================================================================
