--------------------------- MODULE MCActivityFeed ---------------------------
(***************************************************************************)
(* ActivityFeed with two events of one project, more than a load returns,  *)
(* and another project that has none.                                      *)
(***************************************************************************)
EXTENDS ActivityFeed, TLC

MCProject == "e1" :> "p" @@ "e2" :> "p"
Alike == Permutations(Loads) \cup Permutations(Conns)
============================================================================
