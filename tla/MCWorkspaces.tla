---------------------------- MODULE MCWorkspaces ----------------------------
(***************************************************************************)
(* Workspaces with two administrators, a member and two who are outside,   *)
(* one seat and two projects left.                                         *)
(***************************************************************************)
EXTENDS Workspaces, TLC

MCFounders == "ann" :> "admin" @@ "bob" :> "admin" @@ "cyd" :> "member"
              @@ "dee" :> None @@ "eve" :> None

Add(caller, ws, actor, r) ==
    [verb |-> "add", caller |-> caller, ws |-> ws, actor |-> actor, role |-> r]
Remove(caller, ws, actor) ==
    [verb |-> "remove", caller |-> caller, ws |-> ws, actor |-> actor]
NewWorkspace(caller, slug) == [verb |-> "createWorkspace", caller |-> caller, slug |-> slug]
NewProject(caller, ws, slug, op) ==
    [verb |-> "createProject", caller |-> caller, ws |-> ws, slug |-> slug, op |-> op]

\* Removals and changes of role of and by each other, additions to the last seat,
\* projects with and without a header, retried or with a slug in use, and two
\* workspaces of one slug, the first of which is then shared.
MCRequests ==
    "c1" :> {Remove("ann", "home", "bob"), Add("ann", "home", "ann", "member"),
             Add("bob", "home", "dee", "member"), NewWorkspace("ann", "s1"),
             NewProject("cyd", None, "s1", "o1"), NewProject("dee", "home", "s2", "o2")}
    @@ "c2" :> {Remove("bob", "home", "ann"), Add("bob", "home", "bob", "member"),
                Add("ann", "home", "eve", "admin"), Add("ann", "home", "cyd", "admin"),
                NewWorkspace("eve", "s1"), NewProject("cyd", "home", "s1", "o1"),
                NewProject("bob", "home", "s2", "o2")}
    @@ "c3" :> {Remove("bob", "home", "cyd"), Remove("ann", "home", "dee"),
                Add("ann", "home", "cyd", "member"), Add("cyd", "home", "eve", "member"),
                Add("ann", "c1", "stranger", "member"), Remove("ann", "c1", "ann"),
                NewProject("ann", None, "s3", "o3"), NewProject("bob", "home", "s2", "o1")}
============================================================================
