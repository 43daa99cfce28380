----------------------------- MODULE Workspaces -----------------------------
(***************************************************************************)
(* Workspaces, their members and their projects: createWorkspace,          *)
(* addWorkspaceMember, removeWorkspaceMember and createProject, statement  *)
(* by statement, beside each other.                                        *)
(*                                                                         *)
(* The member calls have no transaction: each SELECT shows what is         *)
(* committed then, and the last statement writes whatever has changed      *)
(* since.  The two creates insert and commit in one transaction; an insert *)
(* waits for an open transaction that has inserted an equal key.           *)
(***************************************************************************)
EXTENDS Integers, FiniteSets

CONSTANTS
    Actors,      \* those who can sign in
    Calls,       \* arrivals of a request; what a call creates has the call's name
    Home,        \* the workspace of the start
    Founders,    \* the roles in it
    Slugs, Ops,
    MaxMembers, MaxProjects,   \* the plan of every workspace
    Requests,    \* per call: what it may ask
    None         \* SQL NULL

Places == {Home} \cup Calls
Roles == {"admin", "member"}

\* The role omitted is "member".  ws: the workspace in the path, or in the header
\* of a request to create a project, which may be missing.
AddRequest == [verb : {"add"}, caller : Actors, ws : Places,
               actor : Actors \cup {"stranger"}, role : Roles]
RemoveRequest == [verb : {"remove"}, caller : Actors, ws : Places, actor : Actors]
WorkspaceRequest == [verb : {"createWorkspace"}, caller : Actors, slug : Slugs]
ProjectRequest == [verb : {"createProject"}, caller : Actors, ws : Places \cup {None},
                   slug : Slugs, op : Ops]
Request == AddRequest \cup RemoveRequest \cup WorkspaceRequest \cup ProjectRequest

\* The errors that are answered; the last one as internal_error.
Refusals == {"noWorkspace", "workspaceNotFound", "adminRequired", "memberNotFound",
             "actorNotFound", "lastAdmin", "slugConflict", "entitlementLimit",
             "idempotencyConflict", "operationExists"}

ASSUME WorkspacesAssumption ==
    /\ IsFiniteSet(Calls) /\ IsFiniteSet(Actors) /\ Home \notin Calls
    /\ MaxMembers \in Nat /\ MaxProjects \in Nat
    /\ Founders \in [Actors -> Roles \cup {None}] /\ None \notin Roles \cup Slugs \cup Places
    /\ \E a \in Actors : Founders[a] = "admin"
    /\ Cardinality({a \in Actors : Founders[a] # None}) <= MaxMembers
    /\ Requests \in [Calls -> SUBSET Request]
    /\ "stranger" \notin Actors

VARIABLES
    workspaces,  \* the committed workspaces table: the slug of each
    members,     \* the committed workspace_members table: the role of each
    projects,    \* the committed projects table and the workflow_columns of each
    receipts,    \* the committed operations table
    pc,          \* per call: where its handler stands
    req,         \* per call: what is asked
    scope,       \* per call: the workspace it is about
    role,        \* per call: what it has read of the role of the actor concerned
    stale,       \* per call: another call has written, since its reads, to the table
                 \* and the workspace that they were about (for the properties only)
    answer       \* per call: what the client was told

tables == <<workspaces, members, projects, receipts>>
vars == <<tables, pc, req, scope, role, stale, answer>>

NoProject == [slug |-> None]
NoReceipt == [req |-> None]
NoRequest == [verb |-> None]

Members(w) == {a \in Actors : members[w][a] # None}
Admins(w) == {a \in Actors : members[w][a] = "admin"}
ProjectsOf(w) == {p \in Calls : projects[p] # NoProject /\ projects[p].ws = w}

Verb(c) == req[c].verb
Creates(c) == Verb(c) \in {"createWorkspace", "createProject"}
\* What the request hash covers: the body, neither the caller nor the header.
Asked(c) == req[c].slug

\* The four columns of a new project and the moves between them, by position.
DefaultWorkflow ==
    [status |-> [i \in 0 .. 3 |-> CASE i = 0 -> "todo" [] i = 3 -> "done" [] OTHER -> "doing"],
     moves |-> {<<0, 1>>, <<1, 2>>, <<2, 3>>, <<3, 1>>}]

Init ==
    /\ workspaces = [w \in Places |-> IF w = Home THEN Home ELSE None]
    /\ members = [w \in Places |-> IF w = Home THEN Founders ELSE [a \in Actors |-> None]]
    /\ projects = [p \in Calls |-> NoProject]
    /\ receipts = [o \in Ops |-> NoReceipt]
    /\ pc = [c \in Calls |-> "idle"]
    /\ req = [c \in Calls |-> NoRequest]
    /\ scope = [c \in Calls |-> None]
    /\ role = [c \in Calls |-> None]
    /\ stale = [c \in Calls |-> FALSE]
    /\ answer = [c \in Calls |-> "none"]

(***************************************************************************)
(* Arrival and answer                                                      *)
(***************************************************************************)
FirstStep(q) == CASE q.verb = "createWorkspace" -> "slug"
                  [] q.verb = "createProject" -> "resolve"
                  [] OTHER -> "caller"

\* The routes of workspaces and their members go without workspaceAuth.
Submit(c, q) ==
    /\ pc[c] = "idle"
    /\ req' = [req EXCEPT ![c] = q]
    /\ scope' = [scope EXCEPT ![c] = CASE q.verb = "createWorkspace" -> c
                                       [] q.verb = "createProject" -> None
                                       [] OTHER -> q.ws]
    /\ pc' = [pc EXCEPT ![c] = FirstStep(q)]
    /\ UNCHANGED <<tables, role, stale, answer>>

Go(c, to) == pc' = [pc EXCEPT ![c] = to] /\ UNCHANGED <<tables, req, scope, role, stale, answer>>

Answer(c, ans) ==
    /\ pc' = [pc EXCEPT ![c] = "answered"]
    /\ answer' = [answer EXCEPT ![c] = ans]
    /\ UNCHANGED <<req, scope, role>>

Refuse(c, err) == Answer(c, err) /\ UNCHANGED <<tables, stale>>

\* The other calls that are about rows of the same kind in the same workspace.
Kindred(c) == {d \in Calls \ {c} : /\ pc[d] \notin {"idle", "answered"} /\ scope[d] = scope[c]
                                   /\ (Verb(d) = "createProject") = (Verb(c) = "createProject")}
Overtake(c) == stale' = [d \in Calls |-> stale[d] \/ d \in Kindred(c)]

(***************************************************************************)
(* workspaceAuth and assertWorkspaceAdmin                                  *)
(***************************************************************************)
Mine(c) == {w \in Places : members[w][req[c].caller] # None}
\* The workspaces that the caller, with or without a header, can mean.
Meant(c) == IF req[c].ws # None THEN Mine(c) \cap {req[c].ws} ELSE Mine(c)

Resolve(c) ==
    /\ pc[c] = "resolve"
    /\ \/ Cardinality(Meant(c)) # 1 /\ Refuse(c, "noWorkspace")
       \/ \E w \in Places :
            /\ Meant(c) = {w}
            /\ scope' = [scope EXCEPT ![c] = w]
            /\ pc' = [pc EXCEPT ![c] = "check"]
            /\ UNCHANGED <<tables, req, role, stale, answer>>

ReadCaller(c) ==
    /\ pc[c] = "caller"
    /\ LET mine == members[scope[c]][req[c].caller]
       IN  \/ mine = None /\ Refuse(c, "workspaceNotFound")
           \/ mine = "member" /\ Refuse(c, "adminRequired")
           \/ mine = "admin" /\ Go(c, "target")

(***************************************************************************)
(* addWorkspaceMember and removeWorkspaceMember                            *)
(***************************************************************************)

RoleNow(c) == IF req[c].actor \in Actors THEN members[scope[c]][req[c].actor] ELSE None

\* What is read from here on the write goes by.
ReadTarget(c) ==
    /\ pc[c] = "target"
    /\ role' = [role EXCEPT ![c] = RoleNow(c)]
    /\ stale' = [stale EXCEPT ![c] = FALSE]
    /\ pc' = [pc EXCEPT ![c] = IF Verb(c) = "remove"
                               THEN (IF RoleNow(c) = "admin" THEN "admins" ELSE "write")
                               ELSE (IF RoleNow(c) = None THEN "seats" ELSE "actor")]
    /\ UNCHANGED <<tables, req, scope, answer>>

\* Mutant: more than the plan allows, instead of as many.
Full_OffByOne(c) == Cardinality(Members(scope[c])) > MaxMembers
Full(c) == Cardinality(Members(scope[c])) >= MaxMembers

\* Only somebody new takes a seat.
ReadSeats(c) ==
    /\ pc[c] = "seats"
    /\ \/ Full(c) /\ Refuse(c, "entitlementLimit")
       \/ ~Full(c) /\ Go(c, "actor")

\* Actors are never deleted.
ReadActor(c) ==
    /\ pc[c] = "actor"
    /\ \/ req[c].actor \notin Actors /\ Refuse(c, "actorNotFound")
       \/ /\ req[c].actor \in Actors
          /\ Go(c, IF req[c].role = "member" /\ role[c] = "admin" THEN "admins" ELSE "write")

\* Mutant: refused only when no administrator is found at all.
LastAdmin_OffByOne(c) == Cardinality(Admins(scope[c])) < 1
LastAdmin(c) == Cardinality(Admins(scope[c])) <= 1

CountAdmins(c) ==
    /\ pc[c] = "admins"
    /\ \/ LastAdmin(c) /\ Refuse(c, "lastAdmin")
       \/ ~LastAdmin(c) /\ Go(c, "write")

SetRole(c, r) == members' = [members EXCEPT ![scope[c]][req[c].actor] = r]

\* INSERT ... ON CONFLICT DO UPDATE: whoever has gone meanwhile is back.
Upsert(c) ==
    /\ pc[c] = "write" /\ Verb(c) = "add"
    /\ SetRole(c, req[c].role) /\ Overtake(c)
    /\ Answer(c, "ok")
    /\ UNCHANGED <<workspaces, projects, receipts>>

Delete(c) ==
    /\ pc[c] = "write" /\ Verb(c) = "remove"
    /\ \/ RoleNow(c) = None /\ Refuse(c, "memberNotFound")
       \/ /\ RoleNow(c) # None
          /\ SetRole(c, None) /\ Overtake(c)
          /\ Answer(c, "ok")
          /\ UNCHANGED <<workspaces, projects, receipts>>

(***************************************************************************)
(* createProject and createWorkspace                                       *)
(***************************************************************************)
Seen(c) == receipts[req[c].op] # NoReceipt
AnswerFromReceipt(c) ==
    /\ Seen(c)
    /\ Refuse(c, IF receipts[req[c].op].req = Asked(c) THEN "ok" ELSE "idempotencyConflict")

Check(c) == pc[c] = "check" /\ (AnswerFromReceipt(c) \/ (~Seen(c) /\ Go(c, "count")))

NoneLeft(c) == Cardinality(ProjectsOf(scope[c])) >= MaxProjects
CountProjects(c) ==
    /\ pc[c] = "count"
    /\ stale' = [stale EXCEPT ![c] = FALSE]
    /\ \/ NoneLeft(c) /\ Answer(c, "entitlementLimit")
       \/ /\ ~NoneLeft(c)
          /\ pc' = [pc EXCEPT ![c] = "slug"]
          /\ UNCHANGED <<req, scope, role, answer>>
    /\ UNCHANGED tables

\* Slugs are unique across workspaces, of projects as of workspaces.
Taken(c) == IF Verb(c) = "createProject"
            THEN \E p \in Calls : projects[p].slug = req[c].slug
            ELSE \E w \in Places : workspaces[w] = req[c].slug

\* Outside of the transaction and of the retry: the project found may be c's own.
ReadSlug(c) ==
    /\ pc[c] = "slug"
    /\ \/ Taken(c) /\ Refuse(c, "slugConflict")
       \/ ~Taken(c) /\ Go(c, "insert")

HasInserted(d) == Creates(d) /\ pc[d] \in {"record", "commit"}
\* The calls that c's next statement has to wait for.
Blockers(c) ==
    {d \in Calls \ {c} :
        \/ pc[c] = "insert" /\ HasInserted(d) /\ Verb(d) = Verb(c) /\ req[d].slug = req[c].slug
        \/ /\ pc[c] = "record" /\ pc[d] = "commit" /\ Verb(d) = "createProject"
           /\ req[d].op = req[c].op}
Free(c) == Blockers(c) = {}

\* A throw in the transaction; createWorkspace has nothing to look up again.
Abort(c, err) ==
    /\ pc' = [pc EXCEPT ![c] = IF Verb(c) = "createProject" THEN "recheck" ELSE "answered"]
    /\ answer' = [answer EXCEPT ![c] = err]
    /\ UNCHANGED <<tables, req, scope, role, stale>>

\* Mutant: the slug has no unique constraint.
Insert_NoConstraint(c) ==
    /\ pc[c] = "insert"
    /\ Go(c, IF Verb(c) = "createProject" THEN "record" ELSE "commit")
Insert(c) ==
    /\ pc[c] = "insert" /\ Free(c)
    /\ \/ Taken(c) /\ Abort(c, "slugConflict")
       \/ ~Taken(c) /\ Go(c, IF Verb(c) = "createProject" THEN "record" ELSE "commit")

Record(c) ==
    /\ pc[c] = "record" /\ Free(c)
    /\ \/ Seen(c) /\ Abort(c, "operationExists")
       \/ ~Seen(c) /\ Go(c, "commit")

CommitProject(c) ==
    /\ pc[c] = "commit" /\ Verb(c) = "createProject"
    /\ projects' = [projects EXCEPT ![c] = [slug |-> req[c].slug, ws |-> scope[c],
                                            workflow |-> DefaultWorkflow]]
    /\ receipts' = [receipts EXCEPT ![req[c].op] = [req |-> Asked(c)]]
    /\ Overtake(c)
    /\ Answer(c, "ok")
    /\ UNCHANGED <<workspaces, members>>

CommitWorkspace(c) ==
    /\ pc[c] = "commit" /\ Verb(c) = "createWorkspace"
    /\ workspaces' = [workspaces EXCEPT ![c] = req[c].slug]
    /\ members' = [members EXCEPT ![c][req[c].caller] = "admin"]
    /\ Overtake(c)
    /\ Answer(c, "ok")
    /\ UNCHANGED <<projects, receipts>>

Recheck(c) ==
    /\ pc[c] = "recheck"
    /\ AnswerFromReceipt(c) \/ (~Seen(c) /\ Refuse(c, answer[c]))

(***************************************************************************)
(* The environment                                                         *)
(***************************************************************************)
InFlight(c) == pc[c] \notin {"idle", "answered"}
\* The server dies: Postgres rolls back what is open, no call is answered.
Crash ==
    /\ \E c \in Calls : InFlight(c)
    /\ pc' = [c \in Calls |-> IF InFlight(c) THEN "answered" ELSE pc[c]]
    /\ answer' = [c \in Calls |-> IF InFlight(c) THEN "lost" ELSE answer[c]]
    /\ UNCHANGED <<tables, req, scope, role, stale>>

Handle(c) ==
    \/ Resolve(c) \/ ReadCaller(c) \/ ReadTarget(c) \/ ReadSeats(c) \/ ReadActor(c)
    \/ CountAdmins(c) \/ Upsert(c) \/ Delete(c)
    \/ Check(c) \/ CountProjects(c) \/ ReadSlug(c) \/ Insert(c) \/ Record(c)
    \/ CommitProject(c) \/ CommitWorkspace(c) \/ Recheck(c)

Next ==
    \/ \E c \in Calls : \E q \in Requests[c] : Submit(c, q)
    \/ \E c \in Calls : Handle(c)
    \/ Crash

Spec == Init /\ [][Next]_vars

(***************************************************************************)
(* What is promised                                                        *)
(***************************************************************************)
Steps == {"idle", "resolve", "caller", "target", "seats", "actor", "admins", "write", "check",
          "count", "slug", "insert", "record", "commit", "recheck", "answered"}

\* Every variable has its type; only a workspace that exists has members and
\* projects, and no two workspaces and no two projects share a slug, however the
\* creates race.
WsTypeOK ==
    /\ workspaces \in [Places -> Slugs \cup {Home, None}]
    /\ members \in [Places -> [Actors -> Roles \cup {None}]]
    /\ \A w \in Places : workspaces[w] = None => Members(w) = {} /\ ProjectsOf(w) = {}
    /\ \A v, w \in Places : workspaces[v] = workspaces[w] => v = w \/ workspaces[v] = None
    /\ \A p, q \in Calls : projects[p].slug = projects[q].slug => p = q \/ projects[p] = NoProject
    /\ pc \in [Calls -> Steps] /\ stale \in [Calls -> BOOLEAN]
    /\ role \in [Calls -> Roles \cup {None}]
    /\ answer \in [Calls -> Refusals \cup {"none", "ok", "lost"}]

\* Calls to change the members or the projects of w that went by reads which were
\* out of date when they wrote.
Overtaken(w, verbs) == {c \in Calls : /\ answer[c] = "ok" /\ stale[c]
                                      /\ scope[c] = w /\ Verb(c) \in verbs}

\* "Cannot remove the last admin" (the tool's description), by removal, by a change
\* of role or by oneself: a workspace is left without an administrator only by a
\* removal or a demotion that another change of its members has overtaken.
AdminRemainsUnlessOvertaken ==
    \A w \in Places : workspaces[w] # None =>
        Admins(w) # {} \/ Overtaken(w, {"add", "remove"}) # {}

\* The plan's limits hold: a workspace has more members or more projects than its
\* plan allows only if an addition was overtaken by another.
LimitsHoldUnlessOvertaken ==
    \A w \in Places :
        /\ Cardinality(Members(w)) > MaxMembers => Overtaken(w, {"add"}) # {}
        /\ Cardinality(ProjectsOf(w)) > MaxProjects => Overtaken(w, {"createProject"}) # {}

\* "Idempotent via operation_id" (createProject): an operation makes one project,
\* whatever is retried beside it, and whoever is told ok of it finds that project,
\* with the slug that was asked for.
OneProjectPerOperation ==
    \A c \in Calls : Verb(c) = "createProject" /\ answer[c] = "ok" =>
        LET made == {p \in Calls : projects[p] # NoProject /\ req[p].op = req[c].op}
        IN  Cardinality(made) = 1 /\ \A p \in made : projects[p].slug = req[c].slug

\* Members and projects are added within the plan, and each as asked for.
AdditionsAreSound == LimitsHoldUnlessOvertaken /\ OneProjectPerOperation
============================================================================
