------------------------- MODULE WorkspacesProofs -------------------------
(***************************************************************************)
(* Theorems about Workspaces, for every set of actors, calls, slugs,       *)
(* operations and requests and for every plan: its types, that an          *)
(* administrator remains, and that additions keep to the plan and to what  *)
(* was asked for, unless a write was overtaken.                            *)
(***************************************************************************)
EXTENDS Workspaces, FiniteSetTheorems, TLAPS

(***************************************************************************)
(* The inductive invariant.  What a call has read is still so when it      *)
(* writes, or it is stale; what it has inserted nobody else has.           *)
(***************************************************************************)
Project == [slug : Slugs, ws : Places, workflow : {DefaultWorkflow}]
Made(p) == projects[p] # NoProject

Types ==
    /\ workspaces \in [Places -> Slugs \cup {Home, None}]
    /\ members \in [Places -> [Actors -> Roles \cup {None}]]
    /\ projects \in [Calls -> Project \cup {NoProject}]
    /\ receipts \in [Ops -> [req : Slugs] \cup {NoReceipt}]
    /\ pc \in [Calls -> Steps]
    /\ req \in [Calls -> Request \cup {NoRequest}]
    /\ scope \in [Calls -> Places \cup {None}]
    /\ role \in [Calls -> Roles \cup {None}]
    /\ stale \in [Calls -> BOOLEAN]
    /\ answer \in [Calls -> Refusals \cup {"none", "ok", "lost"}]

MemberSteps == {"caller", "target", "seats", "actor", "admins", "write"}
CreateSteps == {"slug", "insert", "commit"}
ProjectSteps == {"check", "count", "record", "recheck"}

\* The handler that stands at each step, and the workspace it has come to.
OfItsVerb(c) ==
    /\ pc[c] # "idle" => req[c] \in Request
    /\ pc[c] = "resolve" => req[c] \in ProjectRequest
    /\ pc[c] \in MemberSteps => req[c] \in AddRequest \cup RemoveRequest /\ scope[c] \in Places
    /\ pc[c] \in {"seats", "actor"} => req[c] \in AddRequest
    /\ pc[c] \in {"admins", "write"} => req[c].actor \in Actors
    /\ pc[c] \in CreateSteps => req[c] \in WorkspaceRequest \cup ProjectRequest
    /\ pc[c] \in ProjectSteps => req[c] \in ProjectRequest
    /\ pc[c] \in CreateSteps /\ Verb(c) = "createWorkspace" => scope[c] = c
    /\ pc[c] \in (MemberSteps \ {"caller"}) \cup ProjectSteps
          \/ (pc[c] \in CreateSteps /\ Verb(c) = "createProject")
       => scope[c] \in Places /\ workspaces[scope[c]] # None

\* What c has read about the members of its workspace.
Demotes(c) == role[c] = "admin" /\ (Verb(c) = "remove" \/ req[c].role = "member")
KnowsMembers(c) ==
    /\ pc[c] \in {"seats", "actor", "admins", "write"} /\ ~stale[c] => role[c] = RoleNow(c)
    /\ pc[c] \in {"actor", "admins", "write"} /\ Verb(c) = "add" /\ role[c] = None /\ ~stale[c]
       => Cardinality(Members(scope[c])) < MaxMembers
    /\ pc[c] = "write" /\ Demotes(c) /\ ~stale[c]
       => \E a \in Actors \ {req[c].actor} : members[scope[c]][a] = "admin"

\* What c has read and inserted for a create.
KnowsProjects(c) ==
    pc[c] \in CreateSteps \cup {"record"} /\ Verb(c) = "createProject" /\ ~stale[c]
    => Cardinality(ProjectsOf(scope[c])) < MaxProjects

HasTheSlug(c) ==
    HasInserted(c) =>
        /\ ~Taken(c)
        /\ \A d \in Calls \ {c} : HasInserted(d) /\ Verb(d) = Verb(c) => req[d].slug # req[c].slug

Recording(c) == pc[c] = "commit" /\ Verb(c) = "createProject"
RecordsAlone(c) ==
    Recording(c) => /\ ~Seen(c)
                    /\ \A d \in Calls \ {c} : Recording(d) => req[d].op # req[c].op

\* Whoever is told ok has been handled, and of a project has a receipt.
ToldByReceipt(c) ==
    answer[c] = "ok" =>
        /\ pc[c] = "answered"
        /\ Verb(c) = "createProject" =>
              receipts[req[c].op] # NoReceipt /\ receipts[req[c].op].req = req[c].slug

CallIsSound(c) == /\ OfItsVerb(c) /\ KnowsMembers(c) /\ KnowsProjects(c)
                  /\ HasTheSlug(c) /\ RecordsAlone(c) /\ ToldByReceipt(c)

\* Rows are made by calls that have ended.
WorkspaceIsKept(w) ==
    /\ workspaces[w] = None => Members(w) = {} /\ ProjectsOf(w) = {}
    /\ w \in Calls /\ workspaces[w] # None => pc[w] = "answered"

ProjectIsKept(p) ==
    Made(p) => /\ pc[p] = "answered" /\ req[p] \in ProjectRequest
               /\ projects[p].slug = req[p].slug /\ receipts[req[p].op] # NoReceipt

ReceiptIsKept(o) ==
    receipts[o] # NoReceipt =>
        \E p \in Calls : Made(p) /\ req[p].op = o /\ projects[p].slug = receipts[o].req

SlugsAreUnique ==
    /\ \A v, w \in Places : workspaces[v] = workspaces[w] => v = w \/ workspaces[v] = None
    /\ \A p, q \in Calls : projects[p].slug = projects[q].slug => p = q \/ projects[p] = NoProject

MadeOnce == \A p, q \in Calls : Made(p) /\ Made(q) /\ req[p].op = req[q].op => p = q

IInv ==
    /\ Types
    /\ \A c \in Calls : CallIsSound(c) /\ ProjectIsKept(c)
    /\ \A w \in Places : WorkspaceIsKept(w)
    /\ \A o \in Ops : ReceiptIsKept(o)
    /\ SlugsAreUnique /\ MadeOnce
    /\ AdminRemainsUnlessOvertaken /\ LimitsHoldUnlessOvertaken

(***************************************************************************)
(* Facts about the shapes and about finite sets                            *)
(***************************************************************************)

\* What a request asks for has the types of its verb.
LEMMA RequestShape ==
  /\ \A q \in AddRequest : /\ q.verb = "add" /\ q.caller \in Actors /\ q.ws \in Places
                           /\ q.actor \in Actors \cup {"stranger"} /\ q.role \in Roles
  /\ \A q \in RemoveRequest : q.verb = "remove" /\ q.caller \in Actors /\ q.ws \in Places /\ q.actor \in Actors
  /\ \A q \in WorkspaceRequest : q.verb = "createWorkspace" /\ q.caller \in Actors /\ q.slug \in Slugs
  /\ \A q \in ProjectRequest : /\ q.verb = "createProject" /\ q.caller \in Actors
                               /\ q.ws \in Places \cup {None} /\ q.slug \in Slugs /\ q.op \in Ops
  BY DEF AddRequest, RemoveRequest, WorkspaceRequest, ProjectRequest

LEMMA VerbsTellRequests ==
  ASSUME NEW q \in Request
  PROVE  /\ q.verb \in {"add", "remove", "createWorkspace", "createProject"}
         /\ q.verb = "add" => q \in AddRequest
         /\ q.verb = "remove" => q \in RemoveRequest
         /\ q.verb = "createWorkspace" => q \in WorkspaceRequest
         /\ q.verb = "createProject" => q \in ProjectRequest
  BY RequestShape DEF Request

LEMMA ProjectShape ==
  ASSUME NEW p \in Project
  PROVE  p # NoProject /\ p.slug \in Slugs /\ p.ws \in Places /\ p.slug # None
  <1>1. DOMAIN p = {"slug", "ws", "workflow"} /\ DOMAIN NoProject = {"slug"}
    BY DEF Project, NoProject
  <1> QED BY <1>1, WorkspacesAssumption DEF Project

LEMMA ReceiptShape ==
  ASSUME NEW r \in [req : Slugs]
  PROVE  r # NoReceipt /\ r.req \in Slugs
  BY WorkspacesAssumption DEF NoReceipt

\* The sets whose sizes are compared are finite.
LEMMA FiniteParts ==
  ASSUME NEW w \in Places
  PROVE  /\ IsFiniteSet(Members(w)) /\ IsFiniteSet(Admins(w)) /\ IsFiniteSet(ProjectsOf(w))
         /\ Cardinality(Members(w)) \in Nat /\ Cardinality(ProjectsOf(w)) \in Nat
  <1>1. Members(w) \subseteq Actors /\ Admins(w) \subseteq Actors /\ ProjectsOf(w) \subseteq Calls
    BY DEF Members, Admins, ProjectsOf
  <1> QED BY <1>1, WorkspacesAssumption, FS_Subset, FS_CardinalityType

\* If there is more than one administrator there is another one.
LEMMA AnotherAdmin ==
  ASSUME NEW w \in Places, NEW b, ~(Cardinality(Admins(w)) <= 1)
  PROVE  \E a \in Actors \ {b} : members[w][a] = "admin"
  <1> SUFFICES ASSUME Admins(w) \subseteq {b} PROVE FALSE
    BY DEF Admins
  <1>1. IsFiniteSet({b}) /\ Cardinality({b}) = 1
    BY FS_Singleton
  <1>2. Cardinality(Admins(w)) <= 1
    BY <1>1, FS_Subset
  <1> QED BY <1>2

\* Who has written by reads out of date stays among those who have.
LEMMA OvertakenStay ==
  ASSUME NEW w, NEW verbs,
         \A d \in Calls : answer[d] = "ok" => /\ answer'[d] = "ok" /\ req'[d] = req[d]
                                              /\ scope'[d] = scope[d] /\ (stale[d] => stale'[d])
  PROVE  Overtaken(w, verbs) # {} => Overtaken(w, verbs)' # {}
  <1> SUFFICES ASSUME NEW d \in Overtaken(w, verbs) PROVE d \in Overtaken(w, verbs)'
    OBVIOUS
  <1> QED BY DEF Overtaken, Verb

LEMMA InitEstablishesIInv == Init => IInv
  <1> SUFFICES ASSUME Init PROVE IInv
    OBVIOUS
  <1> USE DEF Init
  <1>1. Types
    BY WorkspacesAssumption DEF Types, Places, Steps
  <1>2. ASSUME NEW c \in Calls
        PROVE  CallIsSound(c) /\ ProjectIsKept(c)
    BY DEF CallIsSound, OfItsVerb, KnowsMembers, KnowsProjects, HasTheSlug, HasInserted, RecordsAlone,
           Recording, ToldByReceipt, ProjectIsKept, Made, MemberSteps, CreateSteps, ProjectSteps
  <1>3. ASSUME NEW w \in Places
        PROVE  WorkspaceIsKept(w) /\ (workspaces[w] # None => w = Home) /\ ProjectsOf(w) = {}
    BY WorkspacesAssumption DEF WorkspaceIsKept, Members, ProjectsOf, Places
  <1>4. \A o \in Ops : ReceiptIsKept(o)
    BY DEF ReceiptIsKept
  <1>5. SlugsAreUnique /\ MadeOnce
    BY <1>3 DEF SlugsAreUnique, MadeOnce, Made
  <1>6. AdminRemainsUnlessOvertaken
    BY <1>3, WorkspacesAssumption DEF AdminRemainsUnlessOvertaken, Admins
  <1>7. ASSUME NEW w \in Places
        PROVE  Cardinality(Members(w)) <= MaxMembers /\ Cardinality(ProjectsOf(w)) <= MaxProjects
    <2>1. Cardinality(ProjectsOf(w)) <= MaxProjects
      <3>1. MaxProjects \in Nat /\ ProjectsOf(w) = {} /\ Cardinality({}) = 0
        BY <1>3, FS_EmptySet, WorkspacesAssumption
      <3> QED BY <3>1
    <2>2. CASE w = Home
      <3>1. Members(w) = {a \in Actors : Founders[a] # None}
        BY <2>2 DEF Members
      <3>2. Cardinality({a \in Actors : Founders[a] # None}) <= MaxMembers
        BY WorkspacesAssumption
      <3> QED BY <2>1, <3>1, <3>2
    <2>3. CASE w # Home
      <3>1. Members(w) = {}
        BY <2>3 DEF Members
      <3> QED BY <2>1, <3>1, FS_EmptySet, WorkspacesAssumption
    <2> QED BY <2>2, <2>3
  <1>8. LimitsHoldUnlessOvertaken
    BY <1>7, FiniteParts, WorkspacesAssumption DEF LimitsHoldUnlessOvertaken
  <1> QED BY <1>1, <1>2, <1>3, <1>4, <1>5, <1>6, <1>8 DEF IInv

(***************************************************************************)
(* Steps that write no table                                               *)
(***************************************************************************)

\* A step of c that writes no table keeps the invariant if it does for c.
LEMMA QuietStep ==
  ASSUME IInv, NEW c \in Calls, UNCHANGED tables, Types', pc[c] # "answered", CallIsSound(c)',
         \A d \in Calls \ {c} : /\ pc'[d] = pc[d] /\ req'[d] = req[d] /\ scope'[d] = scope[d]
                                /\ role'[d] = role[d] /\ stale'[d] = stale[d] /\ answer'[d] = answer[d]
  PROVE  IInv'
  <1> USE DEF IInv
  <1>1. \A w \in Places : Members(w)' = Members(w) /\ Admins(w)' = Admins(w) /\ ProjectsOf(w)' = ProjectsOf(w)
    BY DEF tables, Members, Admins, ProjectsOf
  <1>2. ~Made(c) /\ answer[c] # "ok" /\ (c \in Places => workspaces[c] = None)
    BY DEF CallIsSound, ToldByReceipt, ProjectIsKept, WorkspaceIsKept
  <1>3. ASSUME NEW d \in Calls \ {c}
        PROVE  CallIsSound(d)'
    <2>1. OfItsVerb(d)' /\ ToldByReceipt(d)'
      BY DEF CallIsSound, OfItsVerb, ToldByReceipt, Verb, tables
    <2>2. KnowsMembers(d)'
      BY <1>1, <2>1 DEF CallIsSound, KnowsMembers, RoleNow, Demotes, Verb, tables, OfItsVerb, MemberSteps
    <2>3. KnowsProjects(d)'
      <3>1. CreateSteps \cup {"record"} = {"slug", "insert", "commit", "record"}
        BY DEF CreateSteps
      <3> QED BY <1>1, <2>1, <3>1 DEF CallIsSound, KnowsProjects, Verb, OfItsVerb, CreateSteps, ProjectSteps
    <2>4. HasTheSlug(d)'
      BY DEF CallIsSound, HasTheSlug, HasInserted, Creates, Verb, Taken, tables
    <2>5. RecordsAlone(d)'
      BY DEF CallIsSound, RecordsAlone, Recording, Verb, Seen, tables
    <2> QED BY <2>1, <2>2, <2>3, <2>4, <2>5 DEF CallIsSound
  <1>4. ASSUME NEW d \in Calls
        PROVE  ProjectIsKept(d)'
    BY <1>2 DEF ProjectIsKept, Made, tables
  <1>5. ASSUME NEW w \in Places
        PROVE  WorkspaceIsKept(w)'
    BY <1>1, <1>2 DEF WorkspaceIsKept, tables
  <1>6. ASSUME NEW o \in Ops
        PROVE  ReceiptIsKept(o)'
    BY <1>2 DEF ReceiptIsKept, Made, tables
  <1>7. SlugsAreUnique' /\ MadeOnce'
    BY <1>2 DEF SlugsAreUnique, MadeOnce, Made, tables
  <1>8. \A d \in Calls : answer[d] = "ok" => /\ answer'[d] = "ok" /\ req'[d] = req[d]
                                             /\ scope'[d] = scope[d] /\ (stale[d] => stale'[d])
    BY <1>2
  <1>9. AdminRemainsUnlessOvertaken'
    BY <1>1, <1>8, OvertakenStay DEF AdminRemainsUnlessOvertaken, tables
  <1>10. LimitsHoldUnlessOvertaken'
    BY <1>1, <1>8, OvertakenStay DEF LimitsHoldUnlessOvertaken
  <1> QED BY <1>3, <1>4, <1>5, <1>6, <1>7, <1>9, <1>10

\* The same for a step that moves on with what c has, and for one that ends it or its
\* transaction.
LEMMA GoKeepsIInv ==
  ASSUME IInv, NEW c \in Calls, NEW to \in Steps, Go(c, to), pc[c] # "answered", CallIsSound(c)'
  PROVE  IInv'
  <1>1. Types'
    BY DEF IInv, Types, Go, tables
  <1> QED BY <1>1, QuietStep DEF Go, tables

LEMMA EndKeepsIInv ==
  ASSUME IInv, NEW c \in Calls, pc[c] \notin {"idle", "answered"},
         NEW to \in {"answered", "recheck"}, NEW e \in Refusals \cup {"none", "ok", "lost"},
         pc' = [pc EXCEPT ![c] = to], answer' = [answer EXCEPT ![c] = e],
         stale' \in [Calls -> BOOLEAN], \A d \in Calls \ {c} : stale'[d] = stale[d],
         to = "recheck" => pc[c] \in CreateSteps \cup ProjectSteps /\ Verb(c) = "createProject",
         e = "ok" => to = "answered" /\ Seen(c) /\ receipts[req[c].op].req = req[c].slug,
         UNCHANGED <<tables, req, scope, role>>
  PROVE  IInv'
  <1>1. Types'
    BY DEF IInv, Types, tables, Steps
  <1>2. pc'[c] = to /\ answer'[c] = e
    BY DEF IInv, Types
  <1>3. OfItsVerb(c)'
    <2>1. pc[c] # "idle" => req[c] \in Request
      BY DEF IInv, CallIsSound, OfItsVerb
    <2>2. to = "recheck" => req[c] \in ProjectRequest /\ scope[c] \in Places /\ workspaces[scope[c]] # None
      BY RequestShape, VerbsTellRequests DEF IInv, CallIsSound, OfItsVerb, Verb
    <2> QED BY <1>2, <2>1, <2>2 DEF OfItsVerb, MemberSteps, CreateSteps, ProjectSteps, tables
  <1>4. KnowsMembers(c)' /\ KnowsProjects(c)' /\ HasTheSlug(c)' /\ RecordsAlone(c)'
    BY <1>2 DEF KnowsMembers, KnowsProjects, HasTheSlug, HasInserted, RecordsAlone, Recording, CreateSteps
  <1>5. ToldByReceipt(c)'
    BY <1>2 DEF ToldByReceipt, Seen, tables
  <1> QED BY <1>1, <1>3, <1>4, <1>5, QuietStep DEF CallIsSound

LEMMA RefuseKeepsIInv ==
  ASSUME IInv, NEW c \in Calls, pc[c] \notin {"idle", "answered"}, NEW e \in Refusals, Refuse(c, e)
  PROVE  IInv'
  <1>1. e # "ok"
    BY DEF Refusals
  <1>2. stale' \in [Calls -> BOOLEAN] /\ stale' = stale
    BY DEF Refuse, IInv, Types
  <1> QED BY <1>1, <1>2, EndKeepsIInv DEF Refuse, Answer

LEMMA ReceiptStepKeepsIInv ==
  ASSUME IInv, NEW c \in Calls, pc[c] \notin {"idle", "answered"}, AnswerFromReceipt(c)
  PROVE  IInv'
  <1>1. CASE receipts[req[c].op].req = Asked(c)
    <2>1. Refuse(c, "ok") /\ Seen(c)
      BY <1>1 DEF AnswerFromReceipt
    <2>2. stale' \in [Calls -> BOOLEAN] /\ stale' = stale
      BY <2>1 DEF Refuse, IInv, Types
    <2> QED BY <1>1, <2>1, <2>2, EndKeepsIInv DEF Refuse, Answer, Asked
  <1>2. CASE receipts[req[c].op].req # Asked(c)
    <2>1. Refuse(c, "idempotencyConflict")
      BY <1>2 DEF AnswerFromReceipt
    <2> QED BY <2>1, RefuseKeepsIInv DEF Refusals
  <1> QED BY <1>1, <1>2

\* A transaction that fails leaves nothing of what it has inserted.
LEMMA AbortKeepsIInv ==
  ASSUME IInv, NEW c \in Calls, pc[c] \in CreateSteps \cup {"record"}, NEW e \in Refusals, Abort(c, e)
  PROVE  IInv'
  <1>1. e # "ok" /\ pc[c] \notin {"idle", "answered"} /\ pc[c] \in CreateSteps \cup ProjectSteps
    BY DEF Refusals, CreateSteps, ProjectSteps
  <1>2. stale' \in [Calls -> BOOLEAN] /\ stale' = stale
    BY DEF Abort, IInv, Types
  <1>3. CASE Verb(c) = "createProject"
    BY <1>1, <1>2, <1>3, EndKeepsIInv DEF Abort
  <1>4. CASE Verb(c) # "createProject"
    BY <1>1, <1>2, <1>4, EndKeepsIInv DEF Abort
  <1> QED BY <1>3, <1>4

(***************************************************************************)
(* The arrival, and what is read of the caller                             *)
(***************************************************************************)

LEMMA SubmitKeepsIInv ==
  ASSUME IInv, NEW c \in Calls, NEW q \in Requests[c], Submit(c, q)
  PROVE  IInv'
  <1>1. q \in Request /\ pc[c] = "idle"
    BY WorkspacesAssumption DEF Submit
  <1>2. FirstStep(q) \in Steps
    BY DEF FirstStep, Steps
  <1>3. req'[c] = q /\ pc'[c] = FirstStep(q)
    BY DEF Submit, IInv, Types
  <1>4. scope' \in [Calls -> Places \cup {None}] /\ scope'[c] = CASE q.verb = "createWorkspace" -> c
                                       [] q.verb = "createProject" -> None
                                       [] OTHER -> q.ws
    <2>1. c \in Places /\ (q.verb \notin {"createWorkspace", "createProject"} => q.ws \in Places)
      BY <1>1, RequestShape, VerbsTellRequests DEF Places
    <2> QED BY <2>1 DEF Submit, IInv, Types
  <1>5. Types'
    BY <1>1, <1>2, <1>4 DEF Submit, IInv, Types, tables
  <1>6. OfItsVerb(c)'
    <2>1. CASE q.verb = "createWorkspace"
      BY <1>1, <1>3, <1>4, <2>1, VerbsTellRequests
         DEF FirstStep, OfItsVerb, Verb, MemberSteps, CreateSteps, ProjectSteps
    <2>2. CASE q.verb = "createProject"
      BY <1>1, <1>3, <2>2, VerbsTellRequests DEF FirstStep, OfItsVerb, Verb, MemberSteps, CreateSteps, ProjectSteps
    <2>3. CASE q.verb \notin {"createWorkspace", "createProject"}
      BY <1>1, <1>3, <1>4, <2>3, RequestShape, VerbsTellRequests
         DEF FirstStep, OfItsVerb, Verb, MemberSteps, CreateSteps, ProjectSteps
    <2> QED BY <2>1, <2>2, <2>3
  <1>7. KnowsMembers(c)' /\ KnowsProjects(c)' /\ HasTheSlug(c)' /\ RecordsAlone(c)'
    BY <1>3 DEF FirstStep, KnowsMembers, KnowsProjects, HasTheSlug, HasInserted, RecordsAlone, Recording, Verb, CreateSteps
  <1>8. ToldByReceipt(c)'
    BY <1>1 DEF Submit, IInv, CallIsSound, ToldByReceipt
  <1>9. \A d \in Calls \ {c} : pc'[d] = pc[d] /\ req'[d] = req[d] /\ scope'[d] = scope[d]
    BY DEF Submit, IInv, Types
  <1> QED BY <1>1, <1>5, <1>6, <1>7, <1>8, <1>9, QuietStep DEF CallIsSound, Submit

LEMMA ResolveKeepsIInv == ASSUME IInv, NEW c \in Calls, Resolve(c) PROVE IInv'
  <1>1. pc[c] = "resolve" /\ req[c] \in ProjectRequest
    BY DEF Resolve, IInv, CallIsSound, OfItsVerb
  <1>2. CASE Refuse(c, "noWorkspace")
    BY <1>1, <1>2, RefuseKeepsIInv DEF Refusals
  <1>3. ASSUME NEW w \in Places, Meant(c) = {w}, scope' = [scope EXCEPT ![c] = w],
               pc' = [pc EXCEPT ![c] = "check"], UNCHANGED <<tables, req, role, stale, answer>>
        PROVE  IInv'
    <2>1. members[w][req[c].caller] # None /\ req[c].caller \in Actors
      BY <1>1, <1>3, RequestShape DEF Meant, Mine
    <2>2. workspaces[w] # None
      BY <2>1 DEF IInv, WorkspaceIsKept, Members
    <2>3. pc'[c] = "check" /\ scope'[c] = w
      BY <1>3 DEF IInv, Types
    <2>4. Types'
      BY <1>3 DEF IInv, Types, tables, Steps
    <2>5. OfItsVerb(c)'
      BY <1>1, <1>3, <2>2, <2>3
         DEF IInv, CallIsSound, OfItsVerb, MemberSteps, CreateSteps, ProjectSteps, tables
    <2>6. KnowsMembers(c)' /\ KnowsProjects(c)' /\ HasTheSlug(c)' /\ RecordsAlone(c)'
      BY <2>3 DEF KnowsMembers, KnowsProjects, HasTheSlug, HasInserted, RecordsAlone, Recording, CreateSteps
    <2>7. ToldByReceipt(c)'
      BY <1>1, <1>3 DEF IInv, CallIsSound, ToldByReceipt
    <2>8. \A d \in Calls \ {c} : pc'[d] = pc[d] /\ scope'[d] = scope[d]
      BY <1>3 DEF IInv, Types
    <2> QED BY <1>1, <1>3, <2>4, <2>5, <2>6, <2>7, <2>8, QuietStep DEF CallIsSound
  <1> QED BY <1>2, <1>3 DEF Resolve

\* The workspace of a call to its members, once c has been found to administer it.
LEMMA MemberCall ==
  ASSUME IInv, NEW c \in Calls, pc[c] \in MemberSteps
  PROVE  /\ req[c] \in AddRequest \cup RemoveRequest /\ scope[c] \in Places
         /\ req[c].caller \in Actors /\ req[c].actor \in Actors \cup {"stranger"}
         /\ Verb(c) \in {"add", "remove"} /\ (Verb(c) = "add" => req[c].role \in Roles)
         /\ pc[c] # "caller" => workspaces[scope[c]] # None
         /\ RoleNow(c) \in Roles \cup {None}
  <1>1. /\ req[c] \in AddRequest \cup RemoveRequest /\ scope[c] \in Places
        /\ pc[c] # "caller" => workspaces[scope[c]] # None
    BY DEF IInv, CallIsSound, OfItsVerb, MemberSteps
  <1>2. RoleNow(c) \in Roles \cup {None}
    BY <1>1 DEF RoleNow, IInv, Types
  <1> QED BY <1>1, <1>2, RequestShape DEF Verb

\* Such a call goes on to a step that it has the knowledge for.
LEMMA MemberGoKeepsIInv ==
  ASSUME IInv, NEW c \in Calls, NEW to \in MemberSteps, pc[c] \in MemberSteps, Go(c, to),
         workspaces[scope[c]] # None, to \in {"seats", "actor"} => Verb(c) = "add",
         to \in {"admins", "write"} => req[c].actor \in Actors, KnowsMembers(c)'
  PROVE  IInv'
  <1>1. pc'[c] = to /\ to \in Steps
    BY DEF Go, IInv, Types, MemberSteps, Steps
  <1>2. OfItsVerb(c)'
    <2>1. req[c] \in AddRequest \cup RemoveRequest /\ scope[c] \in Places /\ req[c] \in Request
      BY MemberCall DEF Request
    <2>2. Verb(c) = "add" => req[c] \in AddRequest
      BY <2>1, VerbsTellRequests DEF Verb
    <2> QED BY <1>1, <2>1, <2>2 DEF Go, OfItsVerb, MemberSteps, CreateSteps, ProjectSteps, tables
  <1>3. KnowsProjects(c)' /\ HasTheSlug(c)' /\ RecordsAlone(c)' /\ pc[c] # "answered"
    BY <1>1 DEF KnowsProjects, HasTheSlug, HasInserted, RecordsAlone, Recording, CreateSteps, MemberSteps
  <1>4. ToldByReceipt(c)'
    BY <1>3 DEF Go, IInv, CallIsSound, ToldByReceipt
  <1> QED BY <1>1, <1>2, <1>3, <1>4, GoKeepsIInv DEF CallIsSound

LEMMA ReadCallerKeepsIInv == ASSUME IInv, NEW c \in Calls, ReadCaller(c) PROVE IInv'
  <1>1. pc[c] = "caller" /\ pc[c] \in MemberSteps
    BY DEF ReadCaller, MemberSteps
  <1>2. CASE Refuse(c, "workspaceNotFound") \/ Refuse(c, "adminRequired")
    BY <1>1, <1>2, RefuseKeepsIInv DEF Refusals
  <1>3. CASE members[scope[c]][req[c].caller] = "admin" /\ Go(c, "target")
    <2>1. workspaces[scope[c]] # None
      BY <1>1, <1>3, MemberCall, WorkspacesAssumption DEF IInv, WorkspaceIsKept, Members, Roles
    <2>2. pc'[c] = "target"
      BY <1>3 DEF Go, IInv, Types
    <2>3. KnowsMembers(c)'
      BY <2>2 DEF KnowsMembers
    <2> QED BY <1>1, <1>3, <2>1, <2>3, MemberGoKeepsIInv DEF MemberSteps
  <1> QED BY <1>2, <1>3 DEF ReadCaller

\* What has been read of the role is as new as it can be.
LEMMA ReadTargetKeepsIInv == ASSUME IInv, NEW c \in Calls, ReadTarget(c) PROVE IInv'
  <1> DEFINE to == IF Verb(c) = "remove" THEN (IF RoleNow(c) = "admin" THEN "admins" ELSE "write")
                   ELSE (IF RoleNow(c) = None THEN "seats" ELSE "actor")
  <1>1. pc[c] = "target" /\ pc[c] \in MemberSteps /\ to \in MemberSteps /\ to \in Steps
    BY DEF ReadTarget, MemberSteps, Steps
  <1>2. /\ RoleNow(c) \in Roles \cup {None} /\ Verb(c) \in {"add", "remove"}
        /\ workspaces[scope[c]] # None
    BY <1>1, MemberCall
  <1>3. /\ pc' = [pc EXCEPT ![c] = to] /\ role' = [role EXCEPT ![c] = RoleNow(c)]
        /\ stale' = [stale EXCEPT ![c] = FALSE] /\ UNCHANGED <<tables, req, scope, answer>>
    BY DEF ReadTarget
  <1>4. pc'[c] = to /\ role'[c] = RoleNow(c) /\ stale'[c] = FALSE
    BY <1>3 DEF IInv, Types
  <1>5. Types'
    BY <1>1, <1>2, <1>3 DEF IInv, Types, tables
  <1>6. OfItsVerb(c)'
    <2>1. req[c] \in AddRequest \cup RemoveRequest /\ scope[c] \in Places /\ req[c] \in Request
      BY <1>1, MemberCall DEF Request
    <2>2. Verb(c) = "add" => req[c] \in AddRequest
      BY <2>1, VerbsTellRequests DEF Verb
    <2>3. Verb(c) = "remove" => req[c].actor \in Actors
      BY <2>1, RequestShape, VerbsTellRequests DEF Verb
    <2> HIDE DEF to
    <2>4. to \in MemberSteps /\ (to \in {"seats", "actor"} => Verb(c) = "add") /\ (to \in {"admins", "write"} => Verb(c) = "remove")
      BY <1>1, <1>2 DEF to
    <2> QED BY <1>2, <1>3, <1>4, <2>1, <2>2, <2>3, <2>4
            DEF OfItsVerb, MemberSteps, CreateSteps, ProjectSteps, tables
  <1>7. KnowsMembers(c)'
    <2>1. RoleNow(c)' = RoleNow(c) /\ Verb(c)' = Verb(c)
      BY <1>3 DEF RoleNow, Verb, tables
    <2>2. to # "admins" \/ Verb(c) = "remove"
      OBVIOUS
    <2>3. to = "actor" => RoleNow(c) # None
      OBVIOUS
    <2>4. to = "write" => Verb(c) = "remove" /\ RoleNow(c) # "admin"
      BY <1>2
    <2> HIDE DEF to
    <2> QED BY <1>2, <1>4, <2>1, <2>2, <2>3, <2>4 DEF KnowsMembers, Demotes
  <1>8. KnowsProjects(c)' /\ HasTheSlug(c)' /\ RecordsAlone(c)'
    BY <1>4 DEF KnowsProjects, HasTheSlug, HasInserted, RecordsAlone, Recording, CreateSteps
  <1>9. ToldByReceipt(c)'
    BY <1>1, <1>3 DEF IInv, CallIsSound, ToldByReceipt
  <1>10. \A d \in Calls \ {c} : pc'[d] = pc[d] /\ role'[d] = role[d] /\ stale'[d] = stale[d]
    BY <1>3 DEF IInv, Types
  <1> QED BY <1>1, <1>3, <1>5, <1>6, <1>7, <1>8, <1>9, <1>10, QuietStep DEF CallIsSound

\* What is read by a call that goes on is read of the same tables.
LEMMA GoReadsTheSame ==
  ASSUME IInv, NEW c \in Calls, NEW to, Go(c, to)
  PROVE  /\ pc'[c] = to /\ role'[c] = role[c] /\ stale'[c] = stale[c] /\ req'[c] = req[c]
         /\ RoleNow(c)' = RoleNow(c) /\ Verb(c)' = Verb(c) /\ Demotes(c)' = Demotes(c)
         /\ Members(scope[c])' = Members(scope[c]) /\ scope'[c] = scope[c] /\ members' = members
  BY DEF Go, IInv, Types, RoleNow, Verb, Demotes, Members, tables

LEMMA ReadSeatsKeepsIInv == ASSUME IInv, NEW c \in Calls, ReadSeats(c) PROVE IInv'
  <1>1. pc[c] = "seats" /\ pc[c] \in MemberSteps /\ Verb(c) = "add"
    BY RequestShape DEF ReadSeats, MemberSteps, IInv, CallIsSound, OfItsVerb, Verb
  <1>2. CASE Refuse(c, "entitlementLimit")
    BY <1>1, <1>2, RefuseKeepsIInv DEF Refusals
  <1>3. CASE ~Full(c) /\ Go(c, "actor")
    <2>1. Cardinality(Members(scope[c])) < MaxMembers
      BY <1>1, <1>3, MemberCall, FiniteParts, WorkspacesAssumption DEF Full
    <2>2. ~stale[c] => role[c] = RoleNow(c)
      BY <1>1 DEF IInv, CallIsSound, KnowsMembers
    <2>3. KnowsMembers(c)'
      <3>1. Cardinality(Members(scope[c]))' = Cardinality(Members(scope[c]))
        BY <1>3, GoReadsTheSame
      <3> QED BY <1>3, <2>1, <2>2, <3>1, GoReadsTheSame DEF KnowsMembers
    <2> QED BY <1>1, <1>3, <2>3, MemberCall, MemberGoKeepsIInv DEF MemberSteps
  <1> QED BY <1>2, <1>3 DEF ReadSeats

LEMMA ReadActorKeepsIInv == ASSUME IInv, NEW c \in Calls, ReadActor(c) PROVE IInv'
  <1>1. pc[c] = "actor" /\ pc[c] \in MemberSteps /\ Verb(c) = "add"
    BY RequestShape DEF ReadActor, MemberSteps, IInv, CallIsSound, OfItsVerb, Verb
  <1>2. CASE Refuse(c, "actorNotFound")
    BY <1>1, <1>2, RefuseKeepsIInv DEF Refusals
  <1>3. ASSUME req[c].actor \in Actors, NEW to \in {"admins", "write"}, Go(c, to),
               to = "write" => ~Demotes(c)
        PROVE  IInv'
    <2>1. KnowsMembers(c)
      BY DEF IInv, CallIsSound
    <2>2. Cardinality(Members(scope[c]))' = Cardinality(Members(scope[c]))
      BY <1>3, GoReadsTheSame
    <2>3. KnowsMembers(c)'
      BY <1>1, <1>3, <2>1, <2>2, GoReadsTheSame DEF KnowsMembers
    <2> QED BY <1>1, <1>3, <2>3, MemberCall, MemberGoKeepsIInv DEF MemberSteps
  <1>4. CASE req[c].actor \in Actors /\ Go(c, IF req[c].role = "member" /\ role[c] = "admin" THEN "admins" ELSE "write")
    <2>1. CASE Demotes(c)
      BY <1>1, <1>3, <1>4, <2>1 DEF Demotes
    <2>2. CASE ~Demotes(c)
      BY <1>1, <1>3, <1>4, <2>2 DEF Demotes
    <2> QED BY <2>1, <2>2
  <1> QED BY <1>2, <1>4 DEF ReadActor

LEMMA CountAdminsKeepsIInv == ASSUME IInv, NEW c \in Calls, CountAdmins(c) PROVE IInv'
  <1>1. pc[c] = "admins" /\ pc[c] \in MemberSteps /\ req[c].actor \in Actors
    BY DEF CountAdmins, MemberSteps, IInv, CallIsSound, OfItsVerb
  <1>2. CASE Refuse(c, "lastAdmin")
    BY <1>1, <1>2, RefuseKeepsIInv DEF Refusals
  <1>3. CASE ~LastAdmin(c) /\ Go(c, "write")
    <2>1. KnowsMembers(c)
      BY DEF IInv, CallIsSound
    <2>2. \E a \in Actors \ {req[c].actor} : members[scope[c]][a] = "admin"
      BY <1>1, <1>3, MemberCall, AnotherAdmin DEF LastAdmin
    <2>3. Cardinality(Members(scope[c]))' = Cardinality(Members(scope[c]))
      BY <1>3, GoReadsTheSame
    <2>4. KnowsMembers(c)'
      BY <1>1, <1>3, <2>1, <2>2, <2>3, GoReadsTheSame DEF KnowsMembers
    <2> QED BY <1>1, <1>3, <2>4, MemberCall, MemberGoKeepsIInv DEF MemberSteps
  <1> QED BY <1>2, <1>3 DEF CountAdmins

(***************************************************************************)
(* The creates, up to their commit                                         *)
(***************************************************************************)

LEMMA CreateCall ==
  ASSUME IInv, NEW c \in Calls, pc[c] \in CreateSteps \cup ProjectSteps
  PROVE  /\ req[c] \in WorkspaceRequest \cup ProjectRequest /\ req[c].slug \in Slugs
         /\ Verb(c) \in {"createWorkspace", "createProject"}
         /\ Verb(c) = "createProject" =>
               req[c] \in ProjectRequest /\ scope[c] \in Places /\ workspaces[scope[c]] # None
         /\ Verb(c) = "createWorkspace" => req[c] \in WorkspaceRequest
         /\ Verb(c) = "createWorkspace" /\ pc[c] \in CreateSteps => scope[c] = c
         /\ pc[c] \in ProjectSteps => Verb(c) = "createProject"
  BY RequestShape DEF IInv, CallIsSound, OfItsVerb, Verb, CreateSteps, ProjectSteps

\* Such a call goes on with what it knows.
LEMMA CreateGoKeepsIInv ==
  ASSUME IInv, NEW c \in Calls, NEW to \in CreateSteps \cup ProjectSteps,
         pc[c] \in CreateSteps \cup ProjectSteps, Go(c, to), Verb(c) # "createProject" => to \in CreateSteps /\ pc[c] \in CreateSteps,
         KnowsProjects(c)', HasTheSlug(c)', RecordsAlone(c)'
  PROVE  IInv'
  <1>1. pc'[c] = to /\ to \in Steps
    BY DEF Go, IInv, Types, CreateSteps, ProjectSteps, Steps
  <1>2. OfItsVerb(c)'
    <2>1. req[c] \in Request
      BY CreateCall DEF Request
    <2> QED BY <1>1, <2>1, CreateCall DEF Go, OfItsVerb, MemberSteps, CreateSteps, ProjectSteps, tables, Verb
  <1>3. KnowsMembers(c)' /\ pc[c] # "answered"
    BY <1>1 DEF KnowsMembers, CreateSteps, ProjectSteps
  <1>4. ToldByReceipt(c)'
    BY <1>3 DEF Go, IInv, CallIsSound, ToldByReceipt
  <1> QED BY <1>1, <1>2, <1>3, <1>4, GoKeepsIInv DEF CallIsSound

LEMMA CheckKeepsIInv == ASSUME IInv, NEW c \in Calls, Check(c) PROVE IInv'
  <1>1. pc[c] = "check" /\ pc[c] \in ProjectSteps /\ Verb(c) = "createProject"
    BY CreateCall DEF Check, ProjectSteps
  <1>2. CASE AnswerFromReceipt(c)
    BY <1>1, <1>2, ReceiptStepKeepsIInv
  <1>3. CASE Go(c, "count")
    <2>1. KnowsProjects(c)' /\ HasTheSlug(c)' /\ RecordsAlone(c)'
      BY <1>3, GoReadsTheSame DEF KnowsProjects, HasTheSlug, HasInserted, RecordsAlone, Recording, CreateSteps
    <2> QED BY <1>1, <1>3, <2>1, CreateGoKeepsIInv DEF ProjectSteps
  <1> QED BY <1>2, <1>3 DEF Check

LEMMA CountProjectsKeepsIInv == ASSUME IInv, NEW c \in Calls, CountProjects(c) PROVE IInv'
  <1>1. pc[c] = "count" /\ pc[c] \in ProjectSteps /\ Verb(c) = "createProject"
    BY CreateCall DEF CountProjects, ProjectSteps
  <1>2. /\ stale' \in [Calls -> BOOLEAN] /\ \A d \in Calls \ {c} : stale'[d] = stale[d]
        /\ UNCHANGED tables
    BY DEF CountProjects, IInv, Types
  <1>3. CASE Answer(c, "entitlementLimit")
    <2>1. "entitlementLimit" \in Refusals
      BY DEF Refusals
    <2> QED BY <1>1, <1>2, <1>3, <2>1, EndKeepsIInv DEF Answer
  <1>4. CASE /\ ~NoneLeft(c) /\ pc' = [pc EXCEPT ![c] = "slug"]
             /\ UNCHANGED <<req, scope, role, answer>>
    <2>1. pc'[c] = "slug" /\ \A d \in Calls \ {c} : pc'[d] = pc[d]
      BY <1>4 DEF IInv, Types
    <2>2. Types'
      BY <1>2, <1>4 DEF IInv, Types, tables, Steps
    <2>3. OfItsVerb(c)'
      <3>1. req[c] \in ProjectRequest /\ req[c] \in Request /\ scope[c] \in Places /\ workspaces[scope[c]] # None
        BY <1>1, CreateCall DEF Request
      <3> QED BY <1>1, <1>2, <1>4, <2>1, <3>1 DEF OfItsVerb, MemberSteps, CreateSteps, ProjectSteps, tables, Verb
    <2>4. KnowsProjects(c)'
      <3>1. ProjectsOf(scope[c])' = ProjectsOf(scope[c])
        BY <1>2, <1>4 DEF ProjectsOf, tables
      <3>2. Cardinality(ProjectsOf(scope[c])) < MaxProjects
        BY <1>1, <1>4, CreateCall, FiniteParts, WorkspacesAssumption DEF NoneLeft
      <3> QED BY <1>4, <3>1, <3>2 DEF KnowsProjects
    <2>5. KnowsMembers(c)' /\ HasTheSlug(c)' /\ RecordsAlone(c)'
      BY <2>1 DEF KnowsMembers, HasTheSlug, HasInserted, RecordsAlone, Recording
    <2>6. ToldByReceipt(c)'
      BY <1>1, <1>4 DEF IInv, CallIsSound, ToldByReceipt
    <2> QED BY <1>1, <1>2, <1>4, <2>1, <2>2, <2>3, <2>4, <2>5, <2>6, QuietStep DEF CallIsSound
  <1> QED BY <1>3, <1>4 DEF CountProjects

\* What a create goes by does not change as it goes on.
LEMMA KnowsOn ==
  ASSUME IInv, NEW c \in Calls, NEW to, Go(c, to), pc[c] \in CreateSteps \cup {"record"}
  PROVE  KnowsProjects(c)'
  <1>1. ProjectsOf(scope[c])' = ProjectsOf(scope[c]) /\ scope'[c] = scope[c]
    BY DEF Go, ProjectsOf, tables
  <1> QED BY <1>1, GoReadsTheSame DEF IInv, CallIsSound, KnowsProjects

LEMMA ReadSlugKeepsIInv == ASSUME IInv, NEW c \in Calls, ReadSlug(c) PROVE IInv'
  <1>1. pc[c] = "slug" /\ pc[c] \in CreateSteps
    BY DEF ReadSlug, CreateSteps
  <1>2. CASE Refuse(c, "slugConflict")
    BY <1>1, <1>2, RefuseKeepsIInv DEF Refusals
  <1>3. CASE Go(c, "insert")
    <2>1. HasTheSlug(c)' /\ RecordsAlone(c)'
      BY <1>3, GoReadsTheSame DEF HasTheSlug, HasInserted, RecordsAlone, Recording
    <2>2. "insert" \in CreateSteps
      BY DEF CreateSteps
    <2> QED BY <1>1, <1>3, <2>1, <2>2, KnowsOn, CreateGoKeepsIInv DEF ProjectSteps
  <1> QED BY <1>2, <1>3 DEF ReadSlug

\* The unique constraint: the slug is in no table and in no other open transaction.
LEMMA InsertKeepsIInv == ASSUME IInv, NEW c \in Calls, Insert(c) PROVE IInv'
  <1>1. pc[c] = "insert" /\ pc[c] \in CreateSteps
    BY DEF Insert, CreateSteps
  <1>2. CASE Abort(c, "slugConflict")
    BY <1>1, <1>2, AbortKeepsIInv DEF Refusals
  <1>3. CASE ~Taken(c) /\ Go(c, IF Verb(c) = "createProject" THEN "record" ELSE "commit")
    <2> DEFINE to == IF Verb(c) = "createProject" THEN "record" ELSE "commit"
    <2>1. \A d \in Calls \ {c} : HasInserted(d) /\ Verb(d) = Verb(c) => req[d].slug # req[c].slug
      BY <1>1 DEF Insert, Free, Blockers
    <2>2. \A d \in Calls \ {c} : pc'[d] = pc[d] /\ req'[d] = req[d]
      BY <1>3 DEF Go, IInv, Types
    <2>3. HasTheSlug(c)'
      <3>1. ~Taken(c)'
        BY <1>3 DEF Go, Taken, Verb, tables
      <3>2. \A d \in Calls \ {c} : HasInserted(d)' /\ Verb(d)' = Verb(c)' => req'[d].slug # req'[c].slug
        BY <1>3, <2>1, <2>2, GoReadsTheSame DEF HasInserted, Creates, Verb
      <3> QED BY <3>1, <3>2 DEF HasTheSlug
    <2>4. RecordsAlone(c)'
      BY <1>3, GoReadsTheSame DEF RecordsAlone, Recording, Verb
    <2>5. to \in CreateSteps \cup ProjectSteps /\ (Verb(c) # "createProject" => to \in CreateSteps)
      BY DEF CreateSteps, ProjectSteps
    <2> QED BY <1>1, <1>3, <2>3, <2>4, <2>5, KnowsOn, CreateGoKeepsIInv
  <1> QED BY <1>2, <1>3 DEF Insert

LEMMA RecordKeepsIInv == ASSUME IInv, NEW c \in Calls, Record(c) PROVE IInv'
  <1>1. pc[c] = "record" /\ pc[c] \in ProjectSteps /\ Verb(c) = "createProject"
    BY CreateCall DEF Record, ProjectSteps
  <1>2. CASE Abort(c, "operationExists")
    BY <1>1, <1>2, AbortKeepsIInv DEF Refusals
  <1>3. CASE ~Seen(c) /\ Go(c, "commit")
    <2>1. \A d \in Calls \ {c} : Recording(d) => req[d].op # req[c].op
      BY <1>1 DEF Record, Free, Blockers, Recording
    <2>2. \A d \in Calls \ {c} : pc'[d] = pc[d] /\ req'[d] = req[d]
      BY <1>3 DEF Go, IInv, Types
    <2>3. RecordsAlone(c)'
      BY <1>3, <2>1, <2>2 DEF RecordsAlone, Recording, Go, Seen, Verb, tables
    <2>4. HasInserted(c) /\ HasTheSlug(c)
      BY <1>1 DEF HasInserted, Creates, IInv, CallIsSound
    <2>5. HasTheSlug(c)'
      <3>1. ~Taken(c)'
        BY <1>3, <2>4 DEF HasTheSlug, Go, Taken, Verb, tables
      <3>2. \A d \in Calls \ {c} : HasInserted(d)' /\ Verb(d)' = Verb(c)' => req'[d].slug # req'[c].slug
        BY <1>3, <2>2, <2>4, GoReadsTheSame DEF HasTheSlug, HasInserted, Creates, Verb
      <3> QED BY <3>1, <3>2 DEF HasTheSlug
    <2>6. "commit" \in CreateSteps
      BY DEF CreateSteps
    <2> QED BY <1>1, <1>3, <2>3, <2>5, <2>6, KnowsOn, CreateGoKeepsIInv
  <1> QED BY <1>2, <1>3 DEF Record

LEMMA RecheckKeepsIInv == ASSUME IInv, NEW c \in Calls, Recheck(c) PROVE IInv'
  <1>1. pc[c] = "recheck"
    BY DEF Recheck
  <1>2. CASE AnswerFromReceipt(c)
    BY <1>1, <1>2, ReceiptStepKeepsIInv
  <1>3. CASE Refuse(c, answer[c])
    <2>1. answer[c] \in Refusals \cup {"none", "lost"}
      BY <1>1 DEF IInv, Types, CallIsSound, ToldByReceipt
    <2>2. stale' \in [Calls -> BOOLEAN] /\ stale' = stale /\ answer[c] # "ok"
      BY <1>1, <1>3 DEF Refuse, IInv, Types, CallIsSound, ToldByReceipt
    <2> QED BY <1>1, <1>3, <2>1, <2>2, EndKeepsIInv DEF Refuse, Answer
  <1> QED BY <1>2, <1>3 DEF Recheck

(***************************************************************************)
(* The writes                                                              *)
(***************************************************************************)

\* Whom a write of c overtakes, and what it leaves alone: it ends c, and of every other
\* call it changes at most whether it is stale.
Writes(c) == Overtake(c) /\ Answer(c, "ok")

LEMMA WriteLeavesAlone ==
  ASSUME IInv, NEW c \in Calls, Writes(c), pc[c] \notin {"idle", "answered"}
  PROVE  /\ pc'[c] = "answered" /\ answer'[c] = "ok" /\ stale'[c] = stale[c]
         /\ \A d \in Calls \ {c} : pc'[d] = pc[d] /\ answer'[d] = answer[d]
         /\ req' = req /\ scope' = scope /\ role' = role
         /\ \A d \in Calls : ~stale'[d] => ~stale[d] /\ d \notin Kindred(c)
         /\ \A w, verbs : Overtaken(w, verbs) # {} => Overtaken(w, verbs)' # {}
  <1>1. /\ pc'[c] = "answered" /\ answer'[c] = "ok"
        /\ \A d \in Calls \ {c} : pc'[d] = pc[d] /\ answer'[d] = answer[d]
        /\ req' = req /\ scope' = scope /\ role' = role
        /\ \A d \in Calls : stale'[d] = (stale[d] \/ d \in Kindred(c))
    BY DEF Writes, Overtake, Answer, IInv, Types
  <1>2. c \notin Kindred(c) /\ stale'[c] = stale[c]
    BY <1>1 DEF Kindred, IInv, Types
  <1>3. \A d \in Calls : answer[d] = "ok" => /\ answer'[d] = "ok" /\ req'[d] = req[d]
                                             /\ scope'[d] = scope[d] /\ (stale[d] => stale'[d])
    BY <1>1
  <1>4. \A w, verbs : Overtaken(w, verbs) # {} => Overtaken(w, verbs)' # {}
    BY <1>3, OvertakenStay
  <1> QED BY <1>1, <1>2, <1>4

LEMMA WriteKeepsTypes ==
  ASSUME IInv, NEW c \in Calls, Writes(c)
  PROVE  /\ pc' \in [Calls -> Steps] /\ req' \in [Calls -> Request \cup {NoRequest}]
         /\ scope' \in [Calls -> Places \cup {None}] /\ role' \in [Calls -> Roles \cup {None}]
         /\ stale' \in [Calls -> BOOLEAN]
         /\ answer' \in [Calls -> Refusals \cup {"none", "ok", "lost"}]
  BY DEF Writes, Overtake, Answer, IInv, Types, Steps

\* One write to the members of a workspace.
LEMMA MemberWriteKeepsIInv ==
  ASSUME IInv, NEW c \in Calls, pc[c] = "write", NEW r \in Roles \cup {None}, SetRole(c, r), Writes(c),
         UNCHANGED <<workspaces, projects, receipts>>,
         Verb(c) = "add" => r = req[c].role, Verb(c) = "remove" => r = None
  PROVE  IInv'
  <1> DEFINE ws == scope[c]
             who == req[c].actor
  <1>1. /\ req[c] \in AddRequest \cup RemoveRequest /\ ws \in Places /\ workspaces[ws] # None
        /\ who \in Actors /\ Verb(c) \in {"add", "remove"} /\ (Verb(c) = "add" => req[c].role \in Roles)
    <2>1. pc[c] \in MemberSteps /\ pc[c] # "caller"
      BY DEF MemberSteps
    <2>2. who \in Actors
      BY DEF IInv, CallIsSound, OfItsVerb
    <2> QED BY <2>1, <2>2, MemberCall
  <1>2. /\ members'[ws][who] = r
        /\ \A a \in Actors \ {who} : members'[ws][a] = members[ws][a]
        /\ \A w \in Places \ {ws} : members'[w] = members[w]
        /\ members' \in [Places -> [Actors -> Roles \cup {None}]]
    BY <1>1 DEF SetRole, IInv, Types
  <1> HIDE DEF ws, who
  <1>3. /\ pc'[c] = "answered" /\ answer'[c] = "ok" /\ stale'[c] = stale[c]
        /\ \A d \in Calls \ {c} : pc'[d] = pc[d] /\ answer'[d] = answer[d]
        /\ req' = req /\ scope' = scope /\ role' = role
        /\ \A d \in Calls : ~stale'[d] => ~stale[d] /\ d \notin Kindred(c)
        /\ \A w, verbs : Overtaken(w, verbs) # {} => Overtaken(w, verbs)' # {}
    BY WriteLeavesAlone
  <1>4. \A w \in Places : /\ ProjectsOf(w)' = ProjectsOf(w)
                          /\ w # ws => Members(w)' = Members(w) /\ Admins(w)' = Admins(w)
    BY <1>2 DEF ProjectsOf, Members, Admins
  <1>5. Types'
    BY <1>2, WriteKeepsTypes DEF IInv, Types
  <1>6. ASSUME NEW d \in Calls \ {c}
        PROVE  CallIsSound(d)'
    <2> USE DEF IInv
    <2>1. OfItsVerb(d)' /\ ToldByReceipt(d)' /\ HasTheSlug(d)' /\ RecordsAlone(d)' /\ KnowsProjects(d)'
      <3>1. OfItsVerb(d)' /\ ToldByReceipt(d)'
        BY <1>3 DEF CallIsSound, OfItsVerb, ToldByReceipt, Verb
      <3>2. HasTheSlug(d)' /\ RecordsAlone(d)'
        BY <1>3 DEF CallIsSound, HasTheSlug, HasInserted, Creates, Taken, RecordsAlone, Recording, Seen, Verb
      <3>3. KnowsProjects(d)'
        <4>1. pc[d] \in CreateSteps \cup {"record"} /\ Verb(d) = "createProject" => scope[d] \in Places
          BY CreateCall DEF ProjectSteps
        <4> QED BY <1>3, <1>4, <4>1 DEF CallIsSound, KnowsProjects, Verb
      <3> QED BY <3>1, <3>2, <3>3
    <2>2. KnowsMembers(d)'
      <3> SUFFICES ASSUME pc[d] \in {"seats", "actor", "admins", "write"}, ~stale'[d] PROVE KnowsMembers(d)'
        BY <1>3 DEF KnowsMembers
      <3>1. pc[d] \in MemberSteps /\ pc[d] \notin {"idle", "answered"}
        BY DEF MemberSteps
      <3>2. ~stale[d] /\ scope[d] \in Places /\ scope[d] # ws
        BY <1>1, <1>3, <3>1, MemberCall DEF Kindred, ws
      <3>3. members'[scope[d]] = members[scope[d]] /\ Members(scope[d])' = Members(scope[d])
        BY <1>2, <1>3, <1>4, <3>2
      <3>4. KnowsMembers(d)
        BY DEF CallIsSound
      <3> QED BY <1>3, <3>2, <3>3, <3>4 DEF KnowsMembers, RoleNow, Demotes, Verb
    <2> QED BY <2>1, <2>2 DEF CallIsSound
  <1>7. CallIsSound(c)'
    <2>1. OfItsVerb(c)'
      BY <1>1, <1>3 DEF OfItsVerb, Request, MemberSteps, CreateSteps, ProjectSteps
    <2>2. KnowsMembers(c)' /\ KnowsProjects(c)' /\ HasTheSlug(c)' /\ RecordsAlone(c)' /\ ToldByReceipt(c)'
      BY <1>1, <1>3 DEF KnowsMembers, KnowsProjects, HasTheSlug, HasInserted, RecordsAlone, Recording,
                        ToldByReceipt, Verb, CreateSteps
    <2> QED BY <2>1, <2>2 DEF CallIsSound
  <1>8. ASSUME NEW p \in Calls
        PROVE  ProjectIsKept(p)'
    BY <1>3 DEF IInv, ProjectIsKept, Made
  <1>9. ASSUME NEW w \in Places
        PROVE  WorkspaceIsKept(w)'
    BY <1>1, <1>3, <1>4 DEF IInv, WorkspaceIsKept
  <1>10. (\A o \in Ops : ReceiptIsKept(o)') /\ SlugsAreUnique' /\ MadeOnce'
    BY <1>3 DEF IInv, ReceiptIsKept, SlugsAreUnique, MadeOnce, Made
  <1>11. ~stale[c] => role[c] = members[ws][who]
    BY <1>1 DEF IInv, CallIsSound, KnowsMembers, RoleNow, ws, who
  <1>12. AdminRemainsUnlessOvertaken'
    <2> SUFFICES ASSUME NEW w \in Places, workspaces[w] # None, Admins(w)' = {}
                 PROVE  Overtaken(w, {"add", "remove"})' # {}
      BY DEF AdminRemainsUnlessOvertaken
    <2>1. Admins(w) # {} \/ Overtaken(w, {"add", "remove"}) # {}
      BY DEF IInv, AdminRemainsUnlessOvertaken
    <2>2. CASE w # ws \/ Overtaken(w, {"add", "remove"}) # {}
      BY <1>3, <1>4, <2>1, <2>2
    <2>3. CASE w = ws /\ stale[c]
      <3>1. c \in Overtaken(w, {"add", "remove"})'
        BY <1>1, <1>3, <2>3 DEF Overtaken, Verb, ws
      <3> QED BY <3>1
    <2>4. ASSUME w = ws, ~stale[c], NEW a \in Admins(w)
          PROVE  FALSE
      <3>1. a = who /\ role[c] = "admin" /\ r # "admin"
        BY <1>1, <1>2, <1>11, <2>4 DEF Admins
      <3>2. Demotes(c)
        BY <1>1, <3>1 DEF Demotes, Roles
      <3>3. \E b \in Actors \ {who} : members[ws][b] = "admin"
        BY <2>4, <3>2 DEF IInv, CallIsSound, KnowsMembers, ws, who
      <3> QED BY <1>2, <2>4, <3>3 DEF Admins
    <2> QED BY <2>1, <2>2, <2>3, <2>4
  <1>13. LimitsHoldUnlessOvertaken'
    <2>1. ASSUME NEW w \in Places, Cardinality(Members(w)') > MaxMembers
          PROVE  Overtaken(w, {"add"})' # {}
      <3>1. IsFiniteSet(Members(w)) /\ Cardinality(Members(w)) \in Nat /\ MaxMembers \in Nat
        BY FiniteParts, WorkspacesAssumption
      <3>2. CASE Cardinality(Members(w)) > MaxMembers
        BY <1>3, <3>2 DEF IInv, LimitsHoldUnlessOvertaken
      <3>3. CASE Cardinality(Members(w)) <= MaxMembers
        <4>1. w = ws /\ ~(Members(w)' \subseteq Members(w))
          <5>1. Members(w)' \subseteq Members(w) => Cardinality(Members(w)') <= Cardinality(Members(w))
            BY <3>1, FS_Subset
          <5>2. Cardinality(Members(w)') \in Nat
            <6>1. Members(w)' \subseteq Actors
              BY DEF Members
            <6> QED BY <6>1, WorkspacesAssumption, FS_Subset, FS_CardinalityType
          <5> QED BY <1>4, <2>1, <3>1, <3>3, <5>1, <5>2
        <4>2. r # None /\ Members(w)' = Members(w) \cup {who} /\ who \notin Members(w)
          BY <1>1, <1>2, <4>1 DEF Members
        <4>3. Verb(c) = "add"
          BY <1>1, <4>2
        <4>4. stale[c]
          <5> SUFFICES ASSUME ~stale[c] PROVE FALSE
            BY DEF IInv, Types
          <5>1. role[c] = None
            BY <1>1, <1>11, <4>1, <4>2 DEF Members
          <5>2. Cardinality(Members(w)) < MaxMembers
            BY <4>1, <4>3, <5>1 DEF IInv, CallIsSound, KnowsMembers, ws
          <5>3. Cardinality(Members(w)') = Cardinality(Members(w)) + 1
            BY <3>1, <4>2, FS_AddElement
          <5> QED BY <2>1, <3>1, <5>2, <5>3
        <4>5. c \in Overtaken(w, {"add"})'
          BY <1>3, <4>1, <4>3, <4>4 DEF Overtaken, Verb, ws
        <4> QED BY <4>5
      <3> QED BY <3>1, <3>2, <3>3
    <2>2. ASSUME NEW w \in Places, Cardinality(ProjectsOf(w)') > MaxProjects
          PROVE  Overtaken(w, {"createProject"})' # {}
      BY <1>3, <1>4, <2>2 DEF IInv, LimitsHoldUnlessOvertaken
    <2> QED BY <2>1, <2>2 DEF LimitsHoldUnlessOvertaken
  <1> QED BY <1>5, <1>6, <1>7, <1>8, <1>9, <1>10, <1>12, <1>13 DEF IInv

LEMMA UpsertKeepsIInv == ASSUME IInv, NEW c \in Calls, Upsert(c) PROVE IInv'
  <1>1. pc[c] = "write" /\ pc[c] \in MemberSteps /\ Verb(c) = "add" /\ Writes(c)
    BY DEF Upsert, MemberSteps, Writes
  <1>2. req[c].role \in Roles \cup {None}
    BY <1>1, MemberCall
  <1> QED BY <1>1, <1>2, MemberWriteKeepsIInv DEF Upsert

LEMMA DeleteKeepsIInv == ASSUME IInv, NEW c \in Calls, Delete(c) PROVE IInv'
  <1>1. pc[c] = "write" /\ Verb(c) = "remove"
    BY DEF Delete
  <1>2. CASE Refuse(c, "memberNotFound")
    BY <1>1, <1>2, RefuseKeepsIInv DEF Refusals
  <1>3. CASE /\ SetRole(c, None) /\ Overtake(c) /\ Answer(c, "ok")
             /\ UNCHANGED <<workspaces, projects, receipts>>
    BY <1>1, <1>3, MemberWriteKeepsIInv DEF Writes
  <1> QED BY <1>2, <1>3 DEF Delete

LEMMA CommitProjectKeepsIInv == ASSUME IInv, NEW c \in Calls, CommitProject(c) PROVE IInv'
  <1> DEFINE ws == scope[c]
             new == [slug |-> req[c].slug, ws |-> ws, workflow |-> DefaultWorkflow]
  <1>1. /\ pc[c] = "commit" /\ Verb(c) = "createProject" /\ req[c] \in ProjectRequest /\ Writes(c)
        /\ ws \in Places /\ workspaces[ws] # None /\ req[c].slug \in Slugs /\ req[c].op \in Ops
        /\ UNCHANGED <<workspaces, members>>
    <2>1. pc[c] = "commit" /\ Verb(c) = "createProject" /\ pc[c] \in CreateSteps
      BY DEF CommitProject, CreateSteps
    <2> QED BY <2>1, CreateCall, RequestShape DEF CommitProject, Writes
  <1>2. new \in Project /\ new # NoProject /\ new.slug = req[c].slug /\ new.ws = ws
    <2>1. new \in Project
      BY <1>1 DEF Project
    <2> QED BY <2>1, ProjectShape
  <1>3. /\ projects'[c] = new /\ \A p \in Calls \ {c} : projects'[p] = projects[p]
        /\ projects' \in [Calls -> Project \cup {NoProject}]
        /\ receipts'[req[c].op] = [req |-> req[c].slug]
        /\ \A o \in Ops \ {req[c].op} : receipts'[o] = receipts[o]
        /\ receipts' \in [Ops -> [req : Slugs] \cup {NoReceipt}]
    BY <1>1, <1>2 DEF CommitProject, Asked, IInv, Types
  <1> HIDE DEF ws, new
  <1>4. /\ pc'[c] = "answered" /\ answer'[c] = "ok" /\ stale'[c] = stale[c]
        /\ \A d \in Calls \ {c} : pc'[d] = pc[d] /\ answer'[d] = answer[d]
        /\ req' = req /\ scope' = scope /\ role' = role
        /\ \A d \in Calls : ~stale'[d] => ~stale[d] /\ d \notin Kindred(c)
        /\ \A w, verbs : Overtaken(w, verbs) # {} => Overtaken(w, verbs)' # {}
    BY <1>1, WriteLeavesAlone
  <1>5. ~Made(c)
    BY <1>1 DEF IInv, ProjectIsKept
  <1>6. \A w \in Places :
          /\ Members(w)' = Members(w) /\ Admins(w)' = Admins(w)
          /\ ProjectsOf(w)' = IF w = ws THEN ProjectsOf(w) \cup {c} ELSE ProjectsOf(w)
    <2>1. ASSUME NEW w \in Places, NEW p \in Calls
          PROVE  p \in ProjectsOf(w)' <=> p \in ProjectsOf(w) \/ (w = ws /\ p = c)
      BY <1>2, <1>3, <1>5 DEF ProjectsOf, Made
    <2>2. \A w \in Places : ProjectsOf(w) \subseteq Calls /\ ProjectsOf(w)' \subseteq Calls
      BY DEF ProjectsOf
    <2>3. \A w \in Places : Members(w)' = Members(w) /\ Admins(w)' = Admins(w)
      BY <1>1 DEF Members, Admins
    <2> QED BY <2>1, <2>2, <2>3
  <1>7. Types'
    BY <1>1, <1>3, WriteKeepsTypes DEF IInv, Types
  <1>8. ~Seen(c) /\ ~Taken(c)
    BY <1>1 DEF IInv, CallIsSound, RecordsAlone, Recording, HasTheSlug, HasInserted, Creates
  <1>9. \A o \in Ops : receipts[o] # NoReceipt => o # req[c].op /\ receipts'[o] = receipts[o]
    BY <1>3, <1>8 DEF Seen
  <1>10. receipts'[req[c].op] # NoReceipt /\ receipts'[req[c].op].req = req[c].slug
    BY <1>1, <1>3, ReceiptShape
  <1>11. ASSUME NEW d \in Calls \ {c}
         PROVE  CallIsSound(d)'
    <2> USE DEF IInv
    <2>1. OfItsVerb(d)'
      BY <1>1, <1>4 DEF CallIsSound, OfItsVerb, Verb
    <2>2. KnowsMembers(d)'
      <3>1. pc[d] \in {"actor", "admins", "write"} => scope[d] \in Places
        BY MemberCall DEF MemberSteps
      <3> QED BY <1>1, <1>4, <1>6, <3>1 DEF CallIsSound, KnowsMembers, RoleNow, Demotes, Verb
    <2>3. KnowsProjects(d)'
      <3> SUFFICES ASSUME pc[d] \in CreateSteps \cup {"record"}, Verb(d) = "createProject", ~stale'[d]
                   PROVE  KnowsProjects(d)'
        BY <1>4 DEF KnowsProjects, Verb
      <3>1. ~stale[d] /\ scope[d] \in Places /\ scope[d] # ws
        BY <1>1, <1>4, CreateCall DEF Kindred, CreateSteps, ProjectSteps, ws
      <3> QED BY <1>4, <1>6, <3>1 DEF CallIsSound, KnowsProjects
    <2>4. HasTheSlug(d)'
      <3> SUFFICES ASSUME HasInserted(d) PROVE HasTheSlug(d)'
        BY <1>4 DEF HasTheSlug, HasInserted, Creates, Verb
      <3>1. /\ ~Taken(d)
            /\ \A e \in Calls \ {d} : HasInserted(e) /\ Verb(e) = Verb(d) => req[e].slug # req[d].slug
        BY DEF CallIsSound, HasTheSlug
      <3>2. HasInserted(c) /\ Verb(d) = "createProject" => req[d].slug # req[c].slug
        BY <1>1, <3>1
      <3>3. ~Taken(d)'
        <4>1. HasInserted(c)
          BY <1>1 DEF HasInserted, Creates
        <4> QED BY <1>1, <1>2, <1>3, <1>4, <3>1, <3>2, <4>1 DEF Taken, Verb
      <3> QED BY <1>4, <3>1, <3>3 DEF HasTheSlug, HasInserted, Creates, Verb
    <2>5. RecordsAlone(d)'
      <3> SUFFICES ASSUME Recording(d) PROVE RecordsAlone(d)'
        BY <1>4 DEF RecordsAlone, Recording, Verb
      <3>1. /\ ~Seen(d) /\ \A e \in Calls \ {d} : Recording(e) => req[e].op # req[d].op
            /\ req[d].op \in Ops
        BY CreateCall, RequestShape DEF CallIsSound, RecordsAlone, Recording, CreateSteps
      <3>2. Recording(c)
        BY <1>1 DEF Recording
      <3>3. ~Seen(d)'
        BY <1>3, <1>4, <3>1, <3>2 DEF Seen
      <3> QED BY <1>4, <3>1, <3>3 DEF RecordsAlone, Recording, Verb
    <2>6. ToldByReceipt(d)'
      <3> SUFFICES ASSUME answer[d] = "ok" PROVE ToldByReceipt(d)'
        BY <1>4 DEF ToldByReceipt
      <3>1. pc[d] = "answered" /\ (Verb(d) = "createProject" => req[d].op \in Ops)
        BY RequestShape, VerbsTellRequests DEF CallIsSound, ToldByReceipt, OfItsVerb, Verb
      <3> QED BY <1>4, <1>9, <3>1 DEF CallIsSound, ToldByReceipt, Verb
    <2> QED BY <2>1, <2>2, <2>3, <2>4, <2>5, <2>6 DEF CallIsSound
  <1>12. CallIsSound(c)'
    <2>1. OfItsVerb(c)'
      BY <1>1, <1>4 DEF OfItsVerb, Request, MemberSteps, CreateSteps, ProjectSteps
    <2>2. KnowsMembers(c)' /\ KnowsProjects(c)' /\ HasTheSlug(c)' /\ RecordsAlone(c)' /\ ToldByReceipt(c)'
      BY <1>4, <1>10 DEF KnowsMembers, KnowsProjects, HasTheSlug, HasInserted, RecordsAlone, Recording,
                         ToldByReceipt, Verb, CreateSteps
    <2> QED BY <2>1, <2>2 DEF CallIsSound
  <1>13. ASSUME NEW p \in Calls
         PROVE  ProjectIsKept(p)'
    <2>1. CASE p = c
      BY <1>1, <1>2, <1>3, <1>4, <1>10, <2>1 DEF ProjectIsKept
    <2>2. CASE p # c
      <3>1. Made(p) => req[p].op \in Ops
        BY RequestShape DEF IInv, ProjectIsKept
      <3> QED BY <1>3, <1>4, <1>9, <2>2, <3>1 DEF IInv, ProjectIsKept, Made
    <2> QED BY <2>1, <2>2
  <1>14. ASSUME NEW w \in Places
         PROVE  WorkspaceIsKept(w)'
    BY <1>1, <1>4, <1>6 DEF IInv, WorkspaceIsKept
  <1>15. ASSUME NEW o \in Ops
         PROVE  ReceiptIsKept(o)'
    <2>1. CASE o = req[c].op
      BY <1>2, <1>3, <1>4, <1>10, <2>1 DEF ReceiptIsKept, Made
    <2>2. CASE o # req[c].op
      <3> SUFFICES ASSUME receipts[o] # NoReceipt PROVE ReceiptIsKept(o)'
        BY <1>3, <2>2 DEF ReceiptIsKept
      <3>1. PICK p \in Calls : Made(p) /\ req[p].op = o /\ projects[p].slug = receipts[o].req
        BY DEF IInv, ReceiptIsKept
      <3>2. p # c /\ projects'[p] = projects[p]
        BY <1>3, <1>5, <3>1
      <3> QED BY <1>4, <1>9, <3>1, <3>2 DEF ReceiptIsKept, Made
    <2> QED BY <2>1, <2>2
  <1>16. SlugsAreUnique'
    <2>1. \A p \in Calls : projects[p].slug # req[c].slug
      BY <1>1, <1>8 DEF Taken
    <2>2. \A p, q \in Calls : projects'[p].slug = projects'[q].slug => p = q \/ projects'[p] = NoProject
      BY <1>2, <1>3, <2>1 DEF IInv, SlugsAreUnique
    <2> QED BY <1>1, <2>2 DEF IInv, SlugsAreUnique
  <1>17. MadeOnce'
    <2>1. \A p \in Calls : Made(p) => req[p].op # req[c].op
      BY <1>8 DEF IInv, ProjectIsKept, Seen
    <2>2. \A p \in Calls : Made(p)' => p = c \/ Made(p)
      BY <1>3 DEF Made
    <2> QED BY <1>4, <2>1, <2>2 DEF IInv, MadeOnce
  <1>18. AdminRemainsUnlessOvertaken'
    BY <1>1, <1>4, <1>6 DEF IInv, AdminRemainsUnlessOvertaken
  <1>19. LimitsHoldUnlessOvertaken'
    <2>1. ASSUME NEW w \in Places, Cardinality(Members(w)') > MaxMembers
          PROVE  Overtaken(w, {"add"})' # {}
      BY <1>4, <1>6, <2>1 DEF IInv, LimitsHoldUnlessOvertaken
    <2>2. ASSUME NEW w \in Places, Cardinality(ProjectsOf(w)') > MaxProjects
          PROVE  Overtaken(w, {"createProject"})' # {}
      <3>1. Cardinality(ProjectsOf(w)) > MaxProjects => Overtaken(w, {"createProject"})' # {}
        BY <1>4 DEF IInv, LimitsHoldUnlessOvertaken
      <3>2. CASE w # ws \/ stale[c]
        <4>1. w = ws => c \in Overtaken(w, {"createProject"})'
          BY <1>1, <1>4, <3>2 DEF Overtaken, Verb, ws
        <4> QED BY <1>6, <2>2, <3>1, <4>1
      <3>3. CASE w = ws /\ ~stale[c]
        <4>1. Cardinality(ProjectsOf(w)) < MaxProjects
          BY <1>1, <3>3 DEF IInv, CallIsSound, KnowsProjects, CreateSteps, ws
        <4>2. IsFiniteSet(ProjectsOf(w)) /\ ProjectsOf(w)' = ProjectsOf(w) \cup {c}
          BY <1>6, <3>3, FiniteParts
        <4>3. /\ Cardinality(ProjectsOf(w)) \in Nat /\ MaxProjects \in Nat
              /\ Cardinality(ProjectsOf(w)') \in {Cardinality(ProjectsOf(w)), Cardinality(ProjectsOf(w)) + 1}
          BY <4>2, FiniteParts, FS_AddElement, WorkspacesAssumption
        <4> QED BY <2>2, <4>1, <4>3
      <3> QED BY <3>2, <3>3 DEF IInv, Types
    <2> QED BY <2>1, <2>2 DEF LimitsHoldUnlessOvertaken
  <1> QED BY <1>7, <1>11, <1>12, <1>13, <1>14, <1>15, <1>16, <1>17, <1>18, <1>19 DEF IInv

\* The start has an administrator, so the plan has a seat.
LEMMA OneSeatAtLeast == MaxMembers \in Nat /\ 1 <= MaxMembers
  <1> DEFINE first == {a \in Actors : Founders[a] # None}
  <1>1. PICK a \in Actors : Founders[a] = "admin"
    BY WorkspacesAssumption
  <1>2. {a} \subseteq first /\ IsFiniteSet(first)
    BY <1>1, WorkspacesAssumption, FS_Subset DEF Roles
  <1>3. Cardinality({a}) = 1 /\ Cardinality({a}) <= Cardinality(first) /\ Cardinality(first) \in Nat
    BY <1>2, FS_Singleton, FS_Subset, FS_CardinalityType
  <1>4. Cardinality(first) <= MaxMembers /\ MaxMembers \in Nat
    BY WorkspacesAssumption
  <1> QED BY <1>3, <1>4

LEMMA CommitWorkspaceKeepsIInv == ASSUME IInv, NEW c \in Calls, CommitWorkspace(c) PROVE IInv'
  <1>1. /\ pc[c] = "commit" /\ Verb(c) = "createWorkspace" /\ Writes(c) /\ c \in Places
        /\ req[c] \in WorkspaceRequest /\ req[c].slug \in Slugs /\ req[c].caller \in Actors
        /\ UNCHANGED <<projects, receipts>>
    <2>1. pc[c] = "commit" /\ Verb(c) = "createWorkspace" /\ pc[c] \in CreateSteps
      BY DEF CommitWorkspace, CreateSteps
    <2> QED BY <2>1, CreateCall, RequestShape DEF CommitWorkspace, Writes, Places
  <1>2. workspaces[c] = None /\ Members(c) = {} /\ ~Taken(c)
    BY <1>1 DEF IInv, WorkspaceIsKept, CallIsSound, HasTheSlug, HasInserted, Creates
  <1>3. /\ workspaces'[c] = req[c].slug /\ req[c].slug # None
        /\ \A w \in Places \ {c} : workspaces'[w] = workspaces[w] /\ members'[w] = members[w]
        /\ members'[c][req[c].caller] = "admin"
        /\ \A a \in Actors \ {req[c].caller} : members'[c][a] = members[c][a]
        /\ workspaces' \in [Places -> Slugs \cup {Home, None}]
        /\ members' \in [Places -> [Actors -> Roles \cup {None}]]
    BY <1>1, WorkspacesAssumption DEF CommitWorkspace, IInv, Types, Roles
  <1>4. /\ pc'[c] = "answered" /\ answer'[c] = "ok" /\ stale'[c] = stale[c]
        /\ \A d \in Calls \ {c} : pc'[d] = pc[d] /\ answer'[d] = answer[d]
        /\ req' = req /\ scope' = scope /\ role' = role
        /\ \A d \in Calls : ~stale'[d] => ~stale[d] /\ d \notin Kindred(c)
        /\ \A w, verbs : Overtaken(w, verbs) # {} => Overtaken(w, verbs)' # {}
    BY <1>1, WriteLeavesAlone
  <1>5. \A w \in Places : /\ ProjectsOf(w)' = ProjectsOf(w)
                          /\ w # c => Members(w)' = Members(w) /\ Admins(w)' = Admins(w)
    BY <1>1, <1>3 DEF ProjectsOf, Members, Admins
  <1>6. Members(c)' = {req[c].caller} /\ req[c].caller \in Admins(c)'
    BY <1>1, <1>2, <1>3, WorkspacesAssumption DEF Members, Admins, Roles
  <1>7. Types'
    BY <1>1, <1>3, WriteKeepsTypes DEF IInv, Types
  <1>8. \A w \in Places : workspaces[w] # None => w # c /\ workspaces'[w] # None
    BY <1>2, <1>3
  <1>9. ASSUME NEW d \in Calls \ {c}
        PROVE  CallIsSound(d)'
    <2> USE DEF IInv
    <2>1. OfItsVerb(d)'
      BY <1>4, <1>8 DEF CallIsSound, OfItsVerb, Verb
    <2>2. KnowsMembers(d)'
      <3> SUFFICES ASSUME pc[d] \in {"seats", "actor", "admins", "write"} PROVE KnowsMembers(d)'
        BY <1>4 DEF KnowsMembers
      <3>1. scope[d] \in Places /\ scope[d] # c
        BY <1>2, MemberCall DEF MemberSteps
      <3> QED BY <1>3, <1>4, <1>5, <3>1 DEF CallIsSound, KnowsMembers, RoleNow, Demotes, Verb
    <2>3. KnowsProjects(d)'
      <3>1. pc[d] \in CreateSteps \cup {"record"} /\ Verb(d) = "createProject" => scope[d] \in Places
        BY CreateCall DEF ProjectSteps
      <3> QED BY <1>4, <1>5, <3>1 DEF CallIsSound, KnowsProjects, Verb
    <2>4. HasTheSlug(d)'
      <3> SUFFICES ASSUME HasInserted(d) PROVE HasTheSlug(d)'
        BY <1>4 DEF HasTheSlug, HasInserted, Creates, Verb
      <3>1. /\ ~Taken(d)
            /\ \A e \in Calls \ {d} : HasInserted(e) /\ Verb(e) = Verb(d) => req[e].slug # req[d].slug
        BY DEF CallIsSound, HasTheSlug
      <3>2. HasInserted(c) /\ Verb(d) \in {"createWorkspace", "createProject"}
        BY <1>1 DEF HasInserted, Creates
      <3>3. ~Taken(d)'
        BY <1>1, <1>3, <1>4, <3>1, <3>2 DEF Taken, Verb
      <3> QED BY <1>4, <3>1, <3>3 DEF HasTheSlug, HasInserted, Creates, Verb
    <2>5. RecordsAlone(d)' /\ ToldByReceipt(d)'
      BY <1>1, <1>4 DEF CallIsSound, RecordsAlone, Recording, ToldByReceipt, Seen, Verb
    <2> QED BY <2>1, <2>2, <2>3, <2>4, <2>5 DEF CallIsSound
  <1>10. CallIsSound(c)'
    <2>1. OfItsVerb(c)'
      BY <1>1, <1>4 DEF OfItsVerb, Request, MemberSteps, CreateSteps, ProjectSteps
    <2>2. KnowsMembers(c)' /\ KnowsProjects(c)' /\ HasTheSlug(c)' /\ RecordsAlone(c)' /\ ToldByReceipt(c)'
      BY <1>1, <1>4 DEF KnowsMembers, KnowsProjects, HasTheSlug, HasInserted, RecordsAlone, Recording,
                        ToldByReceipt, Verb, CreateSteps
    <2> QED BY <2>1, <2>2 DEF CallIsSound
  <1>11. ASSUME NEW p \in Calls
         PROVE  ProjectIsKept(p)'
    BY <1>1, <1>4 DEF IInv, ProjectIsKept, Made
  <1>12. ASSUME NEW w \in Places
         PROVE  WorkspaceIsKept(w)'
    BY <1>3, <1>4, <1>5 DEF IInv, WorkspaceIsKept
  <1>13. (\A o \in Ops : ReceiptIsKept(o)') /\ MadeOnce'
    BY <1>1, <1>4 DEF IInv, ReceiptIsKept, MadeOnce, Made
  <1>14. SlugsAreUnique'
    <2>1. \A w \in Places : workspaces[w] # req[c].slug
      BY <1>1, <1>2 DEF Taken
    <2>2. \A v, w \in Places : workspaces'[v] = workspaces'[w] => v = w \/ workspaces'[v] = None
      BY <1>3, <2>1 DEF IInv, SlugsAreUnique
    <2> QED BY <1>1, <2>2 DEF IInv, SlugsAreUnique
  <1>15. AdminRemainsUnlessOvertaken'
    BY <1>3, <1>4, <1>5, <1>6 DEF IInv, AdminRemainsUnlessOvertaken
  <1>16. LimitsHoldUnlessOvertaken'
    <2>1. ASSUME NEW w \in Places, Cardinality(Members(w)') > MaxMembers
          PROVE  Overtaken(w, {"add"})' # {}
      <3>1. Cardinality(Members(c)') = 1
        BY <1>6, FS_Singleton
      <3>2. w # c
        BY <2>1, <3>1, OneSeatAtLeast
      <3> QED BY <1>4, <1>5, <2>1, <3>2 DEF IInv, LimitsHoldUnlessOvertaken
    <2>2. ASSUME NEW w \in Places, Cardinality(ProjectsOf(w)') > MaxProjects
          PROVE  Overtaken(w, {"createProject"})' # {}
      BY <1>4, <1>5, <2>2 DEF IInv, LimitsHoldUnlessOvertaken
    <2> QED BY <2>1, <2>2 DEF LimitsHoldUnlessOvertaken
  <1> QED BY <1>7, <1>9, <1>10, <1>11, <1>12, <1>13, <1>14, <1>15, <1>16 DEF IInv

(***************************************************************************)
(* The crash, and every step                                               *)
(***************************************************************************)

\* Steps that change no table and no record of a call, but end calls that are in flight.
LEMMA EndingKeepsIInv ==
  ASSUME IInv, UNCHANGED <<tables, req, scope, role, stale>>, Types',
         \A d \in Calls : \/ pc'[d] = pc[d] /\ answer'[d] = answer[d]
                          \/ /\ pc[d] \notin {"idle", "answered"}
                             /\ pc'[d] = "answered" /\ answer'[d] # "ok"
  PROVE  IInv'
  <1> USE DEF IInv
  <1>1. \A w \in Places : Members(w)' = Members(w) /\ Admins(w)' = Admins(w) /\ ProjectsOf(w)' = ProjectsOf(w)
    BY DEF tables, Members, Admins, ProjectsOf
  <1>2. ASSUME NEW d \in Calls
        PROVE  CallIsSound(d)' /\ ProjectIsKept(d)'
    <2>1. OfItsVerb(d)'
      BY DEF CallIsSound, OfItsVerb, Verb, tables, MemberSteps, CreateSteps, ProjectSteps
    <2>2. ToldByReceipt(d)' /\ ProjectIsKept(d)'
      BY DEF CallIsSound, ToldByReceipt, ProjectIsKept, Made, Verb, tables
    <2>3. KnowsMembers(d)'
      <3>1. pc'[d] \in {"actor", "admins", "write"} => scope[d] \in Places
        BY MemberCall DEF MemberSteps
      <3> QED BY <1>1, <3>1 DEF CallIsSound, KnowsMembers, RoleNow, Demotes, Verb, tables
    <2>4. KnowsProjects(d)'
      <3>1. pc'[d] \in CreateSteps \cup {"record"} /\ Verb(d) = "createProject" =>
               scope[d] \in Places /\ pc'[d] = pc[d]
        BY CreateCall DEF CreateSteps, ProjectSteps
      <3> QED BY <1>1, <3>1 DEF CallIsSound, KnowsProjects, Verb
    <2>5. HasTheSlug(d)'
      BY DEF CallIsSound, HasTheSlug, HasInserted, Creates, Verb, Taken, tables
    <2>6. RecordsAlone(d)'
      BY DEF CallIsSound, RecordsAlone, Recording, Verb, Seen, tables
    <2> QED BY <2>1, <2>2, <2>3, <2>4, <2>5, <2>6 DEF CallIsSound
  <1>3. ASSUME NEW w \in Places
        PROVE  WorkspaceIsKept(w)'
    BY <1>1 DEF WorkspaceIsKept, tables
  <1>4. (\A o \in Ops : ReceiptIsKept(o)') /\ SlugsAreUnique' /\ MadeOnce'
    BY DEF ReceiptIsKept, SlugsAreUnique, MadeOnce, Made, tables
  <1>5. \A d \in Calls : answer[d] = "ok" => /\ answer'[d] = "ok" /\ req'[d] = req[d]
                                             /\ scope'[d] = scope[d] /\ (stale[d] => stale'[d])
    BY DEF CallIsSound, ToldByReceipt
  <1>6. AdminRemainsUnlessOvertaken'
    BY <1>1, <1>5, OvertakenStay DEF AdminRemainsUnlessOvertaken, tables
  <1>7. LimitsHoldUnlessOvertaken'
    BY <1>1, <1>5, OvertakenStay DEF LimitsHoldUnlessOvertaken
  <1> QED BY <1>2, <1>3, <1>4, <1>6, <1>7

LEMMA CrashKeepsIInv == ASSUME IInv, Crash PROVE IInv'
  <1>1. Types'
    BY DEF Crash, IInv, Types, tables, Steps
  <1> QED BY <1>1, EndingKeepsIInv DEF Crash, InFlight

LEMMA StutterKeepsIInv == ASSUME IInv, UNCHANGED vars PROVE IInv'
  <1>1. Types'
    BY DEF IInv, Types, vars, tables
  <1> QED BY <1>1, EndingKeepsIInv DEF vars

LEMMA HandleKeepsIInv == ASSUME IInv, NEW c \in Calls, Handle(c) PROVE IInv'
  BY ResolveKeepsIInv, ReadCallerKeepsIInv, ReadTargetKeepsIInv, ReadSeatsKeepsIInv,
     ReadActorKeepsIInv, CountAdminsKeepsIInv, UpsertKeepsIInv, DeleteKeepsIInv, CheckKeepsIInv,
     CountProjectsKeepsIInv, ReadSlugKeepsIInv, InsertKeepsIInv, RecordKeepsIInv,
     CommitProjectKeepsIInv, CommitWorkspaceKeepsIInv, RecheckKeepsIInv
  DEF Handle

LEMMA NextKeepsIInv == IInv /\ [Next]_vars => IInv'
  BY SubmitKeepsIInv, HandleKeepsIInv, CrashKeepsIInv, StutterKeepsIInv DEF Next

\* The inductive invariant holds of every reachable state.
THEOREM AlwaysIInv == Spec => []IInv
  BY InitEstablishesIInv, NextKeepsIInv, PTL DEF Spec

\* The tables of workspaces, members and projects keep their types; only a workspace
\* that exists has members and projects, and slugs are unique however creates race.
THEOREM TypeCorrect == Spec => []WsTypeOK
  <1>1. IInv => WsTypeOK
    BY DEF IInv, Types, WsTypeOK, WorkspaceIsKept, SlugsAreUnique
  <1> QED BY <1>1, AlwaysIInv, PTL

\* removeWorkspaceMember and a change of role leave a workspace without an administrator
\* only when another change of its members has overtaken them.
THEOREM AnAdminRemains == Spec => []AdminRemainsUnlessOvertaken
  <1>1. IInv => AdminRemainsUnlessOvertaken
    BY DEF IInv
  <1> QED BY <1>1, AlwaysIInv, PTL

\* An operation id has made one project, and whoever is told ok of it finds that project.
LEMMA IInvImpliesOneProject == IInv => OneProjectPerOperation
  <1> SUFFICES ASSUME IInv, NEW c \in Calls, Verb(c) = "createProject", answer[c] = "ok"
               PROVE  LET made == {p \in Calls : projects[p] # NoProject /\ req[p].op = req[c].op}
                      IN  Cardinality(made) = 1 /\ \A p \in made : projects[p].slug = req[c].slug
    BY DEF OneProjectPerOperation
  <1> DEFINE made == {p \in Calls : projects[p] # NoProject /\ req[p].op = req[c].op}
  <1>1. /\ req[c].op \in Ops /\ receipts[req[c].op] # NoReceipt
        /\ receipts[req[c].op].req = req[c].slug
    <2>1. pc[c] = "answered" /\ receipts[req[c].op] # NoReceipt /\ receipts[req[c].op].req = req[c].slug
      BY DEF IInv, CallIsSound, ToldByReceipt
    <2> QED BY <2>1, RequestShape, VerbsTellRequests DEF IInv, CallIsSound, OfItsVerb, Verb
  <1>2. PICK p \in Calls : Made(p) /\ req[p].op = req[c].op /\ projects[p].slug = receipts[req[c].op].req
    BY <1>1 DEF IInv, ReceiptIsKept
  <1>3. made = {p}
    BY <1>2 DEF IInv, MadeOnce, Made
  <1> QED BY <1>1, <1>2, <1>3, FS_Singleton

\* addWorkspaceMember and createProject keep to the plan's limits unless an addition was
\* overtaken by another, and an operation id makes one project, whatever is retried.
THEOREM AdditionsSound == Spec => []AdditionsAreSound
  <1>1. IInv => AdditionsAreSound
    BY IInvImpliesOneProject DEF IInv, AdditionsAreSound
  <1> QED BY <1>1, AlwaysIInv, PTL
=============================================================================
