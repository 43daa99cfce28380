----------------------------- MODULE Attachments -----------------------------
(***************************************************************************)
(* Attachments in three calls: createUpload reserves a slot, uploadBytes   *)
(* writes its file, finalize makes it ready; then it can be downloaded.    *)
(* The row is in Postgres and the file on disk: what a transaction does to *)
(* the row is undone when it fails, what it has done to the file is not.   *)
(***************************************************************************)
EXTENDS FiniteSets

CONSTANTS
    Calls,     \* arrivals of a request; a slot has the name of the call that made it
    Ops,       \* operation ids
    Requests,  \* per call: what it may ask
    None       \* SQL NULL

\* data: an upload of some bytes, or of none.
CreateRequest == [verb : {"create"}, op : Ops, task : {"task", "noTask"}]
UploadRequest == [verb : {"upload"}, slot : Calls, data : {"bytes", "nothing"}]
FinalizeRequest == [verb : {"finalize"}, op : Ops, slot : Calls]
DownloadRequest == [verb : {"download"}, slot : Calls]
Request == CreateRequest \cup UploadRequest \cup FinalizeRequest \cup DownloadRequest

\* The errors that are answered; the last two as internal_error.
Refusals == {"taskNotFound", "notFound", "notReady", "alreadyFinalized", "idempotencyConflict",
             "operationExists", "internalError"}

ASSUME AttachmentsAssumption ==
    /\ IsFiniteSet(Calls) /\ None \notin Calls \cup {"pending", "ready"}
    /\ Requests \in [Calls -> SUBSET Request]

VARIABLES
    slots,     \* the committed attachments table: the status of each
    file,      \* the files on disk: how much of which upload each holds
    receipts,  \* the committed operations table
    lock,      \* per row of attachments: the call that has locked or written to it
    pc,        \* per call: where its handler stands
    req,       \* per call: what is asked
    excuses,   \* per slot: what has gone wrong with its file (for the properties only)
    answer     \* per call: what the client was told

tables == <<slots, receipts>>
vars == <<tables, file, lock, pc, req, excuses, answer>>

NoReceipt == [req |-> None]
NoRequest == [verb |-> None]
NoAnswer == [outcome |-> "none", slot |-> None, content |-> None]
\* lstat finds no file.
Absent == [size |-> "absent", by |-> None]

Verb(c) == req[c].verb
Slot(c) == req[c].slot
Exists(s) == slots[s] # None
\* What the request hash covers.
Asked(c) == IF Verb(c) = "create" THEN <<"create", req[c].task>> ELSE <<Verb(c), Slot(c)>>

Init ==
    /\ slots = [s \in Calls |-> None]
    /\ file = [s \in Calls |-> Absent]
    /\ receipts = [o \in Ops |-> NoReceipt]
    /\ lock = [s \in Calls |-> None]
    /\ pc = [c \in Calls |-> "idle"]
    /\ req = [c \in Calls |-> NoRequest]
    /\ excuses = [s \in Calls |-> {}]
    /\ answer = [c \in Calls |-> NoAnswer]

(***************************************************************************)
(* Arrival, the lookup of the operation and the answer                     *)
(***************************************************************************)
FirstStep(q) == CASE q.verb = "upload" -> "lock"
                  [] q.verb = "download" -> "status"
                  [] OTHER -> "check"

Submit(c, q) ==
    /\ pc[c] = "idle"
    /\ req' = [req EXCEPT ![c] = q]
    /\ pc' = [pc EXCEPT ![c] = FirstStep(q)]
    /\ UNCHANGED <<tables, file, lock, excuses, answer>>

Go(c, to) == pc' = [pc EXCEPT ![c] = to] /\ UNCHANGED <<tables, file, lock, req, excuses, answer>>

Release(c) == lock' = [s \in Calls |-> IF lock[s] = c THEN None ELSE lock[s]]

\* The handler returns or throws; its transaction, if it has one, is over.
Answer(c, ans) ==
    /\ pc' = [pc EXCEPT ![c] = "answered"]
    /\ answer' = [answer EXCEPT ![c] = ans]
    /\ Release(c)
    /\ UNCHANGED req

Refuse(c, err) ==
    /\ Answer(c, [NoAnswer EXCEPT !.outcome = err])
    /\ UNCHANGED <<tables, file, excuses>>

Seen(c) == receipts[req[c].op] # NoReceipt
AnswerFromReceipt(c) ==
    LET r == receipts[req[c].op]
    IN  /\ Seen(c)
        /\ Answer(c, [NoAnswer EXCEPT !.slot = r.slot,
                                      !.outcome = IF r.req = Asked(c) THEN "ok"
                                                  ELSE "idempotencyConflict"])
        /\ UNCHANGED <<tables, file, excuses>>

Check(c) ==
    /\ pc[c] = "check"
    /\ \/ AnswerFromReceipt(c)
       \/ ~Seen(c) /\ Go(c, IF Verb(c) = "create" THEN "task" ELSE "row")

\* A throw inside a transaction that is followed by a second lookup.
Abort(c, err) ==
    /\ pc' = [pc EXCEPT ![c] = "recheck"]
    /\ answer' = [answer EXCEPT ![c] = [NoAnswer EXCEPT !.outcome = err]]
    /\ Release(c)
    /\ UNCHANGED <<tables, file, req, excuses>>

Recheck(c) ==
    /\ pc[c] = "recheck"
    /\ AnswerFromReceipt(c) \/ (~Seen(c) /\ Refuse(c, answer[c].outcome))

(***************************************************************************)
(* createUpload                                                            *)
(***************************************************************************)
ReadTask(c) ==
    /\ pc[c] = "task"
    /\ \/ req[c].task = "noTask" /\ Refuse(c, "taskNotFound")
       \/ req[c].task = "task" /\ Go(c, "record")

\* The calls that c's next statement has to wait for.
Blockers(c) ==
    (CASE pc[c] = "update" -> {lock[Slot(c)]}
       [] pc[c] \in {"record", "recordReady"} ->
             {d \in Calls : pc[d] = "commit" /\ req[d].op = req[c].op}
       [] OTHER -> {}) \ {None, c}
Free(c) == Blockers(c) = {}

\* Mutant: the operation is recorded over one that is there.
Record_Overwrites(c) == pc[c] = "record" /\ Go(c, "commit")
Record(c) ==
    /\ pc[c] = "record" /\ Free(c)
    /\ \/ Seen(c) /\ Abort(c, "operationExists")
       \/ ~Seen(c) /\ Go(c, "commit")

Receipt(c, s) == receipts' = [receipts EXCEPT ![req[c].op] = [req |-> Asked(c), slot |-> s]]

CommitCreate(c) ==
    /\ pc[c] = "commit" /\ Verb(c) = "create"
    /\ slots' = [slots EXCEPT ![c] = "pending"]
    /\ Receipt(c, c)
    /\ Answer(c, [NoAnswer EXCEPT !.outcome = "ok", !.slot = c])
    /\ UNCHANGED <<file, excuses>>

(***************************************************************************)
(* uploadBytes                                                             *)
(***************************************************************************)

\* Mutant: the status is read without a lock.
LockSlot_PlainSelect(c) ==
    /\ pc[c] = "lock"
    /\ \/ slots[Slot(c)] # "pending" /\ Refuse(c, "alreadyFinalized")
       \/ slots[Slot(c)] = "pending" /\ Go(c, "open")
\* FOR UPDATE SKIP LOCKED: whoever comes second is turned down at once.
LockSlot(c) ==
    /\ pc[c] = "lock"
    /\ \/ ~Exists(Slot(c)) /\ Refuse(c, "notFound")
       \/ /\ Exists(Slot(c))
          /\ lock[Slot(c)] # None \/ slots[Slot(c)] # "pending"
          /\ Refuse(c, "alreadyFinalized")
       \/ /\ slots[Slot(c)] = "pending" /\ lock[Slot(c)] = None
          /\ lock' = [lock EXCEPT ![Slot(c)] = c]
          /\ pc' = [pc EXCEPT ![c] = "open"]
          /\ UNCHANGED <<tables, file, req, excuses, answer>>

\* A finalize that has found the file goes by what may no longer be there.
HasFoundFile(d, s) == Verb(d) = "finalize" /\ Slot(d) = s /\ pc[d] \in {"update", "record", "commit"}

Excuse(s, e) == excuses' = [excuses EXCEPT ![s] = @ \cup e]

\* writeFile opens the file, which empties it.
OpenFile(c) ==
    /\ pc[c] = "open"
    /\ file' = [file EXCEPT ![Slot(c)] = [size |-> "empty", by |-> c]]
    /\ Excuse(Slot(c), IF \E d \in Calls : HasFoundFile(d, Slot(c)) THEN {"rewritten"} ELSE {})
    /\ pc' = [pc EXCEPT ![c] = "write"]
    /\ UNCHANGED <<tables, lock, req, answer>>

\* Some of the bytes, or all that are left.
WriteFile(c) ==
    /\ pc[c] = "write"
    /\ \/ /\ req[c].data = "bytes" /\ file[Slot(c)] # [size |-> "partial", by |-> c]
          /\ file' = [file EXCEPT ![Slot(c)] = [size |-> "partial", by |-> c]]
          /\ UNCHANGED pc
       \/ /\ req[c].data = "bytes"
          /\ file' = [file EXCEPT ![Slot(c)] = [size |-> "whole", by |-> c]]
          /\ pc' = [pc EXCEPT ![c] = "uploaded"]
       \/ /\ req[c].data = "nothing"
          /\ pc' = [pc EXCEPT ![c] = "uploaded"]
          /\ UNCHANGED file
    /\ UNCHANGED <<tables, lock, req, excuses, answer>>

\* The disk is full: the transaction rolls back, the file stays as it is.
FailWrite(c) ==
    /\ pc[c] = "write"
    /\ Excuse(Slot(c), {"brokenOff"})
    /\ Answer(c, [NoAnswer EXCEPT !.outcome = "internalError"])
    /\ UNCHANGED <<tables, file>>

CommitUpload(c) ==
    /\ pc[c] = "uploaded"
    /\ Refuse(c, "ok")

(***************************************************************************)
(* finalize                                                                *)
(***************************************************************************)
ReadRow(c) ==
    /\ pc[c] = "row"
    /\ \/ ~Exists(Slot(c)) /\ Refuse(c, "notFound")
       \/ slots[Slot(c)] = "ready" /\ Go(c, "recordReady")
       \/ slots[Slot(c)] = "pending" /\ Go(c, "exists")

\* Of an attachment that is ready the operation is recorded by itself; a key that
\* is there already is not looked up again.
RecordReady(c) ==
    /\ pc[c] = "recordReady" /\ Free(c)
    /\ \/ Seen(c) /\ Refuse(c, "internalError")
       \/ /\ ~Seen(c)
          /\ Receipt(c, Slot(c))
          /\ Answer(c, [NoAnswer EXCEPT !.outcome = "ok", !.slot = Slot(c)])
          /\ UNCHANGED <<slots, file, excuses>>

\* Mutant: an empty file counts.
Uploaded_AnySize(s) == file[s].size # "absent"
\* storage.exists: a file that is not empty.
Uploaded(s) == file[s].size \in {"partial", "whole"}

FindFile(c) ==
    /\ pc[c] = "exists"
    /\ \/ ~Uploaded(Slot(c)) /\ Refuse(c, "notReady")
       \/ Uploaded(Slot(c)) /\ Go(c, "update")

\* The UPDATE waits for an upload, or another finalize, that holds the row.
UpdateSlot(c) ==
    /\ pc[c] = "update" /\ Free(c)
    /\ lock' = [lock EXCEPT ![Slot(c)] = c]
    /\ pc' = [pc EXCEPT ![c] = "record"]
    /\ UNCHANGED <<tables, file, req, excuses, answer>>

CommitFinalize(c) ==
    /\ pc[c] = "commit" /\ Verb(c) = "finalize"
    /\ slots' = [slots EXCEPT ![Slot(c)] = "ready"]
    /\ Receipt(c, Slot(c))
    /\ Answer(c, [NoAnswer EXCEPT !.outcome = "ok", !.slot = Slot(c)])
    /\ UNCHANGED <<file, excuses>>

(***************************************************************************)
(* The download route                                                      *)
(***************************************************************************)

MayDownload(s) == slots[s] = "ready"

ReadStatus(c) ==
    /\ pc[c] = "status"
    /\ \/ ~Exists(Slot(c)) /\ Refuse(c, "notFound")
       \/ Exists(Slot(c)) /\ ~MayDownload(Slot(c)) /\ Refuse(c, "notReady")
       \/ MayDownload(Slot(c)) /\ Go(c, "read")

ReadFile(c) ==
    /\ pc[c] = "read"
    /\ Answer(c, [outcome |-> "ok", slot |-> Slot(c), content |-> file[Slot(c)]])
    /\ UNCHANGED <<tables, file, excuses>>

(***************************************************************************)
(* The environment                                                         *)
(***************************************************************************)
InFlight(c) == pc[c] \notin {"idle", "answered"}

\* The server dies: Postgres rolls back what is open, the files stay as they are.
Crash ==
    /\ \E c \in Calls : InFlight(c)
    /\ pc' = [c \in Calls |-> IF InFlight(c) THEN "answered" ELSE pc[c]]
    /\ answer' = [c \in Calls |-> IF InFlight(c) THEN [NoAnswer EXCEPT !.outcome = "lost"]
                                  ELSE answer[c]]
    /\ lock' = [s \in Calls |-> None]
    /\ excuses' = [s \in Calls |-> IF \E c \in Calls : pc[c] = "write" /\ Slot(c) = s
                                   THEN excuses[s] \cup {"brokenOff"} ELSE excuses[s]]
    /\ UNCHANGED <<tables, file, req>>

Handle(c) ==
    \/ Check(c) \/ Recheck(c) \/ ReadTask(c) \/ Record(c) \/ CommitCreate(c)
    \/ LockSlot(c) \/ OpenFile(c) \/ WriteFile(c) \/ FailWrite(c) \/ CommitUpload(c)
    \/ ReadRow(c) \/ RecordReady(c) \/ FindFile(c) \/ UpdateSlot(c) \/ CommitFinalize(c)
    \/ ReadStatus(c) \/ ReadFile(c)

Next ==
    \/ \E c \in Calls : \E q \in Requests[c] : Submit(c, q)
    \/ \E c \in Calls : Handle(c)
    \/ Crash

Spec == Init /\ [][Next]_vars

(***************************************************************************)
(* What is promised                                                        *)
(***************************************************************************)
Steps == {"idle", "check", "task", "record", "commit", "recheck", "lock", "open", "write",
          "uploaded", "row", "recordReady", "exists", "update", "status", "read", "answered"}

Writing(c) == pc[c] = "write"

\* Every variable has its type.  Only calls in flight hold rows, a file is written
\* by one call at a time, and by whoever holds its row; an operation reserves one
\* slot, whatever is retried beside it.
AttTypeOK ==
    /\ slots \in [Calls -> {"pending", "ready", None}]
    /\ file \in [Calls -> [size : {"absent", "empty", "partial", "whole"}, by : Calls \cup {None}]]
    /\ pc \in [Calls -> Steps]
    /\ \A c \in Calls : answer[c].outcome \in Refusals \cup {"none", "ok", "lost"}
    /\ \A s \in Calls : lock[s] # None => InFlight(lock[s]) /\ Slot(lock[s]) = s
    /\ \A c \in Calls : Writing(c) => lock[Slot(c)] = c
    /\ \A s, t \in Calls : Exists(s) /\ Exists(t) /\ req[s].op = req[t].op => s = t

\* A download gets the whole of what one upload brought, unless the write of the
\* file broke off (a crash, a full disk) or another upload has emptied it between
\* the look of finalize at the file and its UPDATE.
DownloadsAreWhole ==
    \A c \in Calls : answer[c].content # None =>
        answer[c].content.size = "whole" \/ excuses[Slot(c)] # {}

\* The file of an attachment that is ready never changes, although nothing of the
\* file is in the transactions that write it and that make it ready.
ReadyFilesStand == \A s \in Calls : slots[s] = "ready" => slots'[s] = "ready" /\ file'[s] = file[s]

\* Who is told that its upload has been accepted finds its bytes in the slot: "two
\* concurrent uploads to the same slot cannot both succeed" (uploadBytes).
AcceptedUploadsAreThere ==
    \A c \in Calls : (pc[c] = "uploaded" /\ answer'[c].outcome = "ok") =>
        file'[Slot(c)] = [size |-> IF req[c].data = "bytes" THEN "whole" ELSE "empty", by |-> c]

\* A step keeps the files of whoever was told that they are there.
FilesStand == [][ReadyFilesStand /\ AcceptedUploadsAreThere]_vars
============================================================================
