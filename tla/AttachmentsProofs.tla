------------------------- MODULE AttachmentsProofs -------------------------
(***************************************************************************)
(* Theorems about Attachments, for every set of calls, operations and      *)
(* requests: its types, that a download is whole unless excused, and that  *)
(* the files of ready attachments and of accepted uploads stand.           *)
(***************************************************************************)
EXTENDS Attachments, TLAPS

(***************************************************************************)
(* The inductive invariant.  A file is guarded by the lock of its row,     *)
(* which one transaction holds while it writes; what a finalize has found  *)
(* without the lock stays true, or has left an excuse.                     *)
(***************************************************************************)
Sizes == {"absent", "empty", "partial", "whole"}
File == [size : Sizes, by : Calls \cup {None}]
Asks == ({"create"} \X {"task", "noTask"}) \cup ({"finalize"} \X Calls)
Receipts == [req : Asks, slot : Calls]
Outcomes == Refusals \cup {"none", "ok", "lost"}
Answers == [outcome : Outcomes, slot : Calls \cup {None}, content : File \cup {None}]

Types ==
    /\ slots \in [Calls -> {"pending", "ready", None}]
    /\ file \in [Calls -> File]
    /\ receipts \in [Ops -> Receipts \cup {NoReceipt}]
    /\ lock \in [Calls -> Calls \cup {None}]
    /\ pc \in [Calls -> Steps]
    /\ req \in [Calls -> Request \cup {NoRequest}]
    /\ excuses \in [Calls -> SUBSET {"brokenOff", "rewritten"}]
    /\ answer \in [Calls -> Answers]

\* The handler that stands at each step.
InUpload(c) == pc[c] \in {"open", "write", "uploaded"}
InFinalize(c) == Verb(c) = "finalize" /\ pc[c] \in {"record", "commit"}
Holding(c) == InUpload(c) \/ InFinalize(c)

OfItsVerb(c) ==
    /\ pc[c] # "idle" => req[c] \in Request
    /\ InUpload(c) \/ pc[c] = "lock" => req[c] \in UploadRequest
    /\ pc[c] \in {"status", "read"} => req[c] \in DownloadRequest
    /\ pc[c] \in {"row", "recordReady", "exists", "update"} => req[c] \in FinalizeRequest
    /\ pc[c] = "task" => req[c] \in CreateRequest
    /\ pc[c] \in {"check", "record", "commit", "recheck"} => req[c] \in CreateRequest \cup FinalizeRequest
    /\ answer[c].content # None => pc[c] = "answered" /\ req[c] \in DownloadRequest

\* What the handler of c has learnt of its slot and still goes by.
KnowsItsSlot(c) ==
    /\ Holding(c) => lock[Slot(c)] = c
    /\ InUpload(c) => slots[Slot(c)] = "pending"
    /\ InFinalize(c) \/ pc[c] \in {"exists", "update"} => Exists(Slot(c))
    /\ pc[c] = "read" => slots[Slot(c)] = "ready"
    /\ Exists(c) => pc[c] = "answered" /\ req[c] \in CreateRequest /\ Seen(c)

\* What the file of its slot holds while the handler of c is at work on it.
KnowsItsFile(c) ==
    /\ pc[c] = "write" => /\ file[Slot(c)].by = c
                          /\ file[Slot(c)].size \in {"empty", "partial"}
                          /\ req[c].data = "nothing" => file[Slot(c)].size = "empty"
    /\ pc[c] = "uploaded" =>
          file[Slot(c)] = [size |-> IF req[c].data = "bytes" THEN "whole" ELSE "empty", by |-> c]
    /\ HasFoundFile(c, Slot(c)) => Uploaded(Slot(c)) \/ excuses[Slot(c)] # {}

\* A row is locked by a handler at work on it; part of a file is being written or was
\* left behind; a ready file is whole or excused.
SlotIsKept(s) ==
    /\ lock[s] # None => Holding(lock[s]) /\ Slot(lock[s]) = s
    /\ file[s].size = "partial" => \/ excuses[s] # {}
                                   \/ lock[s] # None /\ pc[lock[s]] = "write"
    /\ slots[s] = "ready" => file[s].size = "whole" \/ excuses[s] # {}

\* An operation is recorded once.
RecordsAlone(c) ==
    pc[c] = "commit" => /\ ~Seen(c)
                        /\ \A d \in Calls \ {c} : pc[d] = "commit" => req[d].op # req[c].op

OneSlotPerOperation ==
    \A s, t \in Calls : Exists(s) /\ Exists(t) /\ req[s].op = req[t].op => s = t

IInv ==
    /\ Types
    /\ \A c \in Calls : OfItsVerb(c) /\ KnowsItsSlot(c) /\ KnowsItsFile(c) /\ RecordsAlone(c)
    /\ \A s \in Calls : SlotIsKept(s)
    /\ OneSlotPerOperation
    /\ DownloadsAreWhole

(***************************************************************************)
(* Facts about the shapes                                                  *)
(***************************************************************************)
LEMMA ReceiptIsNotNoReceipt == \A r \in Receipts : r # NoReceipt
  <1> SUFFICES ASSUME NEW r \in Receipts, r = NoReceipt PROVE FALSE
    OBVIOUS
  <1>1. DOMAIN r = {"req", "slot"} /\ DOMAIN NoReceipt = {"req"}
    BY DEF Receipts, NoReceipt
  <1> QED BY <1>1

\* What a request asks for has the types of its verb.
LEMMA RequestShape ==
  /\ \A q \in CreateRequest : q.verb = "create" /\ q.op \in Ops /\ q.task \in {"task", "noTask"}
  /\ \A q \in UploadRequest : q.verb = "upload" /\ q.slot \in Calls /\ q.data \in {"bytes", "nothing"}
  /\ \A q \in FinalizeRequest : q.verb = "finalize" /\ q.op \in Ops /\ q.slot \in Calls
  /\ \A q \in DownloadRequest : q.verb = "download" /\ q.slot \in Calls
  BY DEF CreateRequest, UploadRequest, FinalizeRequest, DownloadRequest

LEMMA VerbsTellRequests ==
  ASSUME NEW q \in Request
  PROVE  /\ q.verb \in {"create", "upload", "finalize", "download"}
         /\ q.verb = "create" => q \in CreateRequest
         /\ q.verb = "upload" => q \in UploadRequest
         /\ q.verb = "finalize" => q \in FinalizeRequest
         /\ q.verb = "download" => q \in DownloadRequest
  BY RequestShape DEF Request

LEMMA InitEstablishesIInv == Init => IInv
  <1> SUFFICES ASSUME Init PROVE IInv
    OBVIOUS
  <1> USE DEF Init
  <1>1. Types
    BY AttachmentsAssumption DEF Types, File, Sizes, Absent, Answers, NoAnswer, Outcomes, Steps
  <1>2. \A c \in Calls : OfItsVerb(c) /\ KnowsItsSlot(c) /\ KnowsItsFile(c) /\ RecordsAlone(c)
    BY DEF OfItsVerb, KnowsItsSlot, KnowsItsFile, RecordsAlone, InUpload, InFinalize, Holding,
           HasFoundFile, Exists, NoAnswer
  <1>3. \A s \in Calls : SlotIsKept(s)
    BY AttachmentsAssumption DEF SlotIsKept, Absent
  <1>4. OneSlotPerOperation
    BY DEF OneSlotPerOperation, Exists
  <1>5. DownloadsAreWhole
    BY DEF DownloadsAreWhole, NoAnswer
  <1> QED BY <1>1, <1>2, <1>3, <1>4, <1>5 DEF IInv

(***************************************************************************)
(* What a step of one call leaves alone                                    *)
(***************************************************************************)

\* A step of c that writes nothing keeps the invariant if it does for c: it takes at
\* most the lock of a row that is free, and gives up none that a file needs.
LEMMA QuietStep ==
  ASSUME IInv, NEW c \in Calls, NEW to \in Steps,
         UNCHANGED <<tables, file, req, excuses>>, pc' = [pc EXCEPT ![c] = to],
         answer' \in [Calls -> Answers],
         \A d \in Calls : answer'[d] = answer[d] \/ answer'[d].content = None,
         lock' \in [Calls -> Calls \cup {None}],
         \A s \in Calls : lock'[s] # lock[s] => lock[s] \in {c, None} /\ lock'[s] \in {c, None},
         \A s \in Calls : lock'[s] = c => Holding(c)' /\ Slot(c) = s,
         pc[c] # "write",
         OfItsVerb(c)', KnowsItsSlot(c)', KnowsItsFile(c)', RecordsAlone(c)'
  PROVE  IInv'
  <1> USE DEF IInv
  <1>1. Types'
    BY DEF Types, tables
  <1>2. ASSUME NEW d \in Calls \ {c}
        PROVE  /\ pc'[d] = pc[d] /\ req'[d] = req[d]
               /\ \A s \in Calls : lock[s] = d => lock'[s] = d
    BY AttachmentsAssumption DEF Types
  <1>3. ASSUME NEW d \in Calls \ {c}
        PROVE  OfItsVerb(d)' /\ KnowsItsSlot(d)'
    BY <1>2, RequestShape
       DEF OfItsVerb, KnowsItsSlot, InUpload, InFinalize, Holding, Verb, Slot, Exists, Seen, tables
  <1>4. ASSUME NEW d \in Calls \ {c}
        PROVE  KnowsItsFile(d)'
    <2>1. KnowsItsFile(d) /\ file' = file /\ excuses' = excuses
      OBVIOUS
    <2> QED BY <1>2, <2>1 DEF KnowsItsFile, HasFoundFile, Verb, Slot, Uploaded
  <1>5. ASSUME NEW d \in Calls \ {c}
        PROVE  RecordsAlone(d)'
    BY <1>2 DEF RecordsAlone, Seen, tables
  <1>6. ASSUME NEW s \in Calls
        PROVE  SlotIsKept(s)'
    BY <1>2, AttachmentsAssumption DEF SlotIsKept, Types, Holding, InUpload, InFinalize, Verb, Slot, tables
  <1>7. OneSlotPerOperation' /\ DownloadsAreWhole'
    BY <1>1, <1>2 DEF OneSlotPerOperation, DownloadsAreWhole, Exists, Slot, Types, tables
  <1> QED BY <1>1, <1>3, <1>4, <1>5, <1>6, <1>7

\* The same for a step that moves on with what c has, and for one that ends it or its
\* transaction.
LEMMA GoKeepsIInv ==
  ASSUME IInv, NEW c \in Calls, NEW to \in Steps, Go(c, to), pc[c] # "write",
         OfItsVerb(c)', KnowsItsSlot(c)', KnowsItsFile(c)', RecordsAlone(c)',
         Holding(c) => Holding(c)'
  PROVE  IInv'
  <1>1. /\ UNCHANGED <<tables, file, req, excuses, lock>> /\ answer' \in [Calls -> Answers]
        /\ lock' \in [Calls -> Calls \cup {None}] /\ pc' = [pc EXCEPT ![c] = to]
        /\ answer' = answer
    BY DEF Go, IInv, Types
  <1>2. \A s \in Calls : lock'[s] = c => Holding(c)' /\ Slot(c) = s
    BY <1>1, AttachmentsAssumption DEF IInv, SlotIsKept
  <1> QED BY <1>1, <1>2, QuietStep

LEMMA EndKeepsIInv ==
  ASSUME IInv, NEW c \in Calls, pc[c] \notin {"idle", "write", "answered"},
         NEW to \in {"answered", "recheck"}, NEW a \in Answers, a.content = None,
         to = "recheck" => req[c] \in CreateRequest \cup FinalizeRequest,
         pc' = [pc EXCEPT ![c] = to], answer' = [answer EXCEPT ![c] = a], Release(c),
         UNCHANGED <<tables, file, req, excuses>>
  PROVE  IInv'
  <1>1. OfItsVerb(c)'
    BY DEF IInv, Types, OfItsVerb, InUpload
  <1>2. KnowsItsSlot(c)'
    BY DEF IInv, Types, KnowsItsSlot, Holding, InUpload, InFinalize, Exists, Seen, tables
  <1>3. KnowsItsFile(c)' /\ RecordsAlone(c)'
    BY DEF IInv, Types, KnowsItsFile, RecordsAlone, HasFoundFile
  <1>4. lock' \in [Calls -> Calls \cup {None}] /\ to \in Steps
    BY DEF IInv, Types, Release, Steps
  <1>5. \A s \in Calls : /\ lock'[s] # c
                         /\ lock'[s] # lock[s] => lock[s] = c /\ lock'[s] = None
    BY AttachmentsAssumption DEF Release
  <1>6. /\ answer' \in [Calls -> Answers]
        /\ \A d \in Calls : answer'[d] = answer[d] \/ answer'[d].content = None
    BY DEF IInv, Types
  <1> QED BY <1>1, <1>2, <1>3, <1>4, <1>5, <1>6, QuietStep

LEMMA RefuseKeepsIInv ==
  ASSUME IInv, NEW c \in Calls, pc[c] \notin {"idle", "write", "answered"}, NEW e \in Outcomes, Refuse(c, e)
  PROVE  IInv'
  <1>1. [NoAnswer EXCEPT !.outcome = e] \in Answers /\ [NoAnswer EXCEPT !.outcome = e].content = None
    BY DEF NoAnswer, Answers
  <1> QED BY <1>1, EndKeepsIInv DEF Refuse, Answer

LEMMA AbortKeepsIInv ==
  ASSUME IInv, NEW c \in Calls, pc[c] \notin {"idle", "write", "answered"}, NEW e \in Outcomes, Abort(c, e),
         req[c] \in CreateRequest \cup FinalizeRequest
  PROVE  IInv'
  <1>1. [NoAnswer EXCEPT !.outcome = e] \in Answers /\ [NoAnswer EXCEPT !.outcome = e].content = None
    BY DEF NoAnswer, Answers
  <1> QED BY <1>1, EndKeepsIInv DEF Abort

LEMMA ReceiptStepKeepsIInv ==
  ASSUME IInv, NEW c \in Calls, pc[c] \notin {"idle", "write", "answered"}, AnswerFromReceipt(c),
         req[c] \in CreateRequest \cup FinalizeRequest
  PROVE  IInv'
  <1> DEFINE r == receipts[req[c].op]
             a == [NoAnswer EXCEPT !.slot = r.slot,
                                   !.outcome = IF r.req = Asked(c) THEN "ok"
                                               ELSE "idempotencyConflict"]
  <1>1. r.slot \in Calls
    BY RequestShape DEF AnswerFromReceipt, Seen, IInv, Types, Receipts
  <1>2. a \in Answers /\ a.content = None
    BY <1>1 DEF NoAnswer, Answers, Outcomes, Refusals
  <1> QED BY <1>2, EndKeepsIInv DEF AnswerFromReceipt, Answer

(***************************************************************************)
(* The steps that only read, lock and answer                               *)
(***************************************************************************)

LEMMA SubmitKeepsIInv ==
  ASSUME IInv, NEW c \in Calls, NEW q \in Requests[c], Submit(c, q)
  PROVE  IInv'
  <1> USE DEF IInv
  <1>1. q \in Request
    BY AttachmentsAssumption
  <1>2. /\ pc' = [pc EXCEPT ![c] = FirstStep(q)] /\ req' = [req EXCEPT ![c] = q] /\ pc[c] = "idle"
        /\ UNCHANGED <<tables, file, lock, excuses, answer>>
    BY DEF Submit
  <1>3. /\ FirstStep(q) \in {"lock", "status", "check"}
        /\ FirstStep(q) = "lock" => q \in UploadRequest
        /\ FirstStep(q) = "status" => q \in DownloadRequest
        /\ FirstStep(q) = "check" => q \in CreateRequest \cup FinalizeRequest
    BY <1>1, RequestShape, VerbsTellRequests DEF FirstStep
  <1>4. Types'
    BY <1>1, <1>2, <1>3 DEF Types, tables, Steps
  <1>5. \A d \in Calls : OfItsVerb(d)'
    BY <1>1, <1>2, <1>3 DEF OfItsVerb, Types, InUpload
  <1>6. ASSUME NEW d \in Calls
        PROVE  KnowsItsSlot(d)' /\ KnowsItsFile(d)' /\ RecordsAlone(d)'
    <2>1. KnowsItsSlot(d)'
      BY <1>2, <1>3 DEF KnowsItsSlot, Types, Holding, InUpload, InFinalize, Exists, Seen, Verb,
              Slot, tables
    <2>2. KnowsItsFile(d)'
      BY <1>2, <1>3 DEF KnowsItsFile, Types, HasFoundFile, Uploaded, Verb, Slot
    <2>3. RecordsAlone(d)'
      BY <1>2, <1>3 DEF RecordsAlone, Types, Seen, tables
    <2> QED BY <2>1, <2>2, <2>3
  <1>7. \A s \in Calls : SlotIsKept(s)'
    BY <1>2, <1>3 DEF SlotIsKept, Types, Holding, InUpload, InFinalize, Verb, Slot, tables
  <1>8. OneSlotPerOperation' /\ DownloadsAreWhole'
    BY <1>2 DEF OneSlotPerOperation, DownloadsAreWhole, Exists, Slot, Types, OfItsVerb,
            KnowsItsSlot, tables
  <1> QED BY <1>4, <1>5, <1>6, <1>7, <1>8
\* c stands before an open transaction, or in one that has written nothing to a file,
\* and goes on to where it needs no lock.
LEMMA MoveKeepsIInv ==
  ASSUME IInv, NEW c \in Calls, InFlight(c), ~Holding(c),
         NEW to \in {"task", "record", "row", "recordReady", "exists", "update", "read"},
         Go(c, to), OfItsVerb(c)', KnowsItsSlot(c)', KnowsItsFile(c)'
  PROVE  IInv'
  <1>1. pc'[c] = to /\ pc[c] # "write" /\ to \in Steps
    BY DEF Go, IInv, Types, Holding, InUpload, Steps
  <1>2. RecordsAlone(c)'
    BY <1>1 DEF RecordsAlone
  <1> QED BY <1>1, <1>2, GoKeepsIInv

LEMMA CheckKeepsIInv ==
  ASSUME IInv, NEW c \in Calls, Check(c)
  PROVE  IInv'
  <1>1. req[c] \in CreateRequest \cup FinalizeRequest /\ pc[c] = "check"
    BY DEF IInv, OfItsVerb, Check
  <1>2. CASE AnswerFromReceipt(c)
    BY <1>1, <1>2, ReceiptStepKeepsIInv
  <1>3. CASE ~Seen(c) /\ Go(c, IF Verb(c) = "create" THEN "task" ELSE "row")
    <2>1. PICK to \in {"task", "row"} : Go(c, to) /\ (to = "task" <=> Verb(c) = "create")
      BY <1>3
    <2>2. OfItsVerb(c)' /\ KnowsItsSlot(c)' /\ KnowsItsFile(c)'
      BY <1>1, <2>1, RequestShape
         DEF Go, IInv, Types, OfItsVerb, KnowsItsSlot, KnowsItsFile, Holding, InUpload, InFinalize,
             HasFoundFile, Exists, Seen, Verb, tables
    <2> QED BY <1>1, <2>1, <2>2, MoveKeepsIInv DEF InFlight, Holding, InUpload, InFinalize
  <1> QED BY <1>2, <1>3 DEF Check

LEMMA RecheckKeepsIInv ==
  ASSUME IInv, NEW c \in Calls, Recheck(c)
  PROVE  IInv'
  <1>1. req[c] \in CreateRequest \cup FinalizeRequest /\ pc[c] = "recheck"
    BY DEF IInv, OfItsVerb, Recheck
  <1>2. answer[c].outcome \in Outcomes
    BY DEF IInv, Types, Answers
  <1> QED BY <1>1, <1>2, ReceiptStepKeepsIInv, RefuseKeepsIInv DEF Recheck

LEMMA ReadTaskKeepsIInv ==
  ASSUME IInv, NEW c \in Calls, ReadTask(c)
  PROVE  IInv'
  <1>1. req[c] \in CreateRequest /\ pc[c] = "task"
    BY DEF IInv, OfItsVerb, ReadTask
  <1>2. CASE Refuse(c, "taskNotFound")
    BY <1>1, <1>2, RefuseKeepsIInv DEF Outcomes, Refusals
  <1>3. CASE Go(c, "record")
    <2>1. /\ pc'[c] = "record" /\ req' = req /\ slots' = slots /\ answer' = answer
          /\ Verb(c) = "create"
      BY <1>1, <1>3, RequestShape DEF Go, IInv, Types, Verb, tables
    <2>2. OfItsVerb(c)'
      BY <1>1, <2>1 DEF IInv, OfItsVerb, InUpload
    <2>3. KnowsItsSlot(c)' /\ KnowsItsFile(c)'
      BY <1>1, <2>1 DEF IInv, KnowsItsSlot, KnowsItsFile, Holding, InUpload, InFinalize,
             HasFoundFile, Exists, Verb
    <2> QED BY <1>1, <1>3, <2>2, <2>3, MoveKeepsIInv, RequestShape
            DEF InFlight, Holding, InUpload, InFinalize, Verb
  <1> QED BY <1>2, <1>3 DEF ReadTask

\* The primary key of operations: nobody else stands before a commit with this operation.
LEMMA RecordKeepsIInv ==
  ASSUME IInv, NEW c \in Calls, Record(c)
  PROVE  IInv'
  <1>1. req[c] \in CreateRequest \cup FinalizeRequest /\ pc[c] = "record"
    BY DEF IInv, OfItsVerb, Record
  <1>2. CASE Abort(c, "operationExists")
    BY <1>1, <1>2, AbortKeepsIInv DEF Outcomes, Refusals
  <1>3. CASE ~Seen(c) /\ Go(c, "commit")
    <2>1. /\ pc'[c] = "commit" /\ UNCHANGED <<tables, file, lock, req, excuses, answer>>
          /\ \A d \in Calls \ {c} : pc'[d] = pc[d]
      BY <1>3 DEF Go, IInv, Types
    <2>2. OfItsVerb(c)' /\ KnowsItsSlot(c)' /\ KnowsItsFile(c)'
      BY <1>1, <2>1
         DEF IInv, OfItsVerb, KnowsItsSlot, KnowsItsFile, Holding, InUpload, InFinalize,
             HasFoundFile, Exists, Seen, Uploaded, Verb, Slot, tables
    <2>3. \A d \in Calls \ {c} : pc[d] = "commit" => req[d].op # req[c].op
      BY <1>1, AttachmentsAssumption DEF Record, Free, Blockers
    <2>4. ASSUME NEW d \in Calls \ {c}
          PROVE  OfItsVerb(d)' /\ KnowsItsSlot(d)' /\ KnowsItsFile(d)'
      BY <2>1 DEF IInv, OfItsVerb, KnowsItsSlot, KnowsItsFile, Holding, InUpload, InFinalize,
             HasFoundFile, Exists, Seen, Uploaded, Verb, Slot, tables
    <2>5. \A d \in Calls : RecordsAlone(d)'
      BY <1>3, <2>1, <2>3 DEF IInv, RecordsAlone, Seen, tables
    <2>6. ASSUME NEW s \in Calls
          PROVE  SlotIsKept(s)'
      BY <1>1, <2>1 DEF IInv, Types, SlotIsKept, Holding, InUpload, InFinalize, Verb, Slot, tables
    <2>7. Types' /\ OneSlotPerOperation' /\ DownloadsAreWhole'
      BY <1>3, <2>1 DEF Go, IInv, Types, Steps, OneSlotPerOperation, DownloadsAreWhole, Exists, Slot, tables
    <2> QED BY <2>2, <2>4, <2>5, <2>6, <2>7 DEF IInv
  <1> QED BY <1>2, <1>3 DEF Record

LEMMA LockSlotKeepsIInv ==
  ASSUME IInv, NEW c \in Calls, LockSlot(c)
  PROVE  IInv'
  <1>1. req[c] \in UploadRequest /\ pc[c] = "lock" /\ Slot(c) \in Calls /\ Verb(c) = "upload"
    BY RequestShape DEF IInv, OfItsVerb, LockSlot, Slot, Verb
  <1>2. CASE Refuse(c, "notFound") \/ Refuse(c, "alreadyFinalized")
    BY <1>1, <1>2, RefuseKeepsIInv DEF Outcomes, Refusals
  <1>3. CASE /\ slots[Slot(c)] = "pending" /\ lock[Slot(c)] = None
             /\ lock' = [lock EXCEPT ![Slot(c)] = c]
             /\ pc' = [pc EXCEPT ![c] = "open"]
             /\ UNCHANGED <<tables, file, req, excuses, answer>>
    <2>1. /\ pc'[c] = "open" /\ req'[c] = req[c] /\ lock'[Slot(c)] = c
          /\ \A d \in Calls : answer'[d] = answer[d]
          /\ \A s \in Calls \ {Slot(c)} : lock'[s] = lock[s]
          /\ lock' \in [Calls -> Calls \cup {None}]
      BY <1>1, <1>3 DEF IInv, Types
    <2>2. OfItsVerb(c)' /\ KnowsItsSlot(c)' /\ KnowsItsFile(c)' /\ RecordsAlone(c)'
      BY <1>1, <1>3, <2>1 DEF IInv, OfItsVerb, KnowsItsSlot, KnowsItsFile, RecordsAlone, Holding,
             InUpload, InFinalize, HasFoundFile, Exists, Verb, Slot, tables
    <2>3. \A s \in Calls : lock[s] = c => Holding(c)
      BY AttachmentsAssumption DEF IInv, SlotIsKept
    <2>4. \A s \in Calls : lock'[s] = c => Holding(c)' /\ Slot(c) = s
      BY <1>1, <2>1, <2>3 DEF Holding, InUpload, InFinalize
    <2>5. answer' \in [Calls -> Answers] /\ "open" \in Steps
      BY <1>3 DEF IInv, Types, Steps
    <2>6. \A s \in Calls : lock'[s] # lock[s] => lock[s] \in {c, None} /\ lock'[s] \in {c, None}
      BY <1>3, <2>1
    <2>7. UNCHANGED <<tables, file, req, excuses>> /\ pc[c] # "write"
      BY <1>1, <1>3
    <2> QED BY <1>3, <2>1, <2>2, <2>4, <2>5, <2>6, <2>7, QuietStep
  <1> QED BY <1>2, <1>3 DEF LockSlot
LEMMA CommitUploadKeepsIInv ==
  ASSUME IInv, NEW c \in Calls, CommitUpload(c)
  PROVE  IInv'
  BY RefuseKeepsIInv DEF CommitUpload, Outcomes

LEMMA ReadRowKeepsIInv ==
  ASSUME IInv, NEW c \in Calls, ReadRow(c)
  PROVE  IInv'
  <1>1. req[c] \in FinalizeRequest /\ pc[c] = "row" /\ Slot(c) \in Calls /\ Verb(c) = "finalize"
    BY RequestShape DEF IInv, OfItsVerb, ReadRow, Slot, Verb
  <1>2. CASE Refuse(c, "notFound")
    BY <1>1, <1>2, RefuseKeepsIInv DEF Outcomes, Refusals
  <1>3. ASSUME NEW to \in {"recordReady", "exists"}, Go(c, to), Exists(Slot(c))
        PROVE  IInv'
    <2>1. /\ pc'[c] = to /\ req' = req /\ slots' = slots /\ answer' = answer
      BY <1>3 DEF Go, IInv, Types, tables
    <2>2. OfItsVerb(c)'
      BY <1>1, <2>1, AttachmentsAssumption DEF IInv, OfItsVerb, InUpload
    <2>3. KnowsItsSlot(c)' /\ KnowsItsFile(c)'
      BY <1>1, <1>3, <2>1 DEF IInv, KnowsItsSlot, KnowsItsFile, Holding, InUpload, InFinalize,
             HasFoundFile, Exists, Verb, Slot
    <2> QED BY <1>1, <1>3, <2>2, <2>3, MoveKeepsIInv DEF InFlight, Holding, InUpload, InFinalize
  <1> QED BY <1>2, <1>3, AttachmentsAssumption DEF ReadRow, Exists

LEMMA FindFileKeepsIInv ==
  ASSUME IInv, NEW c \in Calls, FindFile(c)
  PROVE  IInv'
  <1>1. req[c] \in FinalizeRequest /\ pc[c] = "exists" /\ Slot(c) \in Calls /\ Verb(c) = "finalize"
    BY RequestShape DEF IInv, OfItsVerb, FindFile, Slot, Verb
  <1>2. CASE Refuse(c, "notReady")
    BY <1>1, <1>2, RefuseKeepsIInv DEF Outcomes, Refusals
  <1>3. CASE Uploaded(Slot(c)) /\ Go(c, "update")
    <2>1. /\ pc'[c] = "update" /\ req' = req /\ slots' = slots /\ answer' = answer /\ file' = file
      BY <1>3 DEF Go, IInv, Types, tables
    <2>2. OfItsVerb(c)'
      BY <1>1, <2>1, AttachmentsAssumption DEF IInv, OfItsVerb, InUpload
    <2>3. KnowsItsSlot(c)'
      BY <1>1, <2>1 DEF IInv, KnowsItsSlot, Holding, InUpload, InFinalize, Exists, Verb, Slot
    <2>4. KnowsItsFile(c)'
      BY <1>1, <1>3, <2>1 DEF KnowsItsFile, HasFoundFile, Uploaded, Slot
    <2> QED BY <1>1, <1>3, <2>2, <2>3, <2>4, MoveKeepsIInv DEF InFlight, Holding, InUpload, InFinalize
  <1> QED BY <1>2, <1>3 DEF FindFile

\* The row is free, so whoever was writing its file has come to an end.
LEMMA UpdateSlotKeepsIInv ==
  ASSUME IInv, NEW c \in Calls, UpdateSlot(c)
  PROVE  IInv'
  <1>1. req[c] \in FinalizeRequest /\ pc[c] = "update" /\ Slot(c) \in Calls /\ Verb(c) = "finalize"
    BY RequestShape DEF IInv, OfItsVerb, UpdateSlot, Slot, Verb
  <1>2. lock[Slot(c)] \in {c, None}
    BY <1>1 DEF UpdateSlot, Free, Blockers
  <1>3. /\ lock' = [lock EXCEPT ![Slot(c)] = c] /\ pc' = [pc EXCEPT ![c] = "record"]
        /\ UNCHANGED <<tables, file, req, excuses, answer>>
    BY DEF UpdateSlot
  <1>4. /\ pc'[c] = "record" /\ req'[c] = req[c] /\ lock'[Slot(c)] = c
        /\ \A d \in Calls : answer'[d] = answer[d]
        /\ \A s \in Calls \ {Slot(c)} : lock'[s] = lock[s]
        /\ lock' \in [Calls -> Calls \cup {None}]
    BY <1>1, <1>3 DEF IInv, Types
  <1>5. OfItsVerb(c)' /\ KnowsItsSlot(c)' /\ KnowsItsFile(c)' /\ RecordsAlone(c)'
    BY <1>1, <1>3, <1>4 DEF IInv, OfItsVerb, KnowsItsSlot, KnowsItsFile, RecordsAlone, Holding,
           InUpload, InFinalize, HasFoundFile, Exists, Uploaded, Verb, Slot, tables
  <1>6. \A s \in Calls : lock[s] = c => Holding(c)
    BY AttachmentsAssumption DEF IInv, SlotIsKept
  <1>7. \A s \in Calls : lock'[s] = c => Holding(c)' /\ Slot(c) = s
    BY <1>1, <1>3, <1>4, <1>6 DEF Holding, InUpload, InFinalize, Verb
  <1>8. answer' \in [Calls -> Answers] /\ "record" \in Steps
    BY <1>3 DEF IInv, Types, Steps
  <1>9. \A s \in Calls : lock'[s] # lock[s] => lock[s] \in {c, None} /\ lock'[s] \in {c, None}
    BY <1>2, <1>4
  <1>10. UNCHANGED <<tables, file, req, excuses>> /\ pc[c] # "write"
    BY <1>1, <1>3
  <1> QED BY <1>3, <1>4, <1>5, <1>7, <1>8, <1>9, <1>10, QuietStep

LEMMA ReadStatusKeepsIInv ==
  ASSUME IInv, NEW c \in Calls, ReadStatus(c)
  PROVE  IInv'
  <1>1. req[c] \in DownloadRequest /\ pc[c] = "status" /\ Verb(c) = "download"
    BY RequestShape DEF IInv, OfItsVerb, ReadStatus, Verb
  <1>2. CASE Refuse(c, "notFound") \/ Refuse(c, "notReady")
    BY <1>1, <1>2, RefuseKeepsIInv DEF Outcomes, Refusals
  <1>3. CASE MayDownload(Slot(c)) /\ Go(c, "read")
    <2>1. /\ pc'[c] = "read" /\ req' = req /\ slots' = slots /\ answer' = answer
      BY <1>3 DEF Go, IInv, Types, tables
    <2>2. OfItsVerb(c)'
      BY <1>1, <2>1, AttachmentsAssumption DEF IInv, OfItsVerb, InUpload
    <2>3. KnowsItsSlot(c)' /\ KnowsItsFile(c)'
      BY <1>1, <1>3, <2>1 DEF IInv, KnowsItsSlot, KnowsItsFile, Holding, InUpload, InFinalize,
             HasFoundFile, Exists, MayDownload, Verb, Slot
    <2> QED BY <1>1, <1>3, <2>2, <2>3, MoveKeepsIInv DEF InFlight, Holding, InUpload, InFinalize
  <1> QED BY <1>2, <1>3 DEF ReadStatus

\* What is read is the file of a ready attachment.
LEMMA ReadFileKeepsIInv ==
  ASSUME IInv, NEW c \in Calls, ReadFile(c)
  PROVE  IInv'
  <1> DEFINE a == [outcome |-> "ok", slot |-> Slot(c), content |-> file[Slot(c)]]
  <1>1. /\ req[c] \in DownloadRequest /\ pc[c] = "read" /\ Verb(c) = "download" /\ Slot(c) \in Calls
        /\ slots[Slot(c)] = "ready"
    BY RequestShape DEF IInv, OfItsVerb, KnowsItsSlot, ReadFile, Verb, Slot
  <1>2. a \in Answers
    BY <1>1 DEF IInv, Types, Answers, Outcomes
  <1>3. /\ pc' = [pc EXCEPT ![c] = "answered"] /\ answer' = [answer EXCEPT ![c] = a]
        /\ \A s \in Calls : lock'[s] = lock[s]
        /\ UNCHANGED <<tables, file, req, excuses>>
    <2>1. \A s \in Calls : lock[s] # c
      BY <1>1, AttachmentsAssumption DEF IInv, SlotIsKept, Holding, InUpload, InFinalize
    <2> QED BY <2>1 DEF ReadFile, Answer, Release
  <1>4. lock' \in [Calls -> Calls \cup {None}]
    BY DEF ReadFile, Answer, Release, IInv, Types
  <1>5. Types'
    BY <1>2, <1>3, <1>4 DEF IInv, Types, Steps, tables
  <1>6. \A d \in Calls : OfItsVerb(d)'
    BY <1>1, <1>3 DEF IInv, Types, OfItsVerb, InUpload
  <1>7. ASSUME NEW d \in Calls
        PROVE  KnowsItsSlot(d)' /\ KnowsItsFile(d)' /\ RecordsAlone(d)'
    <2>1. KnowsItsSlot(d)'
      BY <1>1, <1>3, RequestShape DEF IInv, Types, KnowsItsSlot, OfItsVerb, Holding, InUpload,
             InFinalize, Exists, Seen, Verb, Slot, tables
    <2>2. KnowsItsFile(d)'
      BY <1>1, <1>3 DEF IInv, Types, KnowsItsFile, HasFoundFile, Uploaded, Verb, Slot
    <2>3. RecordsAlone(d)'
      BY <1>1, <1>3 DEF IInv, Types, RecordsAlone, Seen, tables
    <2> QED BY <2>1, <2>2, <2>3
  <1>8. ASSUME NEW s \in Calls
        PROVE  SlotIsKept(s)'
    BY <1>1, <1>3 DEF IInv, Types, SlotIsKept, Holding, InUpload, InFinalize, Verb, Slot, tables
  <1>9. OneSlotPerOperation'
    BY <1>3 DEF IInv, OneSlotPerOperation, Exists, tables
  <1>10. DownloadsAreWhole'
    <2>1. file[Slot(c)].size = "whole" \/ excuses[Slot(c)] # {}
      BY <1>1 DEF IInv, SlotIsKept
    <2> QED BY <1>3, <2>1 DEF IInv, Types, DownloadsAreWhole, Slot
  <1> QED BY <1>5, <1>6, <1>7, <1>8, <1>9, <1>10 DEF IInv

(***************************************************************************)
(* The steps that write files                                              *)
(***************************************************************************)

\* While c holds the row of its slot, nobody else is at work on that slot's file, and
\* the step of c leaves the other slots as they are.
LEMMA FileStep ==
  ASSUME IInv, NEW c \in Calls, InUpload(c), NEW to \in {"write", "uploaded"},
         UNCHANGED <<tables, lock, req, answer>>, pc' = [pc EXCEPT ![c] = to],
         file' \in [Calls -> File], excuses' \in [Calls -> SUBSET {"brokenOff", "rewritten"}],
         \A s \in Calls : s # Slot(c) => file'[s] = file[s],
         \A s \in Calls : excuses[s] \subseteq excuses'[s],
         file'[Slot(c)].size = "partial" => to = "write",
         \A d \in Calls : HasFoundFile(d, Slot(c)) =>
                             Uploaded(Slot(c))' \/ excuses'[Slot(c)] # {},
         KnowsItsFile(c)'
  PROVE  IInv'
  <1>1. /\ Slot(c) \in Calls /\ lock[Slot(c)] = c /\ slots[Slot(c)] = "pending"
        /\ req[c] \in UploadRequest /\ Verb(c) = "upload"
    BY RequestShape DEF IInv, OfItsVerb, KnowsItsSlot, Holding, Slot, Verb
  <1>2. Types'
    BY DEF IInv, Types, Steps, tables
  <1>3. /\ \A d \in Calls \ {c} : pc'[d] = pc[d]
        /\ pc'[c] = to
    BY DEF IInv, Types
  <1>4. ASSUME NEW d \in Calls
        PROVE  OfItsVerb(d)' /\ KnowsItsSlot(d)' /\ RecordsAlone(d)'
    <2>1. OfItsVerb(d)'
      BY <1>1, <1>3 DEF IInv, OfItsVerb, InUpload
    <2>2. KnowsItsSlot(d)'
      BY <1>1, <1>3 DEF IInv, KnowsItsSlot, Holding, InUpload, InFinalize, Exists, Seen, Verb, Slot, tables
    <2>3. RecordsAlone(d)'
      BY <1>1, <1>3 DEF IInv, RecordsAlone, Seen, tables
    <2> QED BY <2>1, <2>2, <2>3
  <1>5. ASSUME NEW d \in Calls \ {c}
        PROVE  KnowsItsFile(d)'
    <2>1. KnowsItsFile(d) /\ KnowsItsSlot(d) /\ OfItsVerb(d) /\ pc'[d] = pc[d] /\ req'[d] = req[d]
      BY <1>3 DEF IInv
    <2>2. pc[d] \in {"write", "uploaded"} => Slot(d) # Slot(c) /\ Slot(d) \in Calls
      BY <1>1, <2>1, RequestShape DEF KnowsItsSlot, OfItsVerb, Holding, InUpload, Slot
    <2>3. pc[d] \in {"write", "uploaded"} => file'[Slot(d)] = file[Slot(d)]
      BY <2>2
    <2>4. HasFoundFile(d, Slot(d)) => Uploaded(Slot(d))' \/ excuses'[Slot(d)] # {}
      <3> SUFFICES ASSUME HasFoundFile(d, Slot(d))
                   PROVE  Uploaded(Slot(d))' \/ excuses'[Slot(d)] # {}
        OBVIOUS
      <3>1. Slot(d) \in Calls
        BY RequestShape, <2>1 DEF HasFoundFile, OfItsVerb, Slot, Verb
      <3>2. CASE Slot(d) = Slot(c)
        BY <3>2, <2>1 DEF Uploaded, Slot
      <3>3. CASE Slot(d) # Slot(c)
        BY <3>1, <3>3, <2>1 DEF KnowsItsFile, Uploaded, Slot
      <3> QED BY <3>2, <3>3
    <2> QED BY <2>1, <2>3, <2>4 DEF KnowsItsFile, HasFoundFile, Slot, Verb
  <1>6. ASSUME NEW s \in Calls
        PROVE  SlotIsKept(s)'
    <2>1. CASE s = Slot(c)
      BY <1>1, <1>3, <2>1, AttachmentsAssumption
         DEF IInv, SlotIsKept, Holding, InUpload, Slot, tables
    <2>2. CASE s # Slot(c)
      BY <1>1, <1>3, <2>2, AttachmentsAssumption
         DEF IInv, Types, SlotIsKept, Holding, InUpload, InFinalize, Verb, Slot, tables
    <2> QED BY <2>1, <2>2
  <1>7. OneSlotPerOperation'
    BY DEF IInv, OneSlotPerOperation, Exists, tables
  <1>8. DownloadsAreWhole'
    <2> SUFFICES ASSUME NEW d \in Calls, answer[d].content # None
                 PROVE  answer[d].content.size = "whole" \/ excuses'[Slot(d)] # {}
      BY DEF DownloadsAreWhole, Slot
    <2>1. answer[d].content.size = "whole" \/ excuses[Slot(d)] # {}
      BY DEF IInv, DownloadsAreWhole
    <2>2. Slot(d) \in Calls
      BY RequestShape DEF IInv, OfItsVerb, Slot
    <2> QED BY <2>1, <2>2
  <1> QED BY <1>2, <1>4, <1>5, <1>6, <1>7, <1>8 DEF IInv
LEMMA OpenFileKeepsIInv ==
  ASSUME IInv, NEW c \in Calls, OpenFile(c)
  PROVE  IInv'
  <1>1. /\ InUpload(c) /\ Slot(c) \in Calls /\ req[c] \in UploadRequest
    BY RequestShape DEF IInv, OfItsVerb, InUpload, OpenFile, Slot
  <1>2. /\ pc' = [pc EXCEPT ![c] = "write"]
        /\ file' = [file EXCEPT ![Slot(c)] = [size |-> "empty", by |-> c]]
        /\ UNCHANGED <<tables, lock, req, answer>>
    BY DEF OpenFile
  <1>3. /\ file' \in [Calls -> File]
        /\ \A s \in Calls : s # Slot(c) => file'[s] = file[s]
        /\ file'[Slot(c)] = [size |-> "empty", by |-> c]
    BY <1>1, <1>2 DEF IInv, Types, File, Sizes
  <1> DEFINE e == IF \E d \in Calls : HasFoundFile(d, Slot(c)) THEN {"rewritten"} ELSE {}
  <1>4. excuses' = [excuses EXCEPT ![Slot(c)] = @ \cup e]
    BY DEF OpenFile, Excuse
  <1>5. e \in SUBSET {"brokenOff", "rewritten"}
    OBVIOUS
  <1>6. (\E d \in Calls : HasFoundFile(d, Slot(c))) => e # {}
    OBVIOUS
  <1> HIDE DEF e
  <1>7. /\ excuses' \in [Calls -> SUBSET {"brokenOff", "rewritten"}]
        /\ \A s \in Calls : excuses[s] \subseteq excuses'[s]
        /\ excuses'[Slot(c)] = excuses[Slot(c)] \cup e
    BY <1>1, <1>4, <1>5 DEF IInv, Types
  <1>8. \A d \in Calls : HasFoundFile(d, Slot(c)) => excuses'[Slot(c)] # {}
    BY <1>6, <1>7
  <1>9. KnowsItsFile(c)'
    BY <1>1, <1>2, <1>3 DEF IInv, Types, KnowsItsFile, HasFoundFile, Slot
  <1> QED BY <1>1, <1>2, <1>3, <1>7, <1>8, <1>9, FileStep

LEMMA WriteFileKeepsIInv ==
  ASSUME IInv, NEW c \in Calls, WriteFile(c)
  PROVE  IInv'
  <1>1. /\ InUpload(c) /\ Slot(c) \in Calls /\ req[c] \in UploadRequest
        /\ pc[c] = "write" /\ Verb(c) = "upload"
    BY RequestShape DEF IInv, OfItsVerb, InUpload, WriteFile, Slot, Verb
  <1>2. /\ UNCHANGED <<tables, lock, req, excuses, answer>>
        /\ excuses' \in [Calls -> SUBSET {"brokenOff", "rewritten"}]
        /\ \A s \in Calls : excuses[s] \subseteq excuses'[s]
    BY DEF WriteFile, IInv, Types
  <1>3. ASSUME NEW to \in {"write", "uploaded"}, pc' = [pc EXCEPT ![c] = to],
               NEW size \in {"partial", "whole"}, size = "whole" <=> to = "uploaded",
               req[c].data = "bytes",
               file' = [file EXCEPT ![Slot(c)] = [size |-> size, by |-> c]]
        PROVE  IInv'
    <2>1. /\ file' \in [Calls -> File]
          /\ \A s \in Calls : s # Slot(c) => file'[s] = file[s]
          /\ file'[Slot(c)] = [size |-> size, by |-> c]
      BY <1>1, <1>3 DEF IInv, Types, File, Sizes
    <2>2. Uploaded(Slot(c))'
      BY <1>2, <2>1 DEF Uploaded, Slot
    <2>3. pc'[c] = to
      BY <1>3 DEF IInv, Types
    <2>4. KnowsItsFile(c)'
      BY <1>1, <1>2, <1>3, <2>1, <2>3 DEF KnowsItsFile, HasFoundFile, Slot
    <2> QED BY <1>1, <1>2, <1>3, <2>1, <2>2, <2>4, FileStep
  <1>4. CASE req[c].data = "nothing" /\ pc' = [pc EXCEPT ![c] = "uploaded"] /\ UNCHANGED file
    <2>1. /\ file' \in [Calls -> File] /\ file' = file
          /\ \A s \in Calls : s # Slot(c) => file'[s] = file[s]
      BY <1>4 DEF IInv, Types
    <2>2. pc'[c] = "uploaded"
      BY <1>4 DEF IInv, Types
    <2>3. file[Slot(c)] = [size |-> "empty", by |-> c]
      <3>1. file[Slot(c)] \in File
        BY <1>1 DEF IInv, Types
      <3>2. file[Slot(c)].size = "empty" /\ file[Slot(c)].by = c
        BY <1>1, <1>4 DEF IInv, KnowsItsFile
      <3> QED BY <3>1, <3>2 DEF File
    <2>4. KnowsItsFile(c)'
      BY <1>2, <1>4, <2>1, <2>2, <2>3 DEF KnowsItsFile, HasFoundFile, Slot
    <2>5. ASSUME NEW d \in Calls, HasFoundFile(d, Slot(c))
          PROVE  Uploaded(Slot(c))' \/ excuses'[Slot(c)] # {}
      <3>1. Slot(d) = Slot(c) /\ KnowsItsFile(d)
        BY <2>5 DEF IInv, HasFoundFile
      <3>2. Uploaded(Slot(c)) \/ excuses[Slot(c)] # {}
        BY <2>5, <3>1 DEF KnowsItsFile
      <3> QED BY <1>2, <2>1, <3>2 DEF Uploaded, Slot
    <2>6. file'[Slot(c)].size # "partial"
      BY <2>1, <2>3
    <2> QED BY <1>1, <1>2, <1>4, <2>1, <2>4, <2>5, <2>6, FileStep
  <1>5. pc = [pc EXCEPT ![c] = "write"]
    BY <1>1 DEF IInv, Types
  <1> QED BY <1>3, <1>4, <1>5 DEF WriteFile

\* The handler throws with part of the file written: the row is free again, and the
\* slot has its excuse.
LEMMA FailWriteKeepsIInv ==
  ASSUME IInv, NEW c \in Calls, FailWrite(c)
  PROVE  IInv'
  <1> DEFINE a == [NoAnswer EXCEPT !.outcome = "internalError"]
  <1>1. /\ Slot(c) \in Calls /\ req[c] \in UploadRequest /\ pc[c] = "write" /\ lock[Slot(c)] = c
    BY RequestShape DEF IInv, OfItsVerb, KnowsItsSlot, Holding, InUpload, FailWrite, Slot
  <1>2. /\ pc' = [pc EXCEPT ![c] = "answered"] /\ answer' = [answer EXCEPT ![c] = a]
        /\ excuses' = [excuses EXCEPT ![Slot(c)] = @ \cup {"brokenOff"}]
        /\ lock' = [s \in Calls |-> IF lock[s] = c THEN None ELSE lock[s]]
        /\ UNCHANGED <<tables, file, req>>
    BY DEF FailWrite, Excuse, Answer, Release
  <1>3. a \in Answers /\ a.content = None
    BY DEF NoAnswer, Answers, Outcomes, Refusals
  <1>4. Types'
    BY <1>1, <1>2, <1>3 DEF IInv, Types, Steps, tables
  <1>5. /\ \A s \in Calls : excuses[s] \subseteq excuses'[s]
        /\ excuses'[Slot(c)] # {}
        /\ \A s \in Calls : lock'[s] = IF s = Slot(c) THEN None ELSE lock[s]
        /\ \A d \in Calls \ {c} : pc'[d] = pc[d] /\ answer'[d] = answer[d]
        /\ pc'[c] = "answered" /\ answer'[c].content = None
    BY <1>1, <1>2, <1>3, AttachmentsAssumption DEF IInv, Types, SlotIsKept
  <1>6. ASSUME NEW d \in Calls
        PROVE  OfItsVerb(d)' /\ KnowsItsSlot(d)' /\ KnowsItsFile(d)' /\ RecordsAlone(d)'
    <2>1. OfItsVerb(d)'
      BY <1>1, <1>2, <1>5 DEF IInv, OfItsVerb, InUpload
    <2>2. KnowsItsSlot(d)'
      BY <1>1, <1>2, <1>5, RequestShape DEF IInv, KnowsItsSlot, OfItsVerb, Holding, InUpload,
             InFinalize, Exists, Seen, Verb, Slot, tables
    <2>3. KnowsItsFile(d)'
      BY <1>1, <1>2, <1>5, RequestShape DEF IInv, KnowsItsFile, OfItsVerb, HasFoundFile, Uploaded,
             Verb, Slot
    <2>4. RecordsAlone(d)'
      BY <1>1, <1>2, <1>5 DEF IInv, RecordsAlone, Seen, tables
    <2> QED BY <2>1, <2>2, <2>3, <2>4
  <1>7. ASSUME NEW s \in Calls
        PROVE  SlotIsKept(s)'
    BY <1>1, <1>2, <1>5, AttachmentsAssumption
       DEF IInv, Types, SlotIsKept, Holding, InUpload, InFinalize, Verb, Slot, tables
  <1>8. OneSlotPerOperation'
    BY <1>2 DEF IInv, OneSlotPerOperation, Exists, tables
  <1>9. DownloadsAreWhole'
    BY <1>2, <1>5, RequestShape DEF IInv, OfItsVerb, DownloadsAreWhole, Slot
  <1> QED BY <1>4, <1>6, <1>7, <1>8, <1>9 DEF IInv

(***************************************************************************)
(* The steps that write the tables                                         *)
(***************************************************************************)

\* A step of c writes its receipt, and at most the status of one slot: its own, which
\* it creates, or the one whose row it holds, which becomes ready.
LEMMA RecordStep ==
  ASSUME IInv, NEW c \in Calls, NEW s \in Calls, NEW a \in Answers, a.content = None,
         InFlight(c), ~InUpload(c), req[c] \in CreateRequest \cup FinalizeRequest,
         ~Seen(c), \A d \in Calls \ {c} : pc[d] = "commit" => req[d].op # req[c].op,
         Receipt(c, s), Answer(c, a), UNCHANGED <<file, excuses>>,
         slots' \in [Calls -> {"pending", "ready", None}],
         \A t \in Calls : slots'[t] # slots[t] =>
            \/ t = c /\ slots'[t] = "pending" /\ req[c] \in CreateRequest
            \/ /\ t = Slot(c) /\ slots'[t] = "ready" /\ Exists(t) /\ lock[t] = c
               /\ file[t].size = "whole" \/ excuses[t] # {}
  PROVE  IInv'
  <1>1. /\ pc' = [pc EXCEPT ![c] = "answered"] /\ answer' = [answer EXCEPT ![c] = a]
        /\ lock' = [t \in Calls |-> IF lock[t] = c THEN None ELSE lock[t]]
        /\ UNCHANGED <<file, req, excuses>>
        /\ receipts' = [receipts EXCEPT ![req[c].op] = [req |-> Asked(c), slot |-> s]]
    BY DEF Answer, Release, Receipt
  <1>2. req[c].op \in Ops /\ Asked(c) \in Asks
    BY RequestShape DEF Asks, Asked, Verb, Slot
  <1>3. [req |-> Asked(c), slot |-> s] \in Receipts
    BY <1>2 DEF Receipts
  <1>4. Types'
    BY <1>1, <1>3 DEF IInv, Types, Steps
  <1>5. /\ \A d \in Calls \ {c} : pc'[d] = pc[d] /\ answer'[d] = answer[d]
        /\ pc'[c] = "answered" /\ answer'[c].content = None
        /\ \A o \in Ops : receipts'[o] # NoReceipt <=> receipts[o] # NoReceipt \/ o = req[c].op
    BY <1>1, <1>2, <1>3, ReceiptIsNotNoReceipt DEF IInv, Types
  <1>6. ASSUME NEW d \in Calls
        PROVE  OfItsVerb(d)'
    BY <1>1, <1>5 DEF IInv, OfItsVerb, InUpload, Request
  <1>7. \A t \in Calls : /\ Exists(t) => Exists(t)' /\ (slots[t] = "ready" => slots'[t] = "ready")
                         /\ lock[t] \notin {c, None} => slots'[t] = slots[t]
    <2> SUFFICES ASSUME NEW t \in Calls, Exists(t)
                 PROVE  /\ Exists(t)' /\ (slots[t] = "ready" => slots'[t] = "ready")
                        /\ lock[t] \notin {c, None} => slots'[t] = slots[t]
      <3> SUFFICES ASSUME NEW t \in Calls, ~Exists(t), lock[t] \notin {c, None} PROVE slots'[t] = slots[t]
        BY DEF Exists
      <3>1. Holding(lock[t]) /\ Slot(lock[t]) = t /\ lock[t] \in Calls
        BY DEF IInv, Types, SlotIsKept
      <3>2. Exists(t)
        BY <3>1, AttachmentsAssumption DEF IInv, KnowsItsSlot, Holding, Exists
      <3> QED BY <3>2
    <2>1. t # c
      BY DEF IInv, KnowsItsSlot, InFlight
    <2> QED BY <2>1, AttachmentsAssumption DEF Exists
  <1>8. ASSUME NEW d \in Calls
        PROVE  KnowsItsSlot(d)'
    <2>1. CASE d = c
      BY <1>1, <1>2, <1>5, <2>1, AttachmentsAssumption
         DEF IInv, KnowsItsSlot, Holding, InUpload, InFinalize, Exists, Seen, InFlight
    <2>2. CASE d # c
      <3>1. KnowsItsSlot(d) /\ OfItsVerb(d) /\ pc'[d] = pc[d] /\ req'[d] = req[d]
        BY <1>1, <1>5, <2>2 DEF IInv
      <3>2. Holding(d) \/ pc[d] \in {"exists", "update", "read"} => Slot(d) \in Calls
        BY <3>1, RequestShape DEF OfItsVerb, Holding, InUpload, InFinalize, Slot, Verb
      <3>3. Holding(d)' => lock'[Slot(d)] = d
        BY <1>1, <2>2, <3>1, <3>2 DEF KnowsItsSlot, Holding, InUpload, InFinalize, Slot, Verb
      <3>4. InUpload(d)' => slots'[Slot(d)] = "pending"
        BY <1>7, <2>2, <3>1, <3>2, AttachmentsAssumption DEF KnowsItsSlot, Holding, InUpload, Slot
      <3>5. Exists(d)' => pc[d] = "answered" /\ req[d] \in CreateRequest /\ Seen(d)
        BY <2>2, <3>1 DEF KnowsItsSlot, Exists
      <3>6. req[d] \in CreateRequest /\ Seen(d) => Seen(d)'
        BY <1>1, <1>5, <3>1, RequestShape DEF Seen
      <3>7. InFinalize(d) \/ pc[d] \in {"exists", "update"} => Exists(Slot(d))'
        BY <1>7, <3>1, <3>2 DEF KnowsItsSlot, Holding, Exists, Slot
      <3>8. pc[d] = "read" => slots'[Slot(d)] = "ready"
        BY <1>7, <3>1, <3>2, AttachmentsAssumption DEF KnowsItsSlot, Exists
      <3> QED BY <3>1, <3>3, <3>4, <3>5, <3>6, <3>7, <3>8
              DEF KnowsItsSlot, InUpload, InFinalize, Slot, Verb, Exists
    <2> QED BY <2>1, <2>2
  <1>9. ASSUME NEW d \in Calls
        PROVE  KnowsItsFile(d)' /\ RecordsAlone(d)'
    <2>1. KnowsItsFile(d)'
      BY <1>1, <1>5 DEF IInv, KnowsItsFile, HasFoundFile, Uploaded, Verb, Slot
    <2>2. RecordsAlone(d)'
      <3> SUFFICES ASSUME pc'[d] = "commit" PROVE RecordsAlone(d)'
        BY DEF RecordsAlone
      <3>1. d # c /\ pc[d] = "commit" /\ req[d].op \in Ops /\ req[d].op # req[c].op
        BY <1>5, RequestShape DEF IInv, OfItsVerb
      <3> QED BY <1>1, <1>5, <3>1 DEF IInv, RecordsAlone, Seen
    <2> QED BY <2>1, <2>2
  <1>10. ASSUME NEW t \in Calls
        PROVE  SlotIsKept(t)'
    <2>1. lock'[t] # None => lock'[t] = lock[t] /\ lock[t] # c
      BY <1>1
    <2>2. lock'[t] # None => Holding(lock[t])' /\ Slot(lock[t])' = t
      BY <1>1, <1>5, <2>1 DEF IInv, Types, SlotIsKept, Holding, InUpload, InFinalize, Verb, Slot
    <2>3. lock[t] # None /\ pc[lock[t]] = "write" => lock'[t] = lock[t] /\ pc'[lock[t]] = "write"
      BY <1>1, <1>5 DEF IInv, Types, InUpload
    <2>4. slots'[t] = "ready" => slots[t] = "ready" \/ file[t].size = "whole" \/ excuses[t] # {}
      OBVIOUS
    <2> QED BY <1>1, <2>1, <2>2, <2>3, <2>4 DEF IInv, SlotIsKept
  <1>11. OneSlotPerOperation'
    <2> SUFFICES ASSUME NEW t \in Calls, NEW u \in Calls, Exists(t)', Exists(u)',
                        req[t].op = req[u].op, t # u
                 PROVE  FALSE
      BY <1>1 DEF OneSlotPerOperation
    <2>1. \A d \in Calls : Exists(d)' => d = c \/ (Exists(d) /\ Seen(d))
      BY DEF IInv, KnowsItsSlot, Exists
    <2> QED BY <2>1 DEF IInv, OneSlotPerOperation, Seen
  <1>12. DownloadsAreWhole'
    BY <1>1, <1>5 DEF IInv, DownloadsAreWhole, Slot
  <1> QED BY <1>4, <1>6, <1>8, <1>9, <1>10, <1>11, <1>12 DEF IInv

LEMMA AnswersOk ==
  ASSUME NEW s \in Calls
  PROVE  /\ [NoAnswer EXCEPT !.outcome = "ok", !.slot = s] \in Answers
         /\ [NoAnswer EXCEPT !.outcome = "ok", !.slot = s].content = None
  BY DEF NoAnswer, Answers, Outcomes

LEMMA CommitCreateKeepsIInv ==
  ASSUME IInv, NEW c \in Calls, CommitCreate(c)
  PROVE  IInv'
  <1>1. pc[c] = "commit" /\ req[c] \in CreateRequest
    BY RequestShape DEF IInv, OfItsVerb, CommitCreate, Verb
  <1>2. ~Seen(c) /\ \A d \in Calls \ {c} : pc[d] = "commit" => req[d].op # req[c].op
    BY <1>1 DEF IInv, RecordsAlone
  <1>3. slots' = [slots EXCEPT ![c] = "pending"]
    BY DEF CommitCreate
  <1>4. /\ slots' \in [Calls -> {"pending", "ready", None}]
        /\ \A t \in Calls : slots'[t] # slots[t] => t = c /\ slots'[t] = "pending"
    BY <1>3 DEF IInv, Types
  <1> QED BY <1>1, <1>2, <1>4, AnswersOk, RecordStep DEF CommitCreate, InFlight, InUpload

LEMMA RecordReadyKeepsIInv ==
  ASSUME IInv, NEW c \in Calls, RecordReady(c)
  PROVE  IInv'
  <1>1. pc[c] = "recordReady" /\ req[c] \in FinalizeRequest /\ Slot(c) \in Calls
    BY RequestShape DEF IInv, OfItsVerb, RecordReady, Slot
  <1>2. CASE Refuse(c, "internalError")
    BY <1>1, <1>2, RefuseKeepsIInv DEF Outcomes, Refusals
  <1>3. CASE /\ ~Seen(c)
             /\ Receipt(c, Slot(c))
             /\ Answer(c, [NoAnswer EXCEPT !.outcome = "ok", !.slot = Slot(c)])
             /\ UNCHANGED <<slots, file, excuses>>
    <2>1. \A d \in Calls \ {c} : pc[d] = "commit" => req[d].op # req[c].op
      BY <1>1, AttachmentsAssumption DEF RecordReady, Free, Blockers
    <2>2. /\ slots' \in [Calls -> {"pending", "ready", None}]
          /\ \A t \in Calls : slots'[t] = slots[t]
      BY <1>3 DEF IInv, Types
    <2> QED BY <1>1, <1>3, <2>1, <2>2, AnswersOk, RecordStep DEF InFlight, InUpload
  <1> QED BY <1>2, <1>3 DEF RecordReady

\* The file was found, and the row has been held since: it is whole or excused.
LEMMA CommitFinalizeKeepsIInv ==
  ASSUME IInv, NEW c \in Calls, CommitFinalize(c)
  PROVE  IInv'
  <1>1. /\ pc[c] = "commit" /\ req[c] \in FinalizeRequest /\ Slot(c) \in Calls
        /\ Verb(c) = "finalize" /\ InFinalize(c) /\ HasFoundFile(c, Slot(c))
    BY RequestShape DEF IInv, OfItsVerb, CommitFinalize, Slot, Verb, InFinalize, HasFoundFile
  <1>2. ~Seen(c) /\ \A d \in Calls \ {c} : pc[d] = "commit" => req[d].op # req[c].op
    BY <1>1 DEF IInv, RecordsAlone
  <1>3. slots' = [slots EXCEPT ![Slot(c)] = "ready"]
    BY DEF CommitFinalize
  <1>4. /\ slots' \in [Calls -> {"pending", "ready", None}]
        /\ \A t \in Calls : slots'[t] # slots[t] => t = Slot(c) /\ slots'[t] = "ready"
    BY <1>1, <1>3 DEF IInv, Types
  <1>5. lock[Slot(c)] = c /\ Exists(Slot(c))
    BY <1>1 DEF IInv, KnowsItsSlot, Holding
  <1>6. file[Slot(c)].size = "whole" \/ excuses[Slot(c)] # {}
    <2>1. file[Slot(c)].size \in {"partial", "whole"} \/ excuses[Slot(c)] # {}
      BY <1>1 DEF IInv, KnowsItsFile, Uploaded
    <2>2. file[Slot(c)].size = "partial" => excuses[Slot(c)] # {}
      BY <1>1, <1>5 DEF IInv, SlotIsKept
    <2> QED BY <2>1, <2>2
  <1> QED BY <1>1, <1>2, <1>4, <1>5, <1>6, AnswersOk, RecordStep
          DEF CommitFinalize, InFlight, InUpload

(***************************************************************************)
(* The crash                                                               *)
(***************************************************************************)

LEMMA CrashKeepsIInv == ASSUME IInv, Crash PROVE IInv'
  <1>1. /\ \A c \in Calls : pc'[c] \in {"idle", "answered"}
        /\ \A c \in Calls : pc[c] \in {"idle", "answered"} => pc'[c] = pc[c] /\ answer'[c] = answer[c]
        /\ \A c \in Calls : pc[c] \notin {"idle", "answered"} =>
              pc'[c] = "answered" /\ answer'[c] = [NoAnswer EXCEPT !.outcome = "lost"]
        /\ \A s \in Calls : lock'[s] = None
        /\ UNCHANGED <<tables, file, req>>
    BY DEF Crash, InFlight
  <1>2. [NoAnswer EXCEPT !.outcome = "lost"] \in Answers
        /\ [NoAnswer EXCEPT !.outcome = "lost"].content = None
    BY DEF NoAnswer, Answers, Outcomes
  <1>3. /\ excuses' \in [Calls -> SUBSET {"brokenOff", "rewritten"}]
        /\ \A s \in Calls : excuses[s] \subseteq excuses'[s]
        /\ \A s \in Calls : (\E c \in Calls : pc[c] = "write" /\ Slot(c) = s) => excuses'[s] # {}
    BY DEF Crash, IInv, Types
  <1>4. Types'
    <2>1. pc' \in [Calls -> Steps] /\ lock' \in [Calls -> Calls \cup {None}]
      BY DEF Crash, IInv, Types, Steps
    <2>2. answer' \in [Calls -> Answers]
      BY <1>2 DEF Crash, IInv, Types
    <2> QED BY <1>1, <1>3, <2>1, <2>2 DEF IInv, Types, tables
  <1>5. ASSUME NEW c \in Calls
        PROVE  OfItsVerb(c)' /\ KnowsItsSlot(c)' /\ KnowsItsFile(c)' /\ RecordsAlone(c)'
    <2>1. OfItsVerb(c)'
      BY <1>1, <1>2 DEF IInv, OfItsVerb, InUpload
    <2>2. KnowsItsSlot(c)'
      BY <1>1 DEF IInv, KnowsItsSlot, Holding, InUpload, InFinalize, Exists, Seen, tables
    <2>3. KnowsItsFile(c)' /\ RecordsAlone(c)'
      BY <1>1 DEF KnowsItsFile, RecordsAlone, HasFoundFile
    <2> QED BY <2>1, <2>2, <2>3
  <1>6. ASSUME NEW s \in Calls
        PROVE  SlotIsKept(s)'
    <2>1. excuses[s] # {} => excuses'[s] # {}
      BY <1>3
    <2>2. lock[s] # None /\ pc[lock[s]] = "write" => excuses'[s] # {}
      BY <1>3 DEF IInv, Types, SlotIsKept
    <2> QED BY <1>1, <2>1, <2>2 DEF IInv, SlotIsKept, tables
  <1>7. OneSlotPerOperation'
    BY <1>1 DEF IInv, OneSlotPerOperation, Exists, tables
  <1>8. DownloadsAreWhole'
    <2> SUFFICES ASSUME NEW c \in Calls, answer'[c].content # None
                 PROVE  answer'[c].content.size = "whole" \/ excuses'[Slot(c)] # {}
      BY <1>1 DEF DownloadsAreWhole, Slot
    <2>1. answer'[c] = answer[c] /\ Slot(c) \in Calls
      BY <1>1, <1>2, RequestShape DEF IInv, OfItsVerb, Slot
    <2>2. answer[c].content.size = "whole" \/ excuses[Slot(c)] # {}
      BY <2>1 DEF IInv, DownloadsAreWhole
    <2> QED BY <1>3, <2>1, <2>2
  <1> QED BY <1>4, <1>5, <1>6, <1>7, <1>8 DEF IInv

(***************************************************************************)
(* Every step                                                              *)
(***************************************************************************)

LEMMA HandleKeepsIInv == ASSUME IInv, NEW c \in Calls, Handle(c) PROVE IInv'
  BY CheckKeepsIInv, RecheckKeepsIInv, ReadTaskKeepsIInv, RecordKeepsIInv, CommitCreateKeepsIInv,
     LockSlotKeepsIInv, OpenFileKeepsIInv, WriteFileKeepsIInv, FailWriteKeepsIInv,
     CommitUploadKeepsIInv, ReadRowKeepsIInv, RecordReadyKeepsIInv, FindFileKeepsIInv,
     UpdateSlotKeepsIInv, CommitFinalizeKeepsIInv, ReadStatusKeepsIInv, ReadFileKeepsIInv
  DEF Handle

LEMMA StutterKeepsIInv == ASSUME IInv, UNCHANGED vars PROVE IInv'
  <1> USE DEF vars, tables
  <1>1. Types' /\ OneSlotPerOperation' /\ DownloadsAreWhole'
    BY DEF IInv, Types, OneSlotPerOperation, DownloadsAreWhole, Exists, Slot
  <1>2. ASSUME NEW c \in Calls
        PROVE  OfItsVerb(c)' /\ KnowsItsSlot(c)' /\ KnowsItsFile(c)' /\ RecordsAlone(c)'
    <2>1. OfItsVerb(c)' /\ RecordsAlone(c)'
      BY DEF IInv, OfItsVerb, RecordsAlone, InUpload, Seen
    <2>2. KnowsItsSlot(c)'
      BY DEF IInv, KnowsItsSlot, Holding, InUpload, InFinalize, Exists, Seen, Verb, Slot
    <2>3. KnowsItsFile(c)'
      BY DEF IInv, KnowsItsFile, HasFoundFile, Uploaded, Verb, Slot
    <2> QED BY <2>1, <2>2, <2>3
  <1>3. ASSUME NEW s \in Calls
        PROVE  SlotIsKept(s)'
    BY DEF IInv, SlotIsKept, Holding, InUpload, InFinalize, Verb, Slot
  <1> QED BY <1>1, <1>2, <1>3 DEF IInv

LEMMA NextKeepsIInv == IInv /\ [Next]_vars => IInv'
  BY SubmitKeepsIInv, HandleKeepsIInv, CrashKeepsIInv, StutterKeepsIInv DEF Next

\* The inductive invariant holds of every reachable state.
THEOREM AlwaysIInv == Spec => []IInv
  BY InitEstablishesIInv, NextKeepsIInv, PTL DEF Spec

LEMMA IInvImpliesTypes == IInv => AttTypeOK
  <1> SUFFICES ASSUME IInv PROVE AttTypeOK
    OBVIOUS
  <1>1. /\ slots \in [Calls -> {"pending", "ready", None}]
        /\ file \in [Calls -> [size : {"absent", "empty", "partial", "whole"}, by : Calls \cup {None}]]
        /\ pc \in [Calls -> Steps]
        /\ \A c \in Calls : answer[c].outcome \in Refusals \cup {"none", "ok", "lost"}
    BY DEF IInv, Types, File, Sizes, Answers, Outcomes
  <1>2. \A s \in Calls : lock[s] # None => InFlight(lock[s]) /\ Slot(lock[s]) = s
    BY DEF IInv, SlotIsKept, Holding, InUpload, InFinalize, InFlight
  <1>3. \A c \in Calls : Writing(c) => lock[Slot(c)] = c
    BY DEF IInv, KnowsItsSlot, Holding, InUpload, Writing
  <1> QED BY <1>1, <1>2, <1>3 DEF AttTypeOK, IInv, OneSlotPerOperation

\* createUpload, uploadBytes, finalize and the download keep their tables, locks and
\* files in shape; only the holder of a row writes its file, and an operation
\* reserves one slot.
THEOREM TypeCorrect == Spec => []AttTypeOK
  BY AlwaysIInv, IInvImpliesTypes, PTL

\* A download answers a whole file, or its slot has one of the two excuses.
THEOREM DownloadsWhole == Spec => []DownloadsAreWhole
  <1>1. IInv => DownloadsAreWhole
    BY DEF IInv
  <1> QED BY <1>1, AlwaysIInv, PTL

(***************************************************************************)
(* The files of a step                                                     *)
(***************************************************************************)

\* No step writes the file or the status of a slot that is ready: whoever writes a
\* file holds the row of a slot that is pending, and a slot is created once.
LEMMA StepKeepsReadyFiles == IInv /\ [Next]_vars => ReadyFilesStand
  <1> SUFFICES ASSUME IInv, [Next]_vars, NEW s \in Calls, slots[s] = "ready"
               PROVE  slots'[s] = "ready" /\ file'[s] = file[s]
    BY DEF ReadyFilesStand
  <1> USE DEF IInv
  <1>1. ASSUME NEW c \in Calls, InUpload(c)
        PROVE  Slot(c) # s
    BY <1>1 DEF KnowsItsSlot
  <1>2. ASSUME NEW c \in Calls, pc[c] = "commit"
        PROVE  c # s
    BY <1>2, AttachmentsAssumption DEF KnowsItsSlot, Exists
  <1>3. ASSUME NEW c \in Calls, OpenFile(c) \/ WriteFile(c)
        PROVE  slots' = slots /\ file'[s] = file[s]
    BY <1>1, <1>3 DEF OpenFile, WriteFile, InUpload, Types, tables
  <1>4. ASSUME NEW c \in Calls, CommitCreate(c) \/ CommitFinalize(c)
        PROVE  slots'[s] = "ready" /\ file' = file
    BY <1>2, <1>4 DEF CommitCreate, CommitFinalize, Types
  <1>5. ASSUME NEW c \in Calls, Handle(c)
        PROVE  slots'[s] = "ready" /\ file'[s] = file[s]
    BY <1>3, <1>4, <1>5
       DEF Handle, Check, Recheck, ReadTask, Record, LockSlot, FailWrite, CommitUpload, ReadRow,
           RecordReady, FindFile, UpdateSlot, ReadStatus, ReadFile, Go, Refuse, Abort,
           AnswerFromReceipt, tables
  <1> QED BY <1>5 DEF Next, Submit, Crash, vars, tables

\* An upload that is answered ok has had the row, and so the file, to itself.
LEMMA StepKeepsAcceptedUploads == IInv /\ [Next]_vars => AcceptedUploadsAreThere
  <1> SUFFICES ASSUME IInv, [Next]_vars, NEW c \in Calls, pc[c] = "uploaded"
               PROVE  file'[Slot(c)] = file[Slot(c)]
    BY DEF AcceptedUploadsAreThere, IInv, KnowsItsFile
  <1> USE DEF IInv
  <1>1. Slot(c) \in Calls /\ lock[Slot(c)] = c
    BY RequestShape DEF OfItsVerb, KnowsItsSlot, Holding, InUpload, Slot
  <1>2. ASSUME NEW d \in Calls, OpenFile(d) \/ WriteFile(d)
        PROVE  file'[Slot(c)] = file[Slot(c)]
    <2>1. InUpload(d) /\ d # c
      BY <1>2 DEF OpenFile, WriteFile, InUpload
    <2>2. lock[Slot(d)] = d
      BY <2>1 DEF KnowsItsSlot, Holding
    <2> QED BY <1>1, <1>2, <2>1, <2>2 DEF OpenFile, WriteFile, Types
  <1>3. ASSUME NEW d \in Calls, Handle(d)
        PROVE  file'[Slot(c)] = file[Slot(c)]
    BY <1>2, <1>3
       DEF Handle, Check, Recheck, ReadTask, Record, LockSlot, FailWrite, CommitUpload, ReadRow,
           RecordReady, FindFile, UpdateSlot, ReadStatus, ReadFile, Go, Refuse, Abort,
           AnswerFromReceipt, CommitCreate, CommitFinalize
  <1> QED BY <1>3 DEF Next, Submit, Crash, vars

\* A ready attachment keeps its file, and an upload that is told ok has its bytes there.
THEOREM FilesAlwaysStand == Spec => FilesStand
  <1>1. IInv /\ [Next]_vars => [ReadyFilesStand /\ AcceptedUploadsAreThere]_vars
    BY StepKeepsReadyFiles, StepKeepsAcceptedUploads
  <1> QED BY <1>1, AlwaysIInv, PTL DEF Spec, FilesStand
=============================================================================
