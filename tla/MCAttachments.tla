---------------------------- MODULE MCAttachments ----------------------------
(***************************************************************************)
(* One slot, and a retry of its reservation, with two calls that upload or *)
(* finalize beside each other and a last one that downloads or retries.    *)
(***************************************************************************)
EXTENDS Attachments, TLC

Create(op, task) == [verb |-> "create", op |-> op, task |-> task]
Upload(slot, data) == [verb |-> "upload", slot |-> slot, data |-> data]
Finalize(op, slot) == [verb |-> "finalize", op |-> op, slot |-> slot]
Download(slot) == [verb |-> "download", slot |-> slot]

MCRequests ==
    "c1" :> {Create("o1", "task")}
    @@ "c2" :> {Upload("c1", "bytes"), Create("o1", "task"), Create("o2", "noTask")}
    @@ "c3" :> {Upload("c1", "bytes"), Upload("c1", "nothing"), Finalize("o2", "c1"),
                Upload("c2", "bytes")}
    @@ "c4" :> {Finalize("o2", "c1"), Finalize("o1", "c1"), Finalize("o3", "c2")}
    @@ "c5" :> {Download("c1"), Upload("c1", "bytes"), Finalize("o2", "c1")}
============================================================================
