------------------------------ MODULE MCAgents ------------------------------
(***************************************************************************)
(* A human and an agent that are registered, and an agent that comes with  *)
(* the environment, whose entries change from boot to boot.                *)
(***************************************************************************)
EXTENDS Agents, TLC

MCStart == 1 :> "human" @@ 2 :> "agent"
MCTokens == "t1" :> 1 @@ "t2" :> 2

Beat(caller, actor) == [verb |-> "heartbeat", caller |-> caller, actor |-> actor]
Stop(op, caller, actor) == [verb |-> "deactivate", op |-> op, caller |-> caller, actor |-> actor]
Job == [verb |-> "expire"]
Boot(env) == [verb |-> "boot", env |-> env]
Agent(a, h) == [actor |-> a, kind |-> "agent", hash |-> h]

\* Heartbeats, deactivations and runs of the job beside each other and a boot; boots
\* with one token, with another, with none, with an entry for a registered agent,
\* and with a token that has been another actor's.
MCRequests ==
    "c1" :> {Beat(2, 2), Stop("o1", 1, 2), Boot(<<Agent(3, "e1")>>)}
    @@ "c2" :> {Beat(2, 2), Job, Stop("o1", 1, 2), Boot(<<>>),
                Boot(<<Agent(2, "e1"), Agent(3, "e2")>>)}
    @@ "c3" :> {Job, Beat(2, 2), Beat(2, 3), Beat(3, 3), Beat(1, 1), Stop("o1", 1, 2),
                Stop("o1", 1, 3), Stop("o2", 1, 2), Stop("o2", 2, 2), Stop("o3", 1, 1),
                Boot(<<Agent(3, "e2")>>), Boot(<<Agent(3, "e1"), Agent(2, "e2")>>)}
============================================================================
