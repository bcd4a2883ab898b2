---------------------------- MODULE MCHeldQueue ----------------------------
(* Small instances of HeldQueue and its refinement: two messages whose kinds the
   configuration chooses. *)
EXTENDS HeldQueueRefinement, TLC

CONSTANTS m1, m2

MCMsgs == {m1, m2}
AgentAndOwner == m1 :> "agent" @@ m2 :> "owner"
AgentAndAsk == m1 :> "agent" @@ m2 :> "ask"
NoticeAndAgent == m1 :> "notice" @@ m2 :> "agent"
=============================================================================
