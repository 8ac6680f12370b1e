---------------------------- MODULE MCConversations ----------------------------
(***************************************************************************)
(* What customers and staff settle with each other, in one run: who may    *)
(* use the shop, and what is written about the orders.  The two parts      *)
(* share no state; in each behaviour one of them takes the steps.          *)
(***************************************************************************)
EXTENDS Registration, SupportThreads

VARIABLE part   \* the one that takes the steps

conversationVars == <<part, vars, supportVars>>

ConversationInit ==
  /\ part \in {"registration", "support"}
  /\ Init /\ SupportInit
  \* One initial state is enough for a part that rests.
  /\ part = "support" => ~autoApprove

Registers == part = "registration" /\ UNCHANGED <<part, supportVars>>
Corresponds == part = "support" /\ UNCHANGED <<part, vars>>

ConversationNext ==
  \/ Registers /\ Next
  \/ Corresponds /\ SupportNext

ConversationSpec ==
  /\ ConversationInit /\ [][ConversationNext]_conversationVars
  /\ WF_conversationVars(Registers /\ TaskStep)
================================================================================
