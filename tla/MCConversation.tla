--------------------------- MODULE MCConversation ---------------------------
(***************************************************************************)
(* A message that is streamed, with either two requests to approve or one  *)
(* and a message that is not streamed.                                     *)
(***************************************************************************)
EXTENDS Conversation

Sent(J) == {j \in J : at[j] # "idle"}
ThreeAtMost == Sent(Plain) = {} \/ Cardinality(Sent(Approver)) < 2
=============================================================================
