------------------------------ MODULE MCFeedSync ------------------------------
(* Instances of FeedSync for TLC: discovery found every repository, and the webhook
   receiver recorded one of them once more. *)
EXTENDS FeedSync

MCKnown == [r \in Repos |-> IF r = AnyRepo THEN Keys ELSE {"found"}]
================================================================================
