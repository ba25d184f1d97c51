---------------------------- MODULE MCDriftProbe ----------------------------
(***************************************************************************)
(* DriftProbe on small sets: a record that checks everything, as a caller  *)
(* with a database has it, and one of a bot of which nothing is known yet. *)
(***************************************************************************)
EXTENDS DriftProbe

CONSTANTS b1, u1, n1

MCRecords ==
  {[BotID |-> b1, ExpectedWebhookURL |-> u1, ExpectPrivacyOff |-> TRUE,
    LastKnownUsername |-> n1],
   [BotID |-> NoBot, ExpectedWebhookURL |-> NoURL, ExpectPrivacyOff |-> TRUE,
    LastKnownUsername |-> NoName]}
=============================================================================
