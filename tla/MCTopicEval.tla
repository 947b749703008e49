---------------------------- MODULE MCTopicEval ----------------------------
(* TopicEval for TLC. *)
EXTENDS TopicEval

MCRates == {NoRate, 1, 2}
=============================================================================
