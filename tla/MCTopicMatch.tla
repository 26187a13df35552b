---------------------------- MODULE MCTopicMatch ----------------------------
(* All topics up to MaxTopic characters, all expressions up to MaxExp.     *)
EXTENDS TopicMatch

CONSTANTS MaxTopic, MaxExp

MCTopics == UNION {[1..k -> {"a", "b", "."}] : k \in 0..MaxTopic}
MCExps   == UNION {[1..k -> {"a", ".", "*", ">"}] : k \in 0..MaxExp}
=============================================================================
