--------------------------- MODULE MCTopicDispatch ---------------------------
(* TopicDispatch on one topic with three messages; the configurations say which
   of them are /bg commands. *)
EXTENDS TopicDispatch

CONSTANTS kA, m1, m2, m3

MCKeys == {kA}
MCMsgs == {m1, m2, m3}
MCKeyOf == [m \in MCMsgs |-> kA]
MCMsgId == [m \in MCMsgs |-> m]
===============================================================================
