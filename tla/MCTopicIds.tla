----------------------------- MODULE MCTopicIds ------------------------------
(* TopicDispatch on two topics of different chats.  The one gets two text
   messages, the other a single one, whose ID is also used in the first chat. *)
EXTENDS TopicDispatch

CONSTANTS kA, kB, m1, m2, n1

MCKeys == {kA, kB}
MCMsgs == {m1, m2, n1}
MCKeyOf == [m \in MCMsgs |-> IF m = n1 THEN kB ELSE kA]
MCMsgId == [m \in MCMsgs |-> IF m = n1 THEN m2 ELSE m]
===============================================================================
