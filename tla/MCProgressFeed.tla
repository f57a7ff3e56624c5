---------------------------- MODULE MCProgressFeed ----------------------------
(* ProgressFeed with one agent and one other tool. *)
EXTENDS ProgressFeed

CONSTANTS agent, bash, blank, t1, t2

MCTools  == {agent, bash}
MCAgents == {agent}
MCTexts  == {blank, t1, t2}
===============================================================================
