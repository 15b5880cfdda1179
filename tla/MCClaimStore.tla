----------------------------- MODULE MCClaimStore ------------------------------
(* Three claims that disagree about one thing.                              *)
EXTENDS ClaimStore, TLC

CONSTANTS c1, c2, c3

MCClaims == {c1, c2, c3}
MCKeyOf  == [c \in Claims |-> "port"]
MCObjectOf == [c \in Claims |-> IF c = c1 THEN "80" ELSE IF c = c2 THEN "81" ELSE "82"]
AgentSymmetry == Permutations(Agents)
=============================================================================
