----------------------------- MODULE MCTeamVote -----------------------------
(* Instances of TeamVote for TLC.                                          *)
EXTENDS TeamVote

(* The player of the server, an AI, and the player of a client.  The first *)
(* one is alone in team 1, the others are in team 0.                       *)
PairHuman == [r \in 0 .. 1 |-> IF r = 0 THEN 1 ELSE 3]
PairTeam == [f \in 1 .. 3 |-> IF f = 1 THEN 1 ELSE 0]

(* A team of three, in which a majority is less than everybody: two AIs    *)
(* and the player of the client.  The player of the server is alone in     *)
(* team 1.                                                                 *)
TrioHuman == [r \in 0 .. 1 |-> IF r = 0 THEN 1 ELSE 4]
TrioTeam == [f \in 1 .. 4 |-> IF f = 1 THEN 1 ELSE 0]
=============================================================================
