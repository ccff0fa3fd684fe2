----------------------------- MODULE MCLockstep -----------------------------
(* Instances of Lockstep for TLC.                                          *)
EXTENDS Lockstep

CONSTANTS a, b, p, r

(* The server pauses the game and later resumes it; a client gives orders. *)
PauseScript ==
  [q \in Replica |-> IF q = Server THEN <<p, r>> ELSE IF q = 1 THEN <<a>> ELSE <<>>]

(* Only the server speaks.                                                 *)
ServerScript ==
  [q \in Replica |-> IF q = Server THEN <<p, r>> ELSE <<>>]

=============================================================================
