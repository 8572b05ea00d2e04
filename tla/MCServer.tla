------------------------------ MODULE MCServer ------------------------------
(* A small hotel with a few users for TLC. *)
EXTENDS Server, TLC

CONSTANTS r1, ali, pouya, t1, t2

MCRooms == {r1}
MCTwoUsers == {ali, pouya}
MCTwoTokens == {t1, t2}
MCGuests == 0 .. 3
MCSteps == {1}
MCSymmetry == Permutations(Usernames) \cup Permutations(Tokens)
=============================================================================
