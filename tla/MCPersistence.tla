---------------------------- MODULE MCPersistence ----------------------------
(* A hotel of one room that is saved, interrupted and started again, for    *)
(* TLC.                                                                     *)
EXTENDS Persistence, TLC

CONSTANTS r1, ali, pouya, t1

MCRooms == {r1}
MCUsers == {ali, pouya}
MCTokens == {t1}
MCGuests == 0 .. 2
MCSteps == {1}
MCSymmetry == Permutations(Usernames)
=============================================================================
