---------------------------- MODULE MCHotelSystem ----------------------------
(* A few clients and users around a small hotel for TLC. *)
EXTENDS HotelSystem, TLC

CONSTANTS r1, ali, pouya, t1, t2, t3, c1, c2

MCRooms == {r1}
MCOneUser == {ali}
MCTwoUsers == {ali, pouya}
MCTwoTokens == {t1, t2}
MCThreeTokens == {t1, t2, t3}
MCOneClient == {c1}
MCTwoClients == {c1, c2}
MCGuests == 0 .. 3
MCSteps == {1}
MCSymmetry == Permutations(Usernames) \cup Permutations(Tokens) \cup Permutations(Clients)
=============================================================================
