--------------------------- MODULE MCHotelManager ---------------------------
(* Small hotels for TLC. *)
EXTENDS HotelInventory, TLC

CONSTANTS r1, r2, g1, g2, g3

MCOneRoom == {r1}
MCTwoRooms == {r1, r2}
MCTwoGuests == {g1, g2}
MCThreeGuests == {g1, g2, g3}

MCSteps == {-1, 1, 2}
MCAnyBeds == {-1, 1, 2}

GuestSymmetry == Permutations(Guests)
HotelSymmetry == Permutations(Guests) \cup Permutations(RoomNumbers)
=============================================================================
