--------------------------- MODULE HotelInventory ---------------------------
(***************************************************************************)
(* The books of HotelManager as an inventory of beds.                       *)
(***************************************************************************)
EXTENDS HotelManager

beds_of == [r \in DOMAIN rooms |-> rooms[r].max_capacity]

taken_of ==
    [r \in DOMAIN rooms |-> [d \in Days |-> BedsOf(staying(rooms[r], d))]]

Inventory == INSTANCE BedInventory WITH beds <- beds_of, taken <- taken_of

(* The hotel of an administrator who takes no beds out keeps what the       *)
(* inventory promises: no night is given away twice, a date change touches  *)
(* no night to come, and a room that is removed has nobody in it, although  *)
(* each is decided by lists of stays and a cached number of free beds.      *)
KeepsInventory == Inventory!InventorySpec
=============================================================================
