---------------------------- MODULE BedInventory ----------------------------
(***************************************************************************)
(* What a hotel's books promise, whatever they are kept in: for each room   *)
(* the number of its beds, for each night how many of them are taken, and   *)
(* no more are given away than there are.  Who has reserved, at what price, *)
(* and what is cached where is left out.                                    *)
(***************************************************************************)
EXTENDS Integers

CONSTANTS
    RoomNumbers, Capacities, BedCounts,
    Days

VARIABLES
    today_date,
    beds,           \* room -> its beds
    taken           \* room -> night -> beds reserved for it

inventory == <<today_date, beds, taken>>

Nights(check_in, check_out) == check_in .. (check_out - 1)

InventoryInit ==
    /\ today_date \in Days
    /\ \E S \in SUBSET RoomNumbers :
           /\ beds \in [S -> Capacities]
           /\ taken = [r \in S |-> [d \in Days |-> 0]]

Reserve(r, n, check_in, check_out) ==
    /\ r \in DOMAIN beds
    /\ today_date <= check_in /\ check_in < check_out
    /\ \A d \in Nights(check_in, check_out) : taken[r][d] + n <= beds[r]
    /\ taken' = [taken EXCEPT ![r] =
                    [d \in Days |-> IF d \in Nights(check_in, check_out)
                                    THEN @[d] + n ELSE @[d]]]
    /\ UNCHANGED <<today_date, beds>>

(* Guests cancel, leave or are sent away: beds of one room come free. *)
Release(r) ==
    /\ r \in DOMAIN beds
    /\ DOMAIN taken' = DOMAIN taken
    /\ \A s \in DOMAIN taken \ {r} : taken'[s] = taken[s]
    /\ \A d \in Days : taken'[r][d] <= taken[r][d]
    /\ UNCHANGED <<today_date, beds>>

(* Nights that are over may be forgotten; no night to come is touched. *)
SetDate(day) ==
    /\ today_date' = day
    /\ DOMAIN taken' = DOMAIN taken
    /\ \A r \in DOMAIN taken, d \in Days :
           IF d >= day THEN taken'[r][d] = taken[r][d] ELSE taken'[r][d] <= taken[r][d]
    /\ UNCHANGED beds

Open(r, n) ==
    /\ r \notin DOMAIN beds
    /\ beds' = [s \in DOMAIN beds \cup {r} |-> IF s = r THEN n ELSE beds[s]]
    /\ taken' = [s \in DOMAIN beds \cup {r} |->
                    IF s = r THEN [d \in Days |-> 0] ELSE taken[s]]
    /\ UNCHANGED today_date

Enlarge(r, n) ==
    /\ r \in DOMAIN beds /\ n >= beds[r]
    /\ beds' = [beds EXCEPT ![r] = n]
    /\ UNCHANGED <<today_date, taken>>

(* A room is closed on a day on which nobody is in it. *)
Close(r) ==
    /\ r \in DOMAIN beds /\ taken[r][today_date] = 0
    /\ beds' = [s \in DOMAIN beds \ {r} |-> beds[s]]
    /\ taken' = [s \in DOMAIN beds \ {r} |-> taken[s]]
    /\ UNCHANGED today_date

InventoryNext ==
    \/ \E r \in RoomNumbers, n \in BedCounts, i, o \in Days : Reserve(r, n, i, o)
    \/ \E r \in RoomNumbers : Release(r) \/ Close(r)
    \/ \E r \in RoomNumbers, n \in Capacities : Open(r, n) \/ Enlarge(r, n)
    \/ \E d \in Days : SetDate(d)

InventorySpec == InventoryInit /\ [][InventoryNext]_inventory
=============================================================================
