\* One room, three guests, an administrator who takes no beds out.
SPECIFICATION GrowingHotelSpec
CONSTANTS
    r1 = r1
    r2 = r2
    g1 = g1
    g2 = g2
    g3 = g3
    RoomNumbers <- MCOneRoom
    Guests <- MCThreeGuests
    Capacities = {2, 3}
    Prices = {1}
    BedCounts = {1, 2}
    DaySteps <- MCSteps
    LastDay = 4
    MostBeds = 2
SYMMETRY GuestSymmetry
INVARIANTS
    NeverOverbooked
    SoldOutIsFlagged
PROPERTIES
    KeepsInventory
