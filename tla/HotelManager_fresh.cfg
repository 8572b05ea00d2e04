SPECIFICATION GrowingHotelSpec
CONSTANTS
    r1 = r1
    r2 = r2
    g1 = g1
    g2 = g2
    g3 = g3
    RoomNumbers <- MCOneRoom
    Guests <- MCTwoGuests
    Capacities = {2}
    Prices = {1}
    BedCounts = {1, 3}
    DaySteps <- MCSteps
    LastDay = 3
    MostBeds = 2
INVARIANTS
    NeverOverbooked
