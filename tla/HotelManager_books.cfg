\* Two rooms, two guests: the books and the cached free beds.
SPECIFICATION HotelSpec
CONSTANTS
    r1 = r1
    r2 = r2
    g1 = g1
    g2 = g2
    g3 = g3
    RoomNumbers <- MCTwoRooms
    Guests <- MCTwoGuests
    Capacities = {1, 2}
    Prices = {1}
    BedCounts <- MCAnyBeds
    DaySteps <- MCSteps
    LastDay = 3
    MostBeds = 2
SYMMETRY HotelSymmetry
INVARIANTS
    HotelTypeOK
    OneReservationPerGuest
    NoExpiredStay
    CapacityAccurate
PROPERTIES
    StartedStayIntact
    FullUnlessEnlarged
