\* One connection and one session at a time.  A server whose file was cut
\* short cannot be started again.
SPECIFICATION PersistenceSpec
CONSTANTS
    r1 = r1
    ali = ali
    pouya = pouya
    t1 = t1
    RoomNumbers <- MCRooms
    Guests <- MCGuests
    Capacities = {1}
    Prices = {2}
    BedCounts = {1}
    DaySteps <- MCSteps
    LastDay = 2
    MostBeds = 2
    Usernames <- MCUsers
    Passwords = {secret}
    Phones = {phone}
    ValidPhones = {phone}
    Addresses = {street}
    Balances = {2}
    Ids = {0}
    Tokens <- MCTokens
    Fds = {4}
    Blank = Blank
    BalanceLimit = 0
    MaxStarts = 3
CHECK_DEADLOCK FALSE
SYMMETRY MCSymmetry
INVARIANTS
    PersistenceTypeOK
    ReservationsHaveOneOwner
    MoneySurvives
