\* One room at one price; two users and two connections that come and go.
SPECIFICATION ServerSpec
CONSTANTS
    r1 = r1
    ali = ali
    pouya = pouya
    t1 = t1
    t2 = t2
    RoomNumbers <- MCRooms
    Guests <- MCGuests
    Capacities = {2}
    Prices = {1}
    BedCounts = {1, 2}
    DaySteps <- MCSteps
    LastDay = 2
    MostBeds = 2
    Usernames <- MCTwoUsers
    Passwords = {secret}
    Phones = {phone, tooShort}
    ValidPhones = {phone}
    Addresses = {street}
    Balances = {3}
    Ids = {1}
    Tokens <- MCTwoTokens
    Fds = {4, 5}
    Blank = Blank
    BalanceLimit = 0
SYMMETRY MCSymmetry
INVARIANTS
    ServerTypeOK
    SessionHasConnection
    HeldIsPaid
    ReservationsHaveOneOwner
