SPECIFICATION SystemSpec
CONSTANTS
    r1 = r1
    ali = ali
    pouya = pouya
    t1 = t1
    t2 = t2
    t3 = t3
    c1 = c1
    c2 = c2
    RoomNumbers <- MCRooms
    Guests <- MCGuests
    Capacities = {1}
    Prices = {1}
    BedCounts = {1}
    DaySteps <- MCSteps
    LastDay = 1
    MostBeds = 2
    Usernames <- MCTwoUsers
    Passwords = {secret}
    NewPasswords = {}
    Phones = {phone}
    ValidPhones = {phone}
    Addresses = {street}
    Balances = {1}
    Ids = {0, 1}
    Tokens <- MCTwoTokens
    Fds = {4, 5}
    Blank = Blank
    BalanceLimit = 0
    Clients <- MCOneClient
    MaxAttempts = 2
    TypesAhead = TRUE
    LossyNetwork = FALSE
    Interrupts = FALSE
SYMMETRY MCSymmetry
INVARIANTS
    AsksWhatItsUserMay
PROPERTIES
    ServerSpec
