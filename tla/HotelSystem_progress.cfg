SPECIFICATION FairSystemSpec
CONSTANTS
    r1 = r1
    ali = ali
    pouya = pouya
    t1 = t1
    t2 = t2
    t3 = t3
    c1 = c1
    c2 = c2
    RoomNumbers = {}
    Guests <- MCGuests
    Capacities = {2}
    Prices = {1}
    BedCounts = {1}
    DaySteps <- MCSteps
    LastDay = 0
    MostBeds = 2
    Usernames <- MCOneUser
    Passwords = {secret}
    NewPasswords = {}
    Phones = {phone}
    ValidPhones = {phone}
    Addresses = {street}
    Balances = {1}
    Ids = {0}
    Tokens <- MCTwoTokens
    Fds = {4, 5, 6}
    Blank = Blank
    BalanceLimit = 0
    Clients <- MCOneClient
    MaxAttempts = 3
    TypesAhead = TRUE
    LossyNetwork = TRUE
    Interrupts = TRUE
PROPERTIES
    PromptReturns
    LostSessionEnds
