\* Three users on two connections; the file may hold ids 0 and 2 only.
SPECIFICATION UserSpec
CONSTANTS
    ali = ali
    pouya = pouya
    morad = morad
    t1 = t1
    t2 = t2
    t3 = t3
    Usernames <- MCUsernames
    Passwords = {secret, changed}
    Phones = {phone, tooShort}
    ValidPhones = {phone}
    Addresses = {street}
    Balances = {1}
    Ids = {0, 2}
    Tokens <- MCTokens
    Fds = {4, 5}
    Blank = Blank
    BalanceLimit = 1
SYMMETRY MCSymmetry
INVARIANTS
    UserTypeOK
    SessionPerToken
    DistinctIds
PROPERTIES
    SessionNotTakenOver
