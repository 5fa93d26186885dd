SPECIFICATION Spec
CONSTANTS
    Names = {"root", "ann"}
    Subjects = {"sub"}
    MaxUser = 3
    MaxToken = 4
    MaxSecret = 2
    Slots = {r1, r2}
    r1 = r1
    r2 = r2
    MaxRequests = 3
    TotpAttempts = 1
    LoginAttempts = 1
    Ttl = 1
    RedisFails = TRUE
    Seeds <- MCSeeds
INVARIANTS
    AccountsAreWhole
    PasswordChangeEndsSessions
    GuessesAreBounded
    CopyEndsWithSession
PROPERTIES
    RuntimeFollowsTable
    RevocationReachesCopies
CHECK_DEADLOCK FALSE
