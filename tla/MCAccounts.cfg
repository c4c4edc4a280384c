SPECIFICATION FairSpec
CONSTANTS
    Servers = {s1, s2}
    N = 2
    MaxFaults = 1
    r1 = r1
    r2 = r2
    q1 = q1
    q2 = q2
    Users <- MCUsers
    Name <- MCName
    Email <- MCEmail
    Updates <- MCUpdates
    Target <- MCTarget
    Fields <- MCFields
    Uses = {o1}
    NoRow = NoRow
    MaxCalls = 3
INVARIANTS AccountsInv RegistrationRoles UpdatesStick DeletionIsFinal
PROPERTY StartsInTheEnd
