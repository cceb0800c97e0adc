SPECIFICATION FairSpec
CONSTANTS
    o1 = o1  j1 = j1  j2 = j2  h1 = h1  h2 = h2  h3 = h3
    f1 = f1  f2 = f2  g1 = g1  s1 = s1  s2 = s2
    Owners = {o1}
    Jobs = {j1, j2}
    HoldCalls = {h1, h2}
    RefundCalls = {f1, f2}
    GrantCalls = {g1}
    EnsureCalls = {s1, s2}
    OwnerOf <- MCOwnerOf
    JobOf <- MCJobOf
    AccountOf <- MCAccountOf
    Price <- MCPrice
    Amount <- MCAmount
    Signup = 2
    NoCall = NoCall
CHECK_DEADLOCK FALSE
INVARIANTS
    NeverOverdrawn
    ChargedOnce
    SignupOnce
PROPERTIES
    EveryCallEnds
