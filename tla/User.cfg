CONSTANTS
    Calls = {r1, r2}
    MaxCalls = 4
    MaxSent = 4
    PinCalls = {r1, r2}
    MAX_PIN_ATTEMPTS = 2
    PIN_LOCK_MINUTES = 2
    MaxPinTime = 5
    MaxTries = 6
    Handlers = {r1, r2}
    MaxHandled = 7
    Payouts = {p1, p2}
    Claims = {r1, r2}
    u1 = u1
    u2 = u2
    Members = {u1, u2}
    Causes = {k1}
    Payments = {p1, p2}
    Boots = {b1}
    MaxRuleEdits = 1
    MaxFailing = 1
    ChampionOf <- MCChampionOf
    Pair = {p1, p2}
    SocialCalls = {r1, r2}
    RequestIds = {1, 2}
    MaxMessages = 2
    Editors = {r1, r2}
    Toggles <- MCToggles
    MaxChanges = 2
    NoticeIds = {1, 2, 3}
    PageSize = 1
SPECIFICATION UserSpec
INVARIANTS
    UserTypeOK
    CreditedOnce
    OwnSayIsKept
PROPERTIES
    DecidedStays
SYMMETRY UserSymmetry
CHECK_DEADLOCK FALSE
