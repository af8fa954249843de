CONSTANTS
    People = {c, v1, v2}
    Owner = c
    Methods = {"EVEN", "PERCENTAGE", "MANUAL"}
    Totals = {3, 4}
    Payments = {1, 2}
    Shares = {0, 1, 3}
    Percentages = {25, 50}
    MaxEdits = 3
    MaxMoves = 1
    Nobody = nobody
    Accounts = {u1, u2}
    Requests = {r1, r2}
    MaxAnswers = 5
    BillCreator = c
    Voters = {v1, v2}
    GovRequests = {r1, r2}
    MaxBallots = 3
    MaxJoins = 1
    Invitees = {i1, i2}
    ByName = n
    OrgRows = {w1, w2}
    OrgRequests = {q1, q2}
    MaxOrgOps = 5
    Talkers = {t1, t2, t3}
    Moderator = t1
    Guests = {g}
    Posts = {p1}
    MaxComments = 2
    MaxTalk = 2
    Dues = {24, 57, 66}
    SweepHours = {9, 12}
    Hour = 3
    LastHour = 132
    MaxClockEvents = 2
SPECIFICATION PeopleSpec
INVARIANTS
    PeopleTypeOK
    TermsFollowTheBill
    EverybodyWasAsked
PROPERTIES
    AnswersStand
SYMMETRY PeopleSymmetry
CHECK_DEADLOCK FALSE
