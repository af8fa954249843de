CONSTANTS
    EventCreator = o
    People = {a, b}
    PageCalls = {r1, r2}
    SeatIds = {1, 2}
    MaxEdits = 2
    Givers = {a, b}
    GiveCalls = {r1, r2}
    References = {1, 2, 3}
    GiftAmounts = {1}
    Funds = 2
    LeaderboardSize = 1
    Shared = {x, y}
    Champions = {a, b}
    LinkCalls = {r1, r2}
    MaxLinks = 2
    MaxSwitches = 1
    Invitees = {i}
    TeamCalls = {r1, r2}
    OrganizerIds = {1, 2}
    FollowIds = {1}
    BookCalls = {r1, r2}
    BookIds = {1}
    Fields = {x, y}
    Values = {1, 2}
    CampaignStatus = {"active", "paused"}
    PageEditors = {a, b}
    Donors = {x, y}
    Titles = {t1}
    GiftSizes = {1, 2}
    Goal = 2
    MaxGiven = 2
    Visitors = {a, b}
    MarkCalls = {r1, r2}
    Sizes = {1, 2}
    MaxGifts = 2
    c1 = c1
    c2 = c2
    c3 = c3
    Campaigns = {c1, c2, c3}
    Age <- MCAge
    FeedCalls = {r1, r2}
    StaleAfter = 1
    TakeLimit = 1
    PoolLimit = 2
    PageLimit = 1
    MaxRows = 3
    MaxFeedTime = 1
    Tabs = {r1, r2}
    Emails = {a, b}
    Phones = {x, y}
    ChargeRefs = {1, 2}
SPECIFICATION CommunitySpec
INVARIANTS
    CommunityTypeOK
    CountedOnce
    PublicShowsTheRows
PROPERTIES
    NothingIsTakenBack
SYMMETRY CommunitySymmetry
CHECK_DEADLOCK FALSE
