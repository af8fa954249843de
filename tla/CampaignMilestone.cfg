CONSTANTS
    CampaignStatus = {"active", "paused"}
    PageEditors = {e1}
    Donors = {d1}
    Titles = {t1}
    GiftSizes = {1, 2}
    Goal = 4
    MaxGiven = 4
INIT CampaignInit
NEXT CampaignNext
INVARIANTS
    MilestoneReached
CHECK_DEADLOCK FALSE
