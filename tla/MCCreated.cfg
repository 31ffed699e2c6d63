SPECIFICATION FairSpec
CONSTANTS
    s1 = s1
    s2 = s2
    s3 = s3
    cheeseh = cheeseh
    Slots <- AllSlots
    Profiles = {cheeseh}
    Limits <- LowLimits
    Quota <- ThreeQuota
    QuotaOn = FALSE
    ControlBots = FALSE
    MaxWaiting = 2
INVARIANTS ProfilesDiffer
PROPERTIES Settles
