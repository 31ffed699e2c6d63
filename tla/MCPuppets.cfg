SPECIFICATION FairSpec
CONSTANTS
    s1 = s1
    s2 = s2
    s3 = s3
    cheeseh = cheeseh
    Slots <- TwoSlots
    Profiles = {cheeseh}
    Limits <- SomeLimits
    Quota <- TwoQuota
    QuotaOn = TRUE
    ControlBots = TRUE
    MaxWaiting = 2
INVARIANTS TypeOK BotsArePlayers PuppetsHaveProfile
PROPERTIES Settles LimitsReached
