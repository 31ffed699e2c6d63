SPECIFICATION FairSpec
CONSTANTS
    redBot = redBot
    blueBot = blueBot
    Bots = {redBot, blueBot}
    Team <- BothTeams
    NumPoints = 3
    MaxPoints = 4
    CanCap <- BothCanCap
    Previous <- BothPrevious
    Base <- BothBase
    Openings <- TwoOpenings
    Given <- MiddleReset
    Starts <- TwoStarts
    CapAreas <- ByHand
INVARIANTS AreasCurrent AttackedAreDefended
PROPERTIES SignatureTells MonitorHonest CatchesUp
