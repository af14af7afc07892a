SPECIFICATION Spec
CONSTANTS
    ann = ann
    bob = bob
    MaxRecord = 6
    Partners = {3, 4, 6}
    Unborn = {3}
    Number <- MCNumber
    Stopped = {}
    Unregistered = {6}
    Refused = {5}
    Broken <- MCBroken
    MaxCamp = 2
    Listed = {2}
    Aim <- MCAim
    Window <- MCWindow
    MaxAge = 2
    Operators <- MCOperators
    Fallback = {bob}
    Batch = 2
    Share = 50
    Cap = 2
    PauseAfter = 1
    MaxCancels = 1
    MaxEvents = 1
INVARIANTS
    TypeOK
    
    FinishedIsDone
    CreditIsAttended
PROPERTIES
    CampaignEnds
    StopHonoured
