SPECIFICATION Spec
CONSTANTS
    x = x
    y = y
    z = z
    pat = pat
    quinn = quinn
    patchat = patchat
    team = team
    ann = ann
    bob = bob
    t1 = t1
    t2 = t2
    Ids = {x, y, z}
    Kind <- MCKind
    Word <- MCWord
    Sender <- MCSender
    Chat <- MCChat
    Twice = {x, y}
    Titled = {z}
    People = {pat, quinn}
    Phoned = {pat, quinn}
    Known = {quinn}
    Chats = {patchat, team}
    Groups = {team}
    Routed = {patchat}
    Rules <- MCRules
    Default = "accept"
    Routes <- MCRoutes
    Fallback = {bob}
    Calls = {t1, t2}
    MaxTries <- MCTries
    MaxEvents = 1
SYMMETRY MCSymmetry
INVARIANTS
    TypeOK
    ShownOnce
    ShownWhole
    StopHeard
    RoutedAsArrived
CHECK_DEADLOCK FALSE
