SPECIFICATION Spec
CONSTANTS
    sales = sales
    shop = shop
    mute = mute
    one = one
    anna = anna
    bert = bert
    carl = carl
    NoNumber = NoNumber
    Sessions <- MCSessions
    Contacts <- MCContacts
    Numbers <- MCNumbers
    Silent <- MCSilent
    MaxMsgs = 3
    SessionOf <- MCSessionOf
    ContactOf <- MCContactOf
    AddressOf <- MCAddressOf
    NumberAtFirst <- MCFirstNumbers
    TTL = 1
    CheckTTL = 1
    Hour = 2
    PerHour = 2
    Limit = 2
    AskLimit = 2
    BatchSize = 2
    MaxEvents = 1
INVARIANTS
    NoWasSaid
PROPERTIES
    EveryNumberAsked
CHECK_DEADLOCK FALSE
