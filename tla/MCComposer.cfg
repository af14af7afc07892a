SPECIFICATION Spec
CONSTANTS
    ours = ours
    theirs = theirs
    sales = sales
    stock = stock
    MaxContact = 3
    MaxOrder = 2
    OrderPhones <- MCOrderPhones
    OrderName <- MCOrderName
    Phones = {"none", "A", "B", "n/a", "gone"}
    Numbers = {"A", "B"}
    Names = {2}
    OldContacts <- MCOldContacts
    Numeral = 9
    ListNames = {"L", "M"}
    Files <- MCFiles
    Sessions = {ours, theirs}
    Groups = {sales, stock}
    GroupSession <- MCGroupSession
    Documents <- MCDocuments
    Configs <- MCConfigs
    ActionModel = "order"
    Typed = "B"
    MaxEvents = 3
INVARIANTS
    TypeOK
CHECK_DEADLOCK FALSE
PROPERTIES
    CopiesAsMeant
    ImportAsRead
