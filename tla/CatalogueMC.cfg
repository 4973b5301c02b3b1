\* The seed script and two administrators at work on the same tables.
SPECIFICATION Spec
CONSTANTS
    null = null
    gone = gone
    ana = ana
    eva = eva
    Null <- null
    Gone <- gone
    Clerks <- TwoClerks
    MaxJobs = 4
    Contracts <- TwoContracts
    EventNames <- TwoNames
    MaxEdits = 1
    ProductNames <- Typed
    Trim <- Trimmed
    ShopFlags <- Prints
    Emails <- TwoEmails
    Identifiers <- OneIdentifier
    MaxPhotos = 1
    SeedContract = "INST-001"
    SeedEvents <- Gala
    SeedUsers <- Joao
    SeedProducts <- PrintsProduct
SYMMETRY Alike
INVARIANTS
    TypeOK
    StoredEventsOffered
    IdentifiersClashUnchecked
    NamesClashUnchecked
    PhotosOfOwnInstitution
    SeedSavesOnce
PROPERTIES
    LinesGoWithCustomer
CHECK_DEADLOCK FALSE
