CONSTANTS
    ann = ann
    bob = bob
    r1 = r1
    r2 = r2
    Customers = {ann, bob}
    Requests = {r1, r2}
    OwnerOf <- OneEach
    Rivals <- OneCar
    MaxCases = 2
    Tasks = {worker}
    Serial = TRUE
    Outages = FALSE
    Nobody = Nobody
    NoRequest = NoRequest
    NoCase = NoCase
    NoView = NoView
SPECIFICATION FairSpec
INVARIANTS
    TypeOK
    AskedOnce
    ConfirmedAsAsked
PROPERTIES NoSilence ImplementsEnquiry
CONSTRAINT CarOnly
