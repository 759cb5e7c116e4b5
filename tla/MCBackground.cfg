CONSTANTS
    ann = ann
    bob = bob
    r1 = r1
    r2 = r2
    Customers = {ann}
    Requests = {r1, r2}
    OwnerOf <- BothAnn
    Rivals <- OneCar
    MaxCases = 2
    Tasks = {t1, t2}
    Serial = FALSE
    Outages = FALSE
    Nobody = Nobody
    NoRequest = NoRequest
    NoCase = NoCase
    NoView = NoView
SPECIFICATION Spec
INVARIANTS
    NeverBothBooked
CONSTRAINT Racing
SYMMETRY Alike
