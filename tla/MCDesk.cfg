CONSTANTS
    t1 = t1  t2 = t2  desk = desk  ann = ann
    v1 = v1  v2 = v2
    Turns = {t1, t2}
    Desks = {desk}
    Customers = {t1, t2, desk}
    CustomerOf <- OwnTurns
    Vehicles = {v1}
    Times = {0, 1}
    Refs = {r1, r2}
    QuoteIds = {q1, q2}
    MaxTariff = 2
    Offered = {"documents", "schedule"}
    Extras = {FALSE}
    Nobody = Nobody  NoBooking = NoBooking  NoQuote = NoQuote  NoRef = NoRef  NoPrice = NoPrice
SYMMETRY Symmetry
SPECIFICATION Spec
INVARIANT ChatNeverOverlaps
CHECK_DEADLOCK FALSE
