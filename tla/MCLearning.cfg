CONSTANTS
    c1 = c1  c2 = c2
    price = price  tone = tone
    Conversations = {c1, c2}
    Checked = {price}
    Reviewed = {tone}
    MaxRows = 2
    MaxVersions = 3
    NoRun = NoRun
SPECIFICATION Spec
INVARIANTS TypeOK AddressedWasTaught
PROPERTIES PromotedIsProven OpenIsProposed
