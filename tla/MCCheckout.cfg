CONSTANTS
    monday = monday  friday = friday
    marina = marina  airport = airport
    p1 = p1  p2 = p2
    d1 = d1  d2 = d2
    ann = ann  bob = bob
    Slots = {monday, friday}
    Places = {marina}
    Policies = {p1, p2}
    Documents = {d1}
    Names = {ann}
    MaxQuotes = 3
    MaxVersion = 2
    Unsaid = Unsaid  Nothing = Nothing
CONSTRAINT Focus
SPECIFICATION Spec
INVARIANTS TypeOK ChangedAsTold
PROPERTIES DoneAsAgreed
SYMMETRY Alike
