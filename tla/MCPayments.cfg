CONSTANTS
    c1 = c1  c2 = c2  c3 = c3
    Checkouts = {c1, c2}
    Prices = {2, 3}
    Deposit = 1
    NoCheckout = NoCheckout  NoRow = NoRow
SPECIFICATION FairSpec
INVARIANTS TypeOK MoneyGoesBack
PROPERTIES PaidOnceInFull MoneyReconciled
CHECK_DEADLOCK FALSE
