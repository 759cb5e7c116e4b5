CONSTANTS
    r1 = r1  r2 = r2  urus = urus  huracan = huracan  june = june  july = july
    Refs = {r1, r2}
    Cars = {urus, huracan}
    Prices = {100, 200}
    Dates = {june, july}
    Messages <- SomeMessages
    Drafts <- SomeDrafts
    Candidates <- TwoModels
    Budget = 6
    MaxRetries = 2
    Durations = {0, 3}
    RetryDelay = 2
    MaxIterations = 2
    MaxTurns = 2
    MaxTries = 2
SPECIFICATION Spec
CONSTRAINT Followed
INVARIANTS TypeOK
PROPERTIES SaidOnEvidence NeverTwiceSorry TurnEnds
CHECK_DEADLOCK FALSE
