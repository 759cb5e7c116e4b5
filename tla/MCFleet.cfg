CONSTANTS
    urus = urus  huracan = huracan  cullinan = cullinan  porsche = porsche
    web = web  worker = worker
    Cars = {urus, huracan, cullinan, porsche}
    Processes = {web}
    Web = web
    Day = 4
    MaxClock = 10
    MaxChanges = 1
    Torn = Torn  Missing = Missing  None = None
SPECIFICATION Spec
CONSTRAINT InOrder
INVARIANTS TypeOK LastGoodKept StaleIsTried ServedIsRecent
