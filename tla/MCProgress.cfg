CONSTANTS
    w1 = w1  w2 = w2  a1 = a1  a2 = a2  p = p  d = d  ann = ann  pay = pay  owner = owner
    Workers = {w1}
    Jobs = {a1, p}
    Senders = {ann, pay}
    From <- FromMap
    To <- ToAnn
    AlwaysOpen = {pay}
    Relays = {}
    MaxAttempts = 2
    NoItem = NoItem
SPECIFICATION FairSpec
PROPERTY EventuallyAnswered
