CONSTANTS
    w1 = w1  w2 = w2  a1 = a1  a2 = a2  p = p  d = d  ann = ann  pay = pay  owner = owner
    Workers = {w1, w2}
    Jobs = {a1, a2, d}
    Senders = {ann, owner}
    From <- FromMap
    To <- ToAnn
    AlwaysOpen = {owner}
    Relays = {d}
    MaxAttempts = 1
    NoItem = NoItem
SYMMETRY Symmetry
SPECIFICATION Spec
INVARIANTS TypeOK TurnsInOrder AnsweredOnce OutboxHonest OwedMeansClosed
PROPERTIES RepliesInOrder ImplementsDialogue
