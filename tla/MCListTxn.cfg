SPECIFICATION Spec
CONSTANTS
  Nil = Nil
  Txn = {t, u, v}
  Seeded = {A, B}
  ListName = {g, h, k}
  Ops <- AllOps
SYMMETRY Symmetry
INVARIANT ListSurvives NoOrphans OneDeleteWins DeletesNeverDeadlock SomeoneGoesOn
PROPERTY ImplementsRegistry
CHECK_DEADLOCK FALSE
