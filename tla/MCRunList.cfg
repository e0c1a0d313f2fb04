CONSTANTS
  Runnable = {r1, r2, r3}
  Ctx = {p1, p2}
  List = {w1, w2}
  Null = Null
SPECIFICATION Spec
INVARIANTS ListsSound
PROPERTIES ImplementsQueues
