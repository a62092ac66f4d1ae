SPECIFICATION Spec
CONSTANTS
  Records = {r1, r2, r3}
  Garbage = garbage
  rec_nb = 3
INVARIANTS TypeOK
PROPERTIES KeepsPromise
