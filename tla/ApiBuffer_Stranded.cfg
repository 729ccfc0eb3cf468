\* Two objects: the second offer in a row notifies nobody.
SPECIFICATION Spec
CONSTANTS
  Apis = {a1, a2}
  Borrowers = {b1, b2, b3, b4}
  NoApi = NoApi
INVARIANT NoStrandedWaiter
