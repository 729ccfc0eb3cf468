\* Up to three objects and four borrowers.
SPECIFICATION Spec
CONSTANTS
  Apis = {a1, a2, a3}
  Borrowers = {b1, b2, b3, b4}
  NoApi = NoApi
INVARIANTS ExclusiveLoan OneObjectServed
