SPECIFICATION Spec
CONSTANTS
  Worker = {w1, w2}
  Bundle = {}
  NoOwner = NoOwner
  UnresolvedJobRetries = 1
  Attempt = {a1}
  Usenet = {}
  LeaseMayLapse = TRUE
  Mishaps = {"mount"}
SYMMETRY Symmetry
INVARIANT IndInv
INVARIANT LeaseProtectsRow
PROPERTY CompletionLeavesNoSource
PROPERTY ClosedNeverDebt
CHECK_DEADLOCK FALSE
