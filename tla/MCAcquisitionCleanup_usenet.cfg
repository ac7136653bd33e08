SPECIFICATION FairSpec
CONSTANTS
  Worker = {w1}
  Bundle = {b1}
  NoOwner = NoOwner
  UnresolvedJobRetries = 1
  Attempt = {a1}
  Usenet = {a1}
  LeaseMayLapse = TRUE
  Mishaps = {"client", "meddling", "purge", "crash"}
INVARIANT TypeOK
INVARIANT ClearedBySettledBundles
INVARIANT RemovedMeansGone
PROPERTY CompletionLeavesNoSource
PROPERTY DebtDrains
CHECK_DEADLOCK FALSE
