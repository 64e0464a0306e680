CONSTANTS
  Builds <- MCBuilds
  Txs <- Updates
  Drafts = {}
  MaxLeft = 2
  BcdLen = 2
SPECIFICATION Spec
INVARIANT StepInFlow
