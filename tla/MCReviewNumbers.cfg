CONSTANTS
  Builds <- MCBuilds
  Txs <- MCTxs
  Drafts = {}
  MaxLeft = 2
  BcdLen = 20
SPECIFICATION Spec
INVARIANT NumbersAreShown
