CONSTANTS
  Builds <- MCBuilds
  Txs <- MCTxs
  Drafts = {}
  MaxLeft = 2
  BcdLen = 2
SPECIFICATION Spec
INVARIANT MultisigInArray
