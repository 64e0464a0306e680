CONSTANTS
  Builds <- MCBuilds
  Txs <- MCTxs
  Drafts <- MCDrafts
  MaxLeft = 2
  BcdLen = 2
SPECIFICATION FairSpec
INVARIANTS
  TypeOK
  DisplayIsCurrent
  NothingSkipped
  SignAfterReview
  ItemsAreContents
  AmountsAreExact
  IdsAreExact
PROPERTIES
  ImplementsWalk
  ForwardIsNextPage
  ReviewEnds
