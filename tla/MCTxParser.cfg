CONSTANTS
  Fields <- MCFields
  Messages <- MCMessages
  Network = "mainnet"
  MaxMultisig = 2
  MaxParticipants = 4
  Overlaid <- MCOverlaid
  MemoSlot = 3
SPECIFICATION Spec
INVARIANTS
  TypeOK
  AcceptedIsWellFormed
  HistoryDoesNotRefuse
  FieldsAreOfTheMessage
