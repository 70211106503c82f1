\* Records of two messages, and three messages each way.
CONSTANTS
  Cap = 2
  Messages = 3
SPECIFICATION FairSpec
INVARIANTS
  TypeOK
  LossIsTold
  RecordIsComplete
PROPERTIES
  MessagesArrive
  HandlerReturns
CHECK_DEADLOCK FALSE
