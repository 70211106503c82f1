CONSTANTS
  Cap = 1
  Messages = 2
SPECIFICATION FairSpec
PROPERTY MessagesForwarded
CHECK_DEADLOCK FALSE
