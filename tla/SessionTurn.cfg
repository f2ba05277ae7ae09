SPECIFICATION FairTurnSpec
CONSTANTS
  Slots = {1, 2}
  Ids = {11, 12, 13, 14, 15}
  Questions = {21}
  MaxEntries = 4
  MaxCommands = 2
  Nil = Nil
CHECK_DEADLOCK FALSE
INVARIANT NoQuestionIsLost
 
INVARIANT RestIsFree
PROPERTY StopEnds
