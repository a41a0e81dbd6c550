SPECIFICATION FairSpec
CONSTANTS
  DJ_M_NUM = 5
  CanIds <- Ids
  Byte = 256
INVARIANTS AnswerRight OutsideOnlyBelow
PROPERTY SearchEnds
CHECK_DEADLOCK FALSE
