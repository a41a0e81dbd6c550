SPECIFICATION Spec
CONSTANTS
  Publishers = {"chassis", "main"}
  Accounts = {"acc"}
  Kinds <- FifoBoth
  Indexed = TRUE
  MaxSubs = 2
  MaxMsgs <- Messages
INVARIANTS IInv NoGap RxCounted
PROPERTY Implements
CHECK_DEADLOCK TRUE
