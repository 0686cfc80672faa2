SPECIFICATION Spec
CONSTANTS
  Jobs <- PushAndTick
  Crons <- Tick1
  Peers <- OnePeer
  Handled <- OnePush
  Slots = 1
  Budget <- Trouble
INVARIANTS
  AppSecIsAnswered
  RowAndCheckAgree
  CancelClosesPeers
CHECK_DEADLOCK FALSE
