SPECIFICATION FairLiveSpec
CONSTANTS
  LoginStates = {"waiting_scan", "logged_in", "failed"}
  MaxVer = 1
  Slots = {1, 2}
INVARIANTS
  HonestScreen
PROPERTIES
  CatchesUp
  NewCodeComes
