SPECIFICATION Spec
CONSTANTS
  Cases <- MCCases
  FlashTop = 32
  Page = 2
  MaxShift = 5
  evt_slots = 3
  Sector = 4
  buf_size = 16
  MemTop = 40
  Stage = 0
  MaxBus = 2
INVARIANTS TransfersAgree DoneAsAsked
PROPERTIES Finishes
