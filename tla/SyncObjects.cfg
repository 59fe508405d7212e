SPECIFICATION SyncSpec
CONSTANTS
  Thread = {main, t1, t2}
  Main = main
  None = None
  ObjQueues = {"semaphore", "event", "mailbox", r1, r2}
  Objects = {"semaphore", "event", "mailbox", "region"}
  JoinLimits = {}
  SelfThreadControl = TRUE
  StopOnFirstError = FALSE
  InitUnit = 2
  Amounts = {1, 2}
  Spare = 0
  GetLimits = {0}
  SyncLimits = {0}
  MaxSent = 3
  ReceiveLimits = {1}
  Regions = {r1, r2}
  Keys = {1}
  MaxHeld = 1
SYMMETRY Symmetry
INVARIANTS WaitersListed UnitsAccounted NobodyWaitsOnTrigger SlotTriggerLasts MailInOrder NobodyWaitsOnMail NobodyWaitsOnFreeKey
PROPERTY FirstComeFirstServed
CHECK_DEADLOCK FALSE
