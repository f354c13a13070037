SPECIFICATION FairSpec
CONSTANTS
  Events = {e1}
  Sales <- MCSales
  NoSale = NoSale
  Day <- MCDay
  Ahead <- MCAhead
  Faults = {"ok", "unknown_menu_item"}
  Runs = {r1, r2}
  Requests = {q1}
  System = System
  NoWorker = NoWorker
  NoEvent = NoEvent
  Batch = 1
  LastDay = 2
  MaxHistory = 3
  MaxStops = 1
INVARIANTS AnsweredIsStored StoriesAgree NeverBeforeItsDay
PROPERTIES ImplementsSaleLifecycle EverySaleIsSettled
