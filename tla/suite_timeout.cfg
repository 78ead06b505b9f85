SPECIFICATION Spec
CONSTANTS
  price = price
  itemId = itemId
  N = 4
  AlwaysRun <- ItemCleanup
  Keys <- ItemKeys
  InitialKeys <- PriceOnly
  Uses <- ItemUses
  Stores <- ItemStores
  MaxRuns = 2
  CounterCap = 2
CHECK_DEADLOCK FALSE
PROPERTY TimeoutEnforced
