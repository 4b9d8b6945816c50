\* Two requests at once, from two trees.
CONSTANTS
  Names <- MCNames
  NameOrder <- MCOrder
  MaxInode = 7
  Slots = {1, 2}
  Calls <- MCCalls
  Forms <- MCForms
  Trees <- MCTrees
  MaxCalls = 2
  MaxRead = 2
  MaxCopy = 2
  MaxList = 3
  MaxFind = 2
SPECIFICATION Spec
INVARIANTS
  TypeOK
  UndisturbedKeepsPromise
  OverwriteHasConsent
  RefusalLeavesNoTrace
PROPERTY RequestsAreIsolated
CHECK_DEADLOCK FALSE
