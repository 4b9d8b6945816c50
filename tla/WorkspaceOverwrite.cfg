\* Two writers of a file that is not there yet.
CONSTANTS
  Names <- MCNames
  NameOrder <- MCOrder
  MaxInode = 7
  Slots = {1, 2}
  Calls <- OverwriteCalls
  Forms <- GoodForms
  Trees <- FullTree
  MaxCalls = 2
  MaxRead = 2
  MaxCopy = 2
  MaxList = 3
  MaxFind = 2
SPECIFICATION Spec
INVARIANT ConsentIsRespected
CHECK_DEADLOCK FALSE
