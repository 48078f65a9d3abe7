CONSTANTS
  e1 = e1
  e2 = e2
  e3 = e3
  e4 = e4
  Elems <- MCElems
  HEAD = HEAD
  TAIL = TAIL
  NIL = NIL
SPECIFICATION ListSpec
INVARIANTS LinksAgree
PROPERTIES RefinesAbstractList StaleNextIsSuccessor
