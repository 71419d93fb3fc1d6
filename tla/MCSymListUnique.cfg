SPECIFICATION SLSpec
CONSTANTS
  Func = {f1}
  Block = {b1, b2}
  Inst = {i1, i2}
  VoidInst = {i2}
  Given <- GivenNames
  MaxUnique = 2
  MaxNamings = 4
  NoParent = NoParent
SYMMETRY Symmetric
PROPERTIES SetNameIsUnique
CHECK_DEADLOCK FALSE
