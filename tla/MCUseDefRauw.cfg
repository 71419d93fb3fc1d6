SPECIFICATION UDSpec
CONSTANTS
  Block = {b1, b2}
  Inst = {i1, i2, i3}
  Other = {c1}
  Kinds = {"alloca", "load", "phi", "store", "condbr"}
  MaxReserved = 1
  MaxEdits = 3
  NullUse = NullUse
SYMMETRY Symmetric
PROPERTIES ReplacedListIsEmpty
CHECK_DEADLOCK FALSE
