SPECIFICATION AlgorithmsSpec
CONSTANTS
  Fields = {owner}
  Labels = {environment}
  Values = {v1, v2}
  Empty = Empty
  Unset = Unset
  Pems = {p1, p2, p3}
  NewLine = NewLine
  NoCa = NoCa
  MaxLength = 4
SYMMETRY StringSymmetry
INVARIANTS MetadataTypeOK  BundleInOrder
CHECK_DEADLOCK FALSE
