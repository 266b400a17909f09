SPECIFICATION Spec
CONSTANTS
  Key = {k1, k2}
  Value = {v1}
  NoValue = NoValue
  Torn = Torn
  NoFile = NoFile
  MaxLog = 1
PROPERTY RestoredFromSnapshot
