CONSTANTS
  Thread = {t1, t2}
  Key = {k1, k2}
  Value = {v1}
  NoValue = NoValue
  Inode = {i1, i2, i3, i4, i5}
  NoInode = NoInode
  NoThread = NoThread
  MaxLines = 3
SPECIFICATION Spec
INVARIANTS StreamIsLog 
 
