CONSTANTS
  Subscriber = {s1, s2}
  Channel = {c1, c2}
  Publisher = {p1, p2}
  Wired = TRUE
  MaxMessages = 2
SPECIFICATION Spec
SYMMETRY Symmetry
INVARIANTS MapsAgree
PROPERTIES InOrder 
