SPECIFICATION MCSpec
CONSTANTS
  p1 = p1
  p2 = p2
  h1 = h1
INVARIANTS HttpExact   ScreenExact 
CONSTRAINT OneMode
VIEW Seen
SYMMETRY Interchangeable
CHECK_DEADLOCK FALSE
