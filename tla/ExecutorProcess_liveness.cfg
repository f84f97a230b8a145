SPECIFICATION LiveSpec
CONSTANTS
  p1 = p1
  p2 = p2
  o1 = o1
  o2 = o2
  Launcher = Launcher
  Processes = {p1}
  Operators = {o1}
  MayCrash = FALSE
PROPERTIES TerminateEndsLeader
