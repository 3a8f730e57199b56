CONSTANTS
  m1 = m1
  m2 = m2
  p1 = p1
  p2 = p2
  p3 = p3
  Modules <- MCModules
  Phases <- MCPhases
  ModuleOf <- MCModuleOf
  None = None
  MaxIterations = 7
  MaxVersion = 3
  MaxAdopted = 2
SPECIFICATION Spec
PROPERTY TerminalStatusSticks
CHECK_DEADLOCK FALSE
