SPECIFICATION MigrationSpec

CONSTANTS
  m1 = m1
  m2 = m2
  m3 = m3
  p1 = p1
  p2 = p2
  p3 = p3
  a = a
  b = b
  c = c
  d = d
  r1 = r1
  r2 = r2
  r3 = r3
  None = None
  OldModules <- MCOldModules
  OldPhases <- MCOldPhases
  OldModuleOf <- MCOldModuleOf
  NewModules <- MCNewModules
  NewPhases <- MCNewPhases
  NewModuleOf <- MCNewModuleOf
  ModuleOrder <- MCModuleOrder
  PhaseOrder <- MCPhaseOrder
  Preserving <- MCPreserving
  Attempts <- MCAttempts
  ActionOf <- MCActionOf
  Requests <- MCRequests
  ActiveGuides <- MCActiveGuides
  Standings <- MCStandings

INVARIANTS
  MigrationTypeOK
  ResumePointOpen
  DoneIsInherited
  SplitContinuesOnce
  FailedStartsOver
  NothingOldIsActive
  HalfMappedIsDiscarded
  NoGuideGuessed
  ResumePhaseExists
  HistorySealed

PROPERTY
  MigrationReturns

CHECK_DEADLOCK FALSE
