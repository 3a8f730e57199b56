CONSTANTS
  m1 = m1
  m2 = m2
  p1 = p1
  p2 = p2
  p3 = p3
  d1 = d1
  c2 = c2
  c3 = c3
  Modules <- MCModules
  Phases <- MCPhases
  ModuleOf <- MCModuleOf
  PhaseOrder <- MCPhaseOrder
  StateAfter <- MCStateAfter
  Decisions <- MCDecisions
  Checks <- MCChecks
  GuidePhase <- MCGuidePhase
  GuideModule <- MCGuideModule
  ScopeOf <- MCScopeOf
  StateTransitions = {c2}
  RecordBased = {c3}
  Skeletons <- MCSkeletons
  Candidates <- MCCandidates
  Scenarios <- MCScenarios
  MigratedStatuses <- MCMigratedStatuses
  None = None
  MaxIterations = 6
  MaxVersion = 2
  MaxAdopted = 2
SPECIFICATION ProgressSpec
PROPERTY LastPhaseClosesModule
CHECK_DEADLOCK FALSE
