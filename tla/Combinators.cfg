SPECIFICATION FairSpec
INVARIANTS
  PermitsAccounted
  CombinedAsOne
  BuiltOnce
  EffectsAreWhole
  LoopsAgree
  SchedulesRecur
  ConfigsRead
  CausesKeep
  RunsEveryRequest
PROPERTY
  EverybodyEnds
CHECK_DEADLOCK FALSE
