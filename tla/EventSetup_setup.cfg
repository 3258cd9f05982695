\* An event is set up, edited and filled, two requests at a time.
SPECIFICATION Spec
CONSTANTS
  Unset = Unset  NoEntry = NoEntry  NoReq = NoReq
  r1 = r1  c1 = c1  c2 = c2  f1 = f1
  MaxRequired = 2
  MaxSubstitutes = 1
  Rows = {r1}
  Fields = {f1}
  Reqs = {c1, c2}
  Capacities = {0, 1}
  CreateBodies <- NewEvents
  RuleBodies <- Patches
  MaxEdits = 2
SYMMETRY ReqSymmetry
INVARIANTS TypeOK HiddenIsClosed RulesAgree CachesAreTold AnswersHaveTheirField
PROPERTIES RegisteredWhileOpen
