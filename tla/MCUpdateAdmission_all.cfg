\* Two requests, a list and a remediation, under every condition.
CONSTANTS
  Creates = {c1, c2}
  Lists = {l1}
  Remediations = {m1}
  Versions = {1, 2}
  Asks <- ThreeAsks
  Wiring <- WireAsk
  Envs <- AllEnvs
SYMMETRY CallSymmetry
SPECIFICATION Spec
INVARIANTS TypeOK MarkersNameLiveJobs MarkersAgree AnswersAreTrue
PROPERTIES ImplementsSlot
CHECK_DEADLOCK FALSE
