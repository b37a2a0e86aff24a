\* Two remediations at once; the indexes are prompt.
CONSTANTS
  Creates = {}
  Lists = {}
  Remediations = {m1, m2}
  Versions = {1, 2}
  Asks <- ThreeAsks
  Wiring <- WireAsk
  Envs <- PromptWire
SPECIFICATION Spec
INVARIANTS OneWiring
CHECK_DEADLOCK FALSE
