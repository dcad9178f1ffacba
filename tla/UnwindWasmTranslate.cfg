CONSTANTS
  Runtimes = {"wasm"}
  Tags = {"A", "B"}
  Payloads = {"x", "y"}
  Guards = {"none", "typed", "translate"}
  FrameSize = 2
  MaxFrames = 6
  MaxObjs = 1
  MaxOps = 5
SPECIFICATION Spec
INVARIANTS SwallowReported
CHECK_DEADLOCK FALSE
