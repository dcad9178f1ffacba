CONSTANTS
  Runtimes = {"libstdcxx", "libcxxabi", "libcxxrt", "wasm"}
  Tags = {"A", "B"}
  Payloads = {"x", "y"}
  Guards = {"none", "typed", "coop", "swallow", "translate", "noexcept", "bare", "opaque"}
  FrameSize = 2
  MaxFrames = 6
  MaxObjs = 1
  MaxOps = 5
SPECIFICATION FairSpec
INVARIANTS TypeOK ActiveIsInnermost InFlightExact NoWildLanding
PROPERTIES NothingLost ImplementsContract NoSilentSuccess EscapeResolves
CHECK_DEADLOCK FALSE
