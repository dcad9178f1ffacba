CONSTANTS
  NoName = NoName
  None = NoName
  Unknown = Unknown
  Generic = Generic
  HalfBits = 2
  Data = {d1, d2}
  Mapped = mapped
  MaxLegs = 4
  Vars = {v1, v2}
  NoVar = NoVar
  Headers = {"h1", "h2", "h3"}
  Text = Text
  MaxCalls = 4
  MaxFrames = 4
  Slack = 2
  Cells <- IdleCells
  Sources <- MCSources
  Trees <- MCTrees
  Roots <- MCRoots
  Enums <- MCEnums
  Pairs <- MCPairs
  Stacks <- MCStacks
  Bodies <- MCBodies
  Subjects = {"enum"}
  Threads = {t1, t2}
  Images = {app, lib}
  Foreign = other
  ErrorValues = {5}
  Domains = {0, 1}
SPECIFICATION Spec
INVARIANTS PathsAgree
CHECK_DEADLOCK FALSE
