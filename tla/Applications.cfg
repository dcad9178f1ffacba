SPECIFICATION Spec
CONSTANTS
  k1 = k1
  k2 = k2
  k3 = k3
  k4 = k4
  NoName = NoName
  RawText = RawText
  Names <- MCNames
  MaxDepth = 2
  MaxPath = 3
  MaxNesting = 2
  MaxImage = 1
  MaxLimit = 2
  MaxChain = 2
  Reserved = {"tmp_a"}
  Documents <- MCDocuments
  Images <- MCImages
  Manifests <- MCManifests
  Scenes <- MCScenes
  Files <- MCFiles
INVARIANTS TypeOK GuardsExact PathFits VerdictExact ScriptsPass
PROPERTY CallReturns
