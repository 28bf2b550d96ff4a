\* Two requests at once over two names that share a layer, with crashes,
\* refusing disks and links that cannot be read at any reading.
SPECIFICATION Spec
CONSTANTS
  Handlers = {p1, p2}
  Names = {n1, n2}
  Layers <- TwoLayers
  Documents <- SharedWeights
  Boot = boot
  None = none
  p1 = p1
  p2 = p2
  weights = weights
  adapter = adapter
SYMMETRY Twins
INVARIANTS TypeOK NamesLead NamedComplete NothingLeftBehind
PROPERTIES ListedKept
