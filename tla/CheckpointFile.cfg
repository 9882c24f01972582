SPECIFICATION Spec
CONSTANTS
  python = python
  rust = rust
  Torn = Torn
  Nothing = Nothing
  Kind = {"json", "memory", "generic"}
  Request = {python, rust}
  Schema = {1, 2}
  MaxSearches = 3
  MaxRevision = 2
SYMMETRY RequestSymmetry
INVARIANTS
  LastSaveStands
  OwnRequestOnly
PROPERTIES
  SearchGoesOn
