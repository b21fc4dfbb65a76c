SPECIFICATION Spec
CONSTANTS
  Databases = {1, 2, 3}
  Names = {"pz:allow", "pz:name", "pz:authentication", "pz:limitmap:title", "pz:limitmap:date"}
  OffsetOf <- MCOffsetOf
  SettingFiles <- MCSettingFiles
  DefaultSet <- MCDefaultSet
  s1 = s1
  s2 = s2
  Sessions <- MCSessions
  Overrides <- MCOverrides
  Filters <- MCFilters
  PzAllow = "pz:allow"
  PzName = "pz:name"
  PzAuth = "pz:authentication"
SYMMETRY Symmetry
CHECK_DEADLOCK FALSE
INVARIANTS OverridesWithinSession
