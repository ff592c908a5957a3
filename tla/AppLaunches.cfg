\* Two concurrent launches of one application.
CONSTANTS
  a1 = a1
  Apps = {a1}
  Singletons = {a1}
  Launches = {l1, l2}
  Services = {}
  Uuids = {}
  UnitApp <- OneAppUnits
  LaunchTypes = {}
  Versions = {v1, v2}
  MaxResources = 1
  MaxQueue = 3
  MaxRefused = 1
SPECIFICATION Spec
SYMMETRY LaunchSymmetry
INVARIANTS
  TypeOK
  InstanceBacked
  LaunchTypeKept
  LaunchCountedOnce
