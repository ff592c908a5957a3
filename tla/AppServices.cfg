\* A service and a launch, of up to two helpers, of the same application.
CONSTANTS
  a1 = a1
  Apps = {a1}
  Singletons = {a1}
  Launches = {l1}
  Services = {s1}
  Uuids = {id1, id2, id3, id4}
  UnitApp <- OneAppUnits
  LaunchTypes = {}
  Versions = {v1, v2}
  MaxResources = 2
  MaxQueue = 3
  MaxRefused = 0
SPECIFICATION Spec
SYMMETRY ServiceSymmetry
INVARIANTS
  BusIsRegistry
  SplashBacked
