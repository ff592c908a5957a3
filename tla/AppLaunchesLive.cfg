\* Every unit's signals are handled in the end: liveness of the instance lists.
CONSTANTS
  a1 = a1
  Apps = {a1}
  Singletons = {}
  Launches = {l1, l2}
  Services = {}
  Uuids = {}
  UnitApp <- OneAppUnits
  LaunchTypes = {}
  Versions = {v1}
  MaxResources = 1
  MaxQueue = 2
  MaxRefused = 0
SPECIFICATION FairSpec

PROPERTIES
  GoneUnitForgotten
  StartedUnitListed
