\* Two applications, two values of Environ, any write may fail.
CONSTANTS
  Apps = {a1, a2}
  Environs = {e0, e1}
  NoEnviron = e0
  MaxLaunches = 1
  Null = Null
  Empty = Empty
  Garbage = Garbage
SPECIFICATION Spec
SYMMETRY AppSymmetry
INVARIANTS
  TypeOK
  NothingUnsaved
  PropertiesDurable
  CountersTogether
  FirstLaunchKept
PROPERTIES
  AddedLaterHasTime
