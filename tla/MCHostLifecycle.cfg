\* Four requests, two releases and a stop: a save is cut short after another one
\* succeeded, and checks and applications of two clients and the host overlap.
SPECIFICATION Spec
CONSTANTS
  Values = {default, other}
  Default = default
  Absent = absent
  Torn = torn
  Tasks = {boot, r1, r2}
  StartupTask = boot
  Versions <- MCVersions
  FirstVersion <- v110
  NoVersion = none
  MaxRequests = 4
  MaxStops = 1
  MaxReleases = 2
  r1 = r1
  r2 = r2
SYMMETRY Handlers
INVARIANTS
  SavedSurvives
  StatusSettles
  OfferIsNewer
PROPERTIES
  StartUsesSaved
CHECK_DEADLOCK FALSE
