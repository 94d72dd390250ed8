\* Three waypoints, both scripts, any number of other clients.
SPECIFICATION FairSpec
CONSTANTS
  NUM = 3
INVARIANTS
  NothingLeftBehind
PROPERTIES
  MissedAreReported
  ScriptEnds
