\* Do the scripts' last lines tell the truth?
SPECIFICATION Spec
CONSTANTS
  NUM = 2
INVARIANTS
  LastLineIsTrue
