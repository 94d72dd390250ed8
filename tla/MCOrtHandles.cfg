\* All three programs.
SPECIFICATION Spec
INVARIANTS
  OneOwner
  UsedWhileAlive
  AllOrNothing
