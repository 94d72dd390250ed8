\* The counts of the XML, two goals.
SPECIFICATION FairSpec
CONSTANTS
  Goal = {g1, g2}
  NoGoal = NoGoal
  NAV_RETRIES = 6
  PLAN_RETRIES = 1
  FOLLOW_RETRIES = 1
INVARIANTS
  OneDriver
PROPERTIES
  FollowsFreshPath
  RecoveriesInTurn
  FailsOnlyWhenSpent
  ImplementsNavigation
  NavigationEnds
  NewGoalIsPlanned
