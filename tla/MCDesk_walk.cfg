SPECIFICATION FairSpec
CONSTANTS
  Machine = {1, 2, 3}
  Founder = 1
  Screens <- MCScreens
  Corners <- MCCorners
  MaxRight = 4
  Dragged = {2, 3}
  Running = {2}
  Reporting = {2, 3}
  MaxEdits = 1
  Reach = 2
INVARIANTS TypeOK RoutedLikeAWalk CrossingReturns
PROPERTIES  ReportedAgain
