SPECIFICATION Spec
CONSTANTS
  Nothing = Nothing
  Theaters = {"s1", "s2"}
  Dates = {"d1", "d2"}
  Today = "d1"
  DateList <- MCDateList
  Rows <- MCRows
  Linked <- MCLinked
  Within <- MCWithin
  SeatBodies <- MCSeatBodies
  Movies = {"m1", "m2"}
  MaxRounds = 3
  MaxReading = 2
  MaxCaptured = 2
CHECK_DEADLOCK FALSE
INVARIANTS
  TypeOK
  CompleteMeansWhole
  SeatsAreWhole
  
PROPERTY FirstPosterWins
