SPECIFICATION Spec
CHECK_DEADLOCK FALSE
CONSTANTS
  t1 = t1
  t2 = t2
  t3 = t3
  t4 = t4
  NoToken = NoToken
  Token = {t1, t2, t3, t4}
  Earliest <- EarliestOf
  Latest <- LatestOf
  Duration <- DurationOf
  MaxRemovals = 2
INVARIANTS TypeOK RequestsHold NothingLeftBehind NeighboursConstrainedInOrder UndoRestores NoPlaceWithheld
