SPECIFICATION FairSpec
CONSTANTS
  MaxRounds = 2
  Room <- MCRoom
  MaxTalks = 2
  MaxReviews = 1
  Names = {a}
  Blank = Blank
  Empty = Empty
  None = None
INVARIANTS ReviewsResolve RefusalIsCoresOwn
PROPERTIES DiscussionEnds RoomReturns
CHECK_DEADLOCK FALSE
