CONSTANTS
  None = None
  c1 = c1
  p1 = p1
  p2 = p2
  Channel = {c1}
  Post = {p1, p2}
  ChannelOf <- MCChannelOf
  PAGE_SIZE = 1
  MaxMoves = 2
  MaxChanges = 2
  MaxFailures = 1
SPECIFICATION FairSpec
INVARIANTS
  TypeOK
  UrlShowsPage
  FeedIsPrefix
PROPERTIES
  FeedCatchesUp
CHECK_DEADLOCK FALSE
