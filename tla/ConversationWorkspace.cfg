\* Two replies of up to two tokens and two pages, over one conversation with two earlier
\* answers and one that may be created; three things that the user does or that go wrong.
SPECIFICATION Spec
CONSTANTS
  Conversations = {c1, c2}
  NoConversation = none
  MaxReplies = 2
  MaxTokens = 2
  MaxUnread = 1
  PageStep = 2
  Saved = {c1}
  MaxLoads = 2
  MaxMoves = 3
INVARIANTS WholeAnswers StopReachesItsReply BusyIsLive OnlyTheLatestLoadLands
CHECK_DEADLOCK FALSE
