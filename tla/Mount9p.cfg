SPECIFICATION FairSpec
CONSTANTS
  Names = {n1, n2}
  Threads = {t1, t2}
  None = None
  MaxVers = 2
INVARIANTS  AnswersWereTrue
PROPERTIES StaleListsExpire
CHECK_DEADLOCK FALSE
