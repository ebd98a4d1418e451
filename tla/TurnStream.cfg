CONSTANTS
  Messages = {m1, m2, m3}
  FollowUp = FollowUp
  Nobody = Nobody
SPECIFICATION FairSpec
INVARIANTS RepliesMatchUnlessRaced AnsweredOnce
PROPERTY EveryMessageAnswered
CHECK_DEADLOCK FALSE
