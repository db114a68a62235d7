SPECIFICATION HSpec
CONSTANTS
  Users = {u1, u2}
  NoUser = NoUser
  Sessions = {s1, s2, s3}
  NoSession = NoSession
  Turns = {t1, t2}
  MaxFaults = 1
SYMMETRY Symmetry
INVARIANTS
  HTypeOK
  AnswersFollowQuestions
  MessagesInOwnSessions
PROPERTIES
  NoMoreFirstSessions
  ImplementsConversations
CHECK_DEADLOCK FALSE
