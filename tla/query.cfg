SPECIFICATION Spec
CONSTANTS
  Texts <- MCTexts
  ArgLists <- MCArgLists
  MaxSends = 2
INVARIANTS
  TypeOK
  TextRewritten
  OverrunOnlyUnbalanced
  NamesBoundOnce
  WrongNeverSent
  SentAgainUnchanged
CHECK_DEADLOCK FALSE
