CONSTANTS
  Thread = {t1, t2}
  Count = 2
  DefaultCount = 3
  WaitingTime = 2
  DEFAULT_TIME_OUT = 4
  TIME_OUT_MIN = 2
  Wait <- TwoWaits
  Garbage <- SomeGarbage
  StatMax = 2
SPECIFICATION Spec
INVARIANTS
  TypeOK
  MeanOfOwnAnswers
  WrongAnswersCost
  EndlessOnlyByOverlap
PROPERTY PingReturns
