SPECIFICATION ServicesSpec
CONSTANTS
  m1 = m1  m2 = m2  m3 = m3
  Models = {m1, m2, m3}
  Roster <- MCRoster
  RacePool = 2
  NoModel = NoModel
  Chunks <- MCChunks
  MaxChunks = 2
  a = a  Loop = Loop
  Callers = {a, Loop}
  FailureThreshold = 2
  MaxAttempts = 2
  RecoveryTimeout = 2
  t1 = t1  t2 = t2  Hook = Hook
  Workers = {t1, t2}
  Pool = 2
  MaxRequests = 3
INVARIANTS
  AnswerIsFaithful
  NothingLeftBehind
  OpensAtThreshold
PROPERTIES
  RaceEnds
  Recovers CallsEnd
  PoolServes ConnectionsComeBack
CHECK_DEADLOCK FALSE
