SPECIFICATION Spec
CONSTANTS
  m1 = m1
  m2 = m2
  c1 = c1
  c2 = c2
  api = api
  job = job
  skill = skill
  chat = chat
  Turn = {chat, api, job, skill}
  Inner = {skill}
  OuterOf <- JobOfSkill
  Scope = {"talk", "work"}
  ScopeOf <- OneConversation
  MaxAccount = 1
  MaxQueue = 1
  MaxScope = 1
  Instance = {c1, c2}
  NoInstance = NoInstance
  Message = {m1}
  NoMessage = NoMessage
  Chat = chat
  QueueSize = 1
  MaxTries = 2
  MaxTakes = 2
  MaxMishap = 2
SYMMETRY Symmetry
CONSTRAINT QuietWhenAnswering
INVARIANTS
  TypeOK
  WaitsEnd
  NoStrayChannel
  NoMessageIsLost
  TurnsAreExplained
  LedgerIsTrue
CHECK_DEADLOCK FALSE
