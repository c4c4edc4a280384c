SPECIFICATION FairSpec
CONSTANTS
  c1 = c1
  c2 = c2
  c3 = c3
  topic = topic
  other = other
  AnyTopic = AnyTopic
  Shutdown = Shutdown
  Conns = {c1, c3}
  Topics = {topic, other}
  Wants <- MCWants
  Capacity = 2
  IdMod = 2
  MaxIds = 3
  MaxSecond = 1
  MaxCloses = 2
INVARIANTS
  NoSendOnClosed
  ShutdownIsLast
  BrokerInv
PROPERTIES
  NothingLeftBehind
  CloseEndsConnections
