SPECIFICATION Spec
CONSTANTS
  c1 = c1
  c2 = c2
  c3 = c3
  topic = topic
  other = other
  AnyTopic = AnyTopic
  Shutdown = Shutdown
  Conns = {c1, c2, c3}
  Topics = {topic}
  Wants <- MCWants
  Capacity = 2
  IdMod = 2
  MaxIds = 4
  MaxSecond = 1
  MaxCloses = 2
PROPERTIES
  OnlySlowMiss
