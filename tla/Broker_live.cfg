SPECIFICATION FairSpec
CONSTANTS
  t = t
  pub1 = pub1
  pub2 = pub2
  sub1 = sub1
  sub2 = sub2
  NoMessage = NoMessage
  Topics = {t}
  Clients = {pub1, sub1, sub2}
  Vocabulary <- VocabularyFanOut
  MaxLines <- LinesFanOut
  Mortal = {sub1}
  Slow = {sub1}
PROPERTIES HealthyReceives DeadConnectionsLeave
CHECK_DEADLOCK FALSE
