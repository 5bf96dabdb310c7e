SPECIFICATION Spec
CONSTANTS
  t = t
  pub1 = pub1
  pub2 = pub2
  sub1 = sub1
  sub2 = sub2
  NoMessage = NoMessage
  Topics = {t}
  Clients = {pub1, pub2, sub1}
  Vocabulary <- VocabularyRace
  MaxLines <- LinesRace
  Mortal = {sub1}
  Slow = {sub1}
INVARIANT EveryLineIntact
CHECK_DEADLOCK FALSE
