SPECIFICATION FairSpec
CONSTANTS
  w1 = w1 w2 = w2 w3 = w3 w4 = w4
  Thread <- FourThreads
  Amounts <- OneOrAll
  MaxCount = 6
INVARIANTS NoLostWakeup
PROPERTIES ImplementsCounting
