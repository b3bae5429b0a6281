CONSTANTS
  Threads = {t1, t2, t3}
  Null = null
  MaxItems = 3
SPECIFICATION FairSpec
PROPERTY Linearizable
PROPERTY CallsReturn
