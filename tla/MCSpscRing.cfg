CONSTANTS
  Capacity = 4
  Values = {m1, m2}
  Uninit = Uninit
SPECIFICATION FairSpec
INVARIANTS
  NoDataRace
PROPERTIES
  ImplementsFifo
  ProducerGetsThrough
