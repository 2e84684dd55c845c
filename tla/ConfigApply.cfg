SPECIFICATION FairSpec
CONSTANTS
  p = p
  q = q
  PairIds = {p, q}
  Addresses = {"port", "other"}
  Ephemeral = {}
  Contents = {"old", "new"}
  Summaries = {"s1", "s2"}
  Offers <- MCOffers
  MaxQueue = 1
INVARIANTS
  FileIsCommitted
  
PROPERTIES
  SectionsCompose
  ApplyEnds
