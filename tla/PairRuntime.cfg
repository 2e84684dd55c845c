SPECIFICATION FairSpec
CONSTANTS
  r1 = r1
  r2 = r2
  plain = plain
  redacted = redacted
  apart = apart
  NoKey = NoKey
  Requests = {r1, r2}
  Keys = {plain, redacted, apart}
  Roots = {"main", "other"}
  RootOf <- MCRootOf
  Offers <- MCOffers
  MaxGens = 2
  MaxServices = 4
CHECK_DEADLOCK FALSE
INVARIANTS
  ServicesLiveAsLongAsNeeded
  ReloadKeepsLogs
PROPERTIES
  DrainsAndStopsEnd
