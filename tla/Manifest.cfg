SPECIFICATION Spec
CONSTANTS
  Numeral <- Numerals
  Fixed <- ThreeDecimals
  Address <- Addresses
  Settings <- SomeSettings
  BasePath <- Dir
  Paths <- SomePaths
  Leftover = {"3"}
  MaxFileAge = 1
  MaxTime = 4
  Mpds = {2, 4}
  MaxGets = 2
INVARIANTS TypeOK ManifestReadsBack AnnouncedIsListed NewestSdpRuns AttributesOfNewestMaster NewestMpdServed ManifestStays TornNeedsChange TerminatesForMalformed
CHECK_DEADLOCK FALSE
