SPECIFICATION Spec
CONSTANTS
  NameOf <- MCNameOf
  RegionOf <- MCRegionOf
  Verdicts <- MCVerdicts
  Region = {"jp", "us", "other"}
  URI = {"a", "a2", "b", "c"}
  KeyOf <- MCKeyOf
  BasePort = 4
  MaxPort = 9
  ListenerPort = 3
  StickyEnabled = TRUE
  StickyPort = 0
  ManagementPort = 2
  ClashPort = 5
  GeoEnabled = TRUE
  GeoPort = 3
  GeoDefault = 1
  Feed = {"f", "g"}
  FeedContent <- MCFeedContent
  Failed = Failed
  YamlNodes <- MCYamlNodes
  CacheFiles <- MCCacheFiles
  NoFile = NoFile
  Sidecars <- MCSidecars
  Setups <- MCSetups
  EditURIs = {"c"}
  EditPorts = {0, 7}
  GrabPorts = {3, 6}
  Writes <- MCWrites
  MaxTries = 2
  MaxNodes = 4
  MaxBoots = 2
  MaxOps = 2
INVARIANTS AssignmentSound InlineKept CacheCurrent RoutesSound
PROPERTY PortsStable
CHECK_DEADLOCK FALSE
