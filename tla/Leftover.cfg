SPECIFICATION Spec
CONSTANTS
  Content <- MCContent
  Space = {" "}
  xsd_allows <- MC_xsd_allows
  xsd_equal <- MC_xsd_equal
  Documents <- MCDocuments
  Configs <- MCConfigs
  rx_match <- MC_rx_match
INVARIANTS
  FirstMatchDetermines
CHECK_DEADLOCK FALSE
