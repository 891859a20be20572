SPECIFICATION Spec
CONSTANTS
  Content <- MCContent
  Space = {" "}
  xsd_allows <- MC_xsd_allows
  xsd_equal <- MC_xsd_equal
  after_start_tag_open <- Drv_start_tag_open
  after_start_tag_open_recover <- Drv_start_tag_open_recover
  after_attribute_open <- Drv_attribute_open
  after_attribute_open_recover <- Drv_attribute_open_recover
  after_attribute_close <- Drv_attribute_close
  after_attribute_close_recover <- Drv_attribute_close_recover
  after_start_tag_close <- Drv_start_tag_close
  after_start_tag_close_recover <- Drv_start_tag_close_recover
  after_text <- Drv_text
  after_text_recover <- Drv_text_recover
  after_mixed_text <- Drv_mixed_text
  after_mixed_text_recover <- Drv_mixed_text_recover
  after_end_tag <- Drv_end_tag
  after_end_tag_recover <- Drv_end_tag_recover
  notAllowed <- rn_notAllowed
  white <- White
  listing <- Listing
  Schemas <- MCSchemas
  Tags <- MCTags
  Chunks <- MCChunks
  DTD = TRUE
  Docs = 2
  MaxPos = 5
  MaxDepth = 3
  LEN_T = 1
  LIM_T = 2
  nexp = 2
INVARIANTS
  Judgement
  ExitStatus
  InStep
  BufferHoldsText
  ListsWhatFits
PROPERTIES
  JudgesPlainly
CONSTRAINT
  Explored
CHECK_DEADLOCK FALSE
