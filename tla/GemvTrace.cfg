SPECIFICATION Spec
CONSTANTS
  NUM_CHANNELS = 2
  NUM_BANKS = 2
  MAX_ROWS = 8
  MIN_TILES_PER_ROW = 2
  NUM_GPRS = 2
  BufferSize = 3
  Jobs <- MCJobs
INVARIANTS ParsedIsReference ParsersAgree
PROPERTIES CompleteLogParses
