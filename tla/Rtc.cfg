SPECIFICATION RtcSpec
CONSTANTS
  SECONDS = 2
  MINUTES = 2
  HOURS = 2
  Starts <- Evenings
  Span = 3
INVARIANT DateIsTheClocks
PROPERTIES ReadingIsExactOrAhead
