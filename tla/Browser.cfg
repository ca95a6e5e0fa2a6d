CONSTANTS
  CHUNKSIZE = 4
  Content <- Texts
  None = None
  Urls <- TheUrls
  Names <- TheNames
  Number <- TheNumber
  Disks <- TheDisks
  MaxLines = 2
SPECIFICATION BrowserSpec
INVARIANT BrowserTypeOK
INVARIANT HeaderExact
INVARIANT FilesArrive
INVARIANT AskedAsTyped
INVARIANT GetWhatWasPut
PROPERTY OnlyReceiversWrite
PROPERTY CommandsEnd
CHECK_DEADLOCK FALSE
