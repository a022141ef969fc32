CONSTANTS
  l1 = l1
  s1 = s1
  s2 = s2
  info = info
  debug = debug
  Loggers <- MCLoggers
  Stoppers <- MCStoppers
  Levels <- MCLevels
  ConsoleEnabled = TRUE
  FileEnabled = TRUE
  UdpEnabled = TRUE
  OpenOutcomes <- MCOpenOk
  MaxStarts = 1
SPECIFICATION LogSpec
INVARIANT FileClosedOnce
PROPERTY LogFileIsOpen
PROPERTY NoLogAfterStop
