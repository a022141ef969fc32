CONSTANTS
  l1 = l1
  s1 = s1
  s2 = s2
  info = info
  debug = debug
  Loggers <- MCLoggers
  Stoppers <- MCStoppers
  Levels <- MCLevels
  ConsoleEnabled = TRUE
  FileEnabled = TRUE
  UdpEnabled = TRUE
  OpenOutcomes <- MCOpenAny
  MaxStarts = 1
SPECIFICATION LogSpec
PROPERTY LogFileIsOpen
