--------------------------- MODULE MCLogProvider ---------------------------
EXTENDS LogProvider

CONSTANTS l1, s1, s2, info, debug

MCLoggers == {l1}
MCStoppers == {s1, s2}
MCLevels == {info, debug}
MCOpenOk == {"ok"}
MCOpenAny == {"ok", "no_dir", "fopen_failed"}
=============================================================================
