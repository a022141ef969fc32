-------------------------- MODULE MCServiceCall --------------------------
EXTENDS ServiceCall

CONSTANTS v1, v2

MCServers == {v1, v2}
MCOutcomes == {"ok", "failed", "throws"}
=============================================================================
