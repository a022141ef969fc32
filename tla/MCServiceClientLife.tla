----------------------- MODULE MCServiceClientLife -----------------------
EXTENDS ServiceClientLife

CONSTANTS h1, h2, h3, i1, i2, i3

MCHandles == {h1, h2, h3}
MCImpls == {i1, i2, i3}
=============================================================================
