----------------------------- MODULE MCReadSlot -----------------------------
(* Instance of ReadSlot for TLC: three readers, so that notify_one has a *)
(* choice and a notified reader can be overtaken by a timed-out one.    *)
EXTENDS ReadSlot

CONSTANTS r1, r2, r3

MCReaders == {r1, r2, r3}
=============================================================================
