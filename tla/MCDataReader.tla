---------------------------- MODULE MCDataReader ----------------------------
(* Instances of DataReader for TLC. *)
EXTENDS DataReader

CONSTANTS p1, p2, u1, r1

\* one publisher is enough for the clock checks: an out-of-order sample
\* pushes its hash, which is how a duplicate of the cursor gets past a
\* one-entry hash queue
MCPubsOne == {p1}
MCPubsTwo == {p1, p2}
\* send clocks leaving room for a gap, a reorder and a duplicate
MCClocks == 1..4
MCClocksShort == 1..2
\* udp is configured off, shm on
MCLayers == {"udp", "shm"}
MCEnabledLayers == {"shm"}
MCIds == {1}
MCIdsTwo == {1, 2}
MCSettersNone == {}
MCSettersOne == {u1}
MCReadersNone == {}
MCReadersOne == {r1}
=============================================================================
