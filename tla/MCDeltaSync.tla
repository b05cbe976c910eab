----------------------------- MODULE MCDeltaSync -----------------------------
(* Bytes 0, 3 and 4, blocks of two bytes, checksums modulo 4 kept in 16 values:  *)
(* the accumulators wrap and underflow, and distinct blocks share a weak sum (0 and 4). *)
EXTENDS DeltaSync

MCStrong(b) == b
=============================================================================
