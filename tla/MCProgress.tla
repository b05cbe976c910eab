----------------------------- MODULE MCProgress -----------------------------
(* A channel of two and more updates than fit: single-chunk files and one of   *)
(* three chunks.                                                               *)
EXTENDS Progress

MCTransfers == <<1, 3, 1, 2>>
=============================================================================
