----------------------------- MODULE FileExchange -----------------------------
(***************************************************************************)
(* What the delta exchange promises for one file, in one step: the bytes    *)
(* the receiver is left with follow from its options and from what the two  *)
(* sides hold, or the exchange fails, and only a source that has become     *)
(* shorter than the bytes to be kept makes it fail.  DeltaSync implements   *)
(* it; FileReceiver takes it as its step Exchange.                          *)
(***************************************************************************)
EXTENDS Integers, Sequences

VARIABLES old, existed,   \* the receiver's bytes, and whether it had the file
          new, listedSize,\* the sender's bytes, and the size it announced
          append,         \* "off", "append" or "verify"
          status, data

inputs == <<old, existed, new, listedSize, append>>
vars == <<inputs, status, data>>

\* A file is copied, kept as it is, or extended by what it lacks.
Mode == IF append = "off" \/ ~existed THEN "copy"
        ELSE IF Len(old) >= listedSize THEN "keep"
        ELSE IF append = "verify" THEN "copy" ELSE "extend"

Promised == CASE Mode = "copy" -> new
              [] Mode = "keep" -> old
              [] Mode = "extend" -> old \o SubSeq(new, Len(old) + 1, Len(new))

Diminished == Mode = "extend" /\ Len(new) < Len(old)

Init == status = "running" /\ data = <<>>

Deliver ==
  /\ status = "running" /\ ~Diminished
  /\ status' = "done" /\ data' = Promised
  /\ UNCHANGED inputs

Refuse ==
  /\ status = "running" /\ Diminished
  /\ status' = "failed"
  /\ UNCHANGED <<inputs, data>>

Spec == Init /\ [][Deliver \/ Refuse]_vars
=============================================================================
