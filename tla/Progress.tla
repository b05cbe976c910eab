------------------------------- MODULE Progress -------------------------------
(***************************************************************************)
(* The progress reporter: Receiver hands updates to a goroutine through a   *)
(* bounded channel, never waiting for the output, and stops it on return.   *)
(* A file of n chunks gives n updates, the last of them its summary line.   *)
(***************************************************************************)
EXTENDS Integers, Sequences

CONSTANTS Capacity,   \* of the updates channel
          Transfers   \* for each file transferred, its number of chunks

ASSUME CapacityAssumption == Capacity \in Nat \ {0}
ASSUME TransfersAssumption == Transfers \in Seq(Nat \ {0})

VARIABLES pc, xfer, chunk,        \* Receiver
          updates, closed,        \* the channel
          rpc, line,              \* the reporter and what it is printing
          output, accepted, error \* lines printed and updates taken, <<xfer, chunk>> each

vars == <<pc, xfer, chunk, updates, closed, rpc, line, output, accepted, error>>
receiver == <<pc, xfer, chunk, error>>
reporter == <<rpc, line>>

Init ==
  /\ pc = "write" /\ xfer = 1 /\ chunk = 1 /\ error = FALSE
  /\ updates = <<>> /\ closed = FALSE
  /\ rpc = "receive" /\ line = <<0, 0>>
  /\ output = <<>> /\ accepted = <<>>

-----------------------------------------------------------------------------
(* Receiver. *)

\* Mutants: the channel has no bound; a full one blocks the transfer.
report_Unbounded(u) == updates' = Append(updates, u) /\ accepted' = Append(accepted, u)
report_Blocking(u) ==
  /\ Len(updates) < Capacity
  /\ updates' = Append(updates, u) /\ accepted' = Append(accepted, u)

\* A full channel drops the update.
report(u) ==
  IF Len(updates) < Capacity
  THEN updates' = Append(updates, u) /\ accepted' = Append(accepted, u)
  ELSE UNCHANGED <<updates, accepted>>

\* A chunk is on disk: one update; after a file's last one, the next file.
WriteChunk ==
  /\ pc = "write" /\ xfer <= Len(Transfers)
  /\ report(<<xfer, chunk>>)
  /\ IF chunk < Transfers[xfer] THEN chunk' = chunk + 1 /\ xfer' = xfer
     ELSE chunk' = 1 /\ xfer' = xfer + 1
  /\ UNCHANGED <<pc, error, closed, reporter, output>>

\* Anything in Receiver fails: it returns through its deferred stop.
Fail ==
  /\ pc \in {"write", "stats"}
  /\ pc' = "stop" /\ error' = TRUE
  /\ UNCHANGED <<xfer, chunk, updates, closed, reporter, output, accepted>>

EndTransfers ==
  /\ pc = "write" /\ xfer > Len(Transfers)
  /\ pc' = "stats"
  /\ UNCHANGED <<xfer, chunk, error, updates, closed, reporter, output, accepted>>

\* The summary, no progress line, is written before the deferred stop.
PrintStats ==
  /\ pc = "stats"
  /\ pc' = "stop"
  /\ UNCHANGED <<xfer, chunk, error, updates, closed, reporter, output, accepted>>

\* Mutant: stop does not wait for the reporter.
CloseUpdates_NoWait ==
  /\ pc = "stop" /\ closed' = TRUE /\ pc' = "returned"
  /\ UNCHANGED <<xfer, chunk, error, updates, reporter, output, accepted>>

CloseUpdates ==
  /\ pc = "stop"
  /\ closed' = TRUE /\ pc' = "wait"
  /\ UNCHANGED <<xfer, chunk, error, updates, reporter, output, accepted>>

Return ==
  /\ pc = "wait" /\ rpc = "done"
  /\ pc' = "returned"
  /\ UNCHANGED <<xfer, chunk, error, updates, closed, reporter, output, accepted>>

-----------------------------------------------------------------------------
(* The reporter goroutine. *)

Receive ==
  /\ rpc = "receive" /\ updates # <<>>
  /\ line' = Head(updates) /\ updates' = Tail(updates) /\ rpc' = "print"
  /\ UNCHANGED <<receiver, closed, output, accepted>>

PrintLine ==
  /\ rpc = "print"
  /\ output' = Append(output, line) /\ rpc' = "receive"
  /\ UNCHANGED <<receiver, line, updates, closed, accepted>>

\* Mutant: the range never ends.
Drained_Never == closed /\ Len(updates) > Capacity

Drained == closed /\ updates = <<>>

\* range ends once the channel is closed and empty.
EndRange ==
  /\ rpc = "receive" /\ Drained
  /\ rpc' = "done"
  /\ UNCHANGED <<receiver, line, updates, closed, output, accepted>>

-----------------------------------------------------------------------------
ReceiverStep == WriteChunk \/ EndTransfers \/ PrintStats \/ CloseUpdates \/ Return
ReporterStep == Receive \/ PrintLine \/ EndRange

Next == ReceiverStep \/ Fail \/ ReporterStep

Spec == Init /\ [][Next]_vars
\* Both goroutines run, and the output takes the lines written to it.
FairSpec == Spec /\ WF_vars(ReceiverStep) /\ WF_vars(ReporterStep)

-----------------------------------------------------------------------------
(* Properties. *)

Update == (1..Len(Transfers)) \X Nat

\* Every variable keeps its type; the channel never exceeds its capacity.
TypeOK ==
  /\ pc \in {"write", "stats", "stop", "wait", "returned"}
  /\ xfer \in 1..Len(Transfers) + 1 /\ chunk \in Nat \ {0}
  /\ updates \in Seq(Update) /\ Len(updates) <= Capacity
  /\ output \in Seq(Update) /\ accepted \in Seq(Update) /\ (rpc = "print" => line \in Update)
  /\ rpc \in {"receive", "print", "done"} /\ closed \in BOOLEAN /\ error \in BOOLEAN

\* When Receiver has returned, failed or not, every update the channel took
\* has been printed once and in order, and the reporter, gone, prints no more.
PrintedAtReturn == pc = "returned" => output = accepted /\ rpc = "done"

\* The transfer never waits for the output, only the final stop does.
TransferNeverWaits == pc \in {"write", "stats", "stop"} => ENABLED ReceiverStep

\* With an output that takes its lines, Receiver returns.
Returns == <>(pc = "returned")

\* (Checked to fail.) A live line is printed for each file written to disk.
EveryFileHasLine ==
  pc = "returned" /\ ~error =>
    \A x \in 1..Len(Transfers) : \E n \in 1..Len(output) : output[n][1] = x
=============================================================================
