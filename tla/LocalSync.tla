------------------------------ MODULE LocalSync ------------------------------
(***************************************************************************)
(* A local sync: runSync calls syncLocal for each source, which runs Sender *)
(* in a goroutine of its own and Receiver in the caller's, joined by two    *)
(* synchronous pipes, and with --write-batch copies all that Sender writes  *)
(* to a file.                                                               *)
(*                                                                          *)
(* A frame crosses a pipe in two parts, its header and its payload, each    *)
(* handed over when one side writes and the other reads; what a file holds  *)
(* is left to DeltaSync and FileReceiver.  sPc is the Sender goroutine, pc  *)
(* the caller's.  Any call that can fail may fail.                          *)
(***************************************************************************)
EXTENDS Integers, Sequences, FiniteSets

CONSTANTS Path,
          Jobs   \* [sources, batch]: the sources' file lists, and --write-batch

Kind == {"dir", "symlink", "file", "fifo"}
Exchanged == {"file", "fifo"}   \* a named pipe is taken for a regular file
Source == [entries : Seq([path : Path, kind : Kind]), groups : Seq(Seq(Path))]

\* runSync refuses --write-batch for more than one source.
ASSUME JobAssumption ==
  \A job \in Jobs : /\ job.sources \in Seq(Source) /\ job.batch \in BOOLEAN
                    /\ job.batch => Len(job.sources) = 1

VARIABLES job, k,                 \* the command line, the source being synced
          pc, i, rErr,            \* Receiver: position in the file list
          sPc, j, sErr,           \* Sender
          toReceiver, toSender,   \* the pipes: how each end is closed
          batch, batchFile,       \* what is on disk, and runSync's handle
          applied, tapFailed, result

vars == <<job, k, pc, i, rErr, sPc, j, sErr, toReceiver, toSender,
          batch, batchFile, applied, tapFailed, result>>
caller == <<pc, i, rErr>>
sender == <<sPc, j, sErr>>
command == <<job, k, batchFile, result>>

\* Why a call failed: where the failure arose, a pipe closed under a reader
\* (eof) or a writer (closed), a frame for another path (order), or the batch
\* file's own creation or closing.
Cause == {"sender", "receiver", "eof", "closed", "order"}
Open == [w |-> "open", r |-> "open"]
NoBatch == [exists |-> FALSE, parts |-> 0, torn |-> FALSE]

Entries == job.sources[k].entries
Groups == job.sources[k].groups
Secondary == UNION {{g[n] : n \in 2..Len(g)} : g \in {Groups[m] : m \in 1..Len(Groups)}}

Init ==
  /\ job \in Jobs /\ k = 1
  /\ pc = "create" /\ i = 0 /\ rErr = "none"
  /\ sPc = "off" /\ j = 0 /\ sErr = "none"
  /\ toReceiver = Open /\ toSender = Open
  /\ batch = NoBatch /\ batchFile = FALSE
  /\ applied = {} /\ tapFailed = FALSE /\ result = "running"

-----------------------------------------------------------------------------
(* runSync. *)

\* os.Create of the batch file.
CreateBatch ==
  /\ pc = "create"
  /\ \/ /\ ~job.batch /\ pc' = "start" /\ UNCHANGED <<batch, batchFile, result>>
     \/ /\ job.batch /\ pc' = "start"
        /\ batch' = [NoBatch EXCEPT !.exists = TRUE] /\ batchFile' = TRUE
        /\ result' = result
     \/ job.batch /\ pc' = "end" /\ result' = "batch" /\ UNCHANGED <<batch, batchFile>>
  /\ UNCHANGED <<job, k, i, rErr, sender, toReceiver, toSender, applied, tapFailed>>

\* syncLocal: two fresh pipes, a Sender goroutine, a Receiver.
StartSource ==
  /\ pc = "start" /\ k <= Len(job.sources)
  /\ pc' = "readHead" /\ i' = 0 /\ rErr' = "none"
  /\ sPc' = "walk" /\ j' = 0 /\ sErr' = "none"
  /\ toReceiver' = Open /\ toSender' = Open
  /\ UNCHANGED <<command, batch, applied, tapFailed>>

\* Every source is synced: the batch file is closed and the handle cleared, so
\* that the deferred removal does nothing, even if bytes are lost in the close or
\* the closing line cannot be printed.
Succeed ==
  /\ pc = "start" /\ k > Len(job.sources)
  /\ \/ result' \in {"ok", "output"} /\ batch' = batch
     \/ batchFile /\ result' = "batch" /\ \E t \in BOOLEAN : batch' = [batch EXCEPT !.torn = t]
  /\ batchFile' = FALSE /\ pc' = "end"
  /\ UNCHANGED <<job, k, i, rErr, sender, toReceiver, toSender, applied, tapFailed>>

\* Mutant: the deferred removal is forgotten.
FailBatch_Kept == batch

\* The deferred function removes the file of a sync that failed.
FailBatch == IF batchFile THEN NoBatch ELSE batch

-----------------------------------------------------------------------------
(* Sender. *)

\* Mutant: the sender waits for the members of a link group too.
SenderSkips_NotLinks(n) == Entries[n].kind \notin Exchanged

SenderSkips(n) == Entries[n].kind \notin Exchanged \/ Entries[n].path \in Secondary

SenderFails(cause) == sErr' = cause /\ sPc' = "closeWrite" /\ j' = j

\* The sender's turn to the next file of the list, or its return.
NextTurn ==
  \E n \in j + 1..Len(Entries) + 1 :
    /\ \A m \in j + 1..n - 1 : SenderSkips(m)
    /\ n <= Len(Entries) => ~SenderSkips(n)
    /\ j' = n /\ sErr' = sErr
    /\ sPc' = IF n <= Len(Entries) THEN "readHead" ELSE "closeWrite"

\* The walk, the filter and the search for hard links.
Walk ==
  /\ sPc = "walk"
  /\ (sPc' = "writeHead" /\ UNCHANGED <<j, sErr>>) \/ SenderFails("sender")
  /\ UNCHANGED <<command, caller, toReceiver, toSender, batch, applied, tapFailed>>

\* Reading the source file and making the delta.
Loaded ==
  /\ (sPc' = "writeHead" /\ UNCHANGED <<j, sErr>>) \/ SenderFails("sender")
  /\ UNCHANGED <<command, caller, toReceiver, toSender, batch, applied, tapFailed>>

AtFifo == sPc = "load" /\ Entries[j].kind = "fifo"
Load == sPc = "load" /\ Entries[j].kind = "file" /\ Loaded

\* os.ReadFile of a named pipe waits for a process that opens it for writing,
\* and there may be none.
LoadFifo == AtFifo /\ Loaded

\* A frame beyond maxFramePayload is refused before anything is written.
FrameTooLarge ==
  /\ sPc = "writeHead" /\ SenderFails("sender")
  /\ UNCHANGED <<command, caller, toReceiver, toSender, batch, applied, tapFailed>>

\* After the pipe, io.MultiWriter writes the part to the batch file.
Tap ==
  /\ sPc \in {"tapHead", "tapBody"}
  /\ \/ /\ batch' = [batch EXCEPT !.parts = @ + 1]
        /\ IF sPc = "tapHead" THEN sPc' = "writeBody" /\ UNCHANGED <<j, sErr>> ELSE NextTurn
        /\ tapFailed' = tapFailed
     \/ /\ batch' = [batch EXCEPT !.torn = TRUE]
        /\ SenderFails("sender") /\ tapFailed' = TRUE
  /\ UNCHANGED <<command, caller, toReceiver, toSender, applied>>

SenderCut ==
  /\ \/ sPc \in {"writeHead", "writeBody"} /\ toReceiver.r # "open" /\ SenderFails("closed")
     \/ sPc \in {"readHead", "readBody"} /\ toSender.w # "open" /\ SenderFails(toSender.w)
  /\ UNCHANGED <<command, caller, toReceiver, toSender, batch, applied, tapFailed>>

\* What the other end reads: CloseWithError(nil) ends the stream.
CloseCause(err) == IF err = "none" THEN "eof" ELSE err

\* Mutants: the pipe is closed without the error; neither pipe is closed.
SenderCloseWrite_Plain ==
  /\ sPc = "closeWrite"
  /\ toReceiver' = [toReceiver EXCEPT !.w = "eof"] /\ sPc' = "closeRead"
  /\ UNCHANGED <<command, caller, j, sErr, toSender, batch, applied, tapFailed>>
SenderCloseWrite_None ==
  /\ sPc = "closeWrite" /\ sPc' = "sent"
  /\ UNCHANGED <<command, caller, j, sErr, toReceiver, toSender, batch, applied, tapFailed>>

SenderCloseWrite ==
  /\ sPc = "closeWrite"
  /\ toReceiver' = [toReceiver EXCEPT !.w = CloseCause(sErr)] /\ sPc' = "closeRead"
  /\ UNCHANGED <<command, caller, j, sErr, toSender, batch, applied, tapFailed>>

\* Then the result is sent on senderErrCh, which has room for it.
SenderCloseRead ==
  /\ sPc = "closeRead"
  /\ toSender' = [toSender EXCEPT !.r = "closed"] /\ sPc' = "sent"
  /\ UNCHANGED <<command, caller, j, sErr, toReceiver, batch, applied, tapFailed>>

-----------------------------------------------------------------------------
(* Frames handed over. *)

ReceiverFails(cause) == rErr' = cause /\ pc' = "closeWrite" /\ i' = i

SendHead ==
  /\ sPc = "writeHead" /\ pc = "readHead"
  /\ sPc' = (IF job.batch THEN "tapHead" ELSE "writeBody") /\ pc' = "readBody"
  /\ UNCHANGED <<command, i, rErr, j, sErr, toReceiver, toSender, batch, applied, tapFailed>>

\* The file list (j = 0), or the delta for an entry, whose path is checked.
SendBody ==
  /\ sPc = "writeBody" /\ pc = "readBody"
  /\ IF job.batch THEN sPc' = "tapBody" /\ UNCHANGED <<j, sErr>> ELSE NextTurn
  /\ \/ j = 0 /\ i = 0 /\ pc' = "entry" /\ i' = 1 /\ rErr' = rErr
     \/ j > 0 /\ i > 0 /\ Entries[j].path = Entries[i].path /\ pc' = "apply" /\ UNCHANGED <<i, rErr>>
     \/ /\ ~(j = 0 /\ i = 0) /\ (j > 0 /\ i > 0 => Entries[j].path # Entries[i].path)
        /\ ReceiverFails("order")
  /\ UNCHANGED <<command, toReceiver, toSender, batch, applied, tapFailed>>

SignatureHead ==
  /\ pc = "writeHead" /\ sPc = "readHead"
  /\ pc' = "writeBody" /\ sPc' = "readBody"
  /\ UNCHANGED <<command, i, rErr, j, sErr, toReceiver, toSender, batch, applied, tapFailed>>

SignatureBody ==
  /\ pc = "writeBody" /\ sPc = "readBody"
  /\ pc' = "readHead" /\ UNCHANGED <<i, rErr>>
  /\ \/ Entries[i].path = Entries[j].path /\ sPc' = "load" /\ UNCHANGED <<j, sErr>>
     \/ Entries[i].path # Entries[j].path /\ SenderFails("order")
  /\ UNCHANGED <<command, toReceiver, toSender, batch, applied, tapFailed>>

-----------------------------------------------------------------------------
(* Receiver. *)

ReceiverSkips(n) == Entries[n].kind \notin Exchanged \/ Entries[n].path \in Secondary

\* Directories and symlinks are made, members of a link group passed over.
LocalEntry ==
  /\ pc = "entry" /\ i <= Len(Entries) /\ ReceiverSkips(i)
  /\ (i' = i + 1 /\ UNCHANGED <<pc, rErr>>) \/ ReceiverFails("receiver")
  /\ UNCHANGED <<command, sender, toReceiver, toSender, batch, applied, tapFailed>>

\* The basis is read and signed.
Sign ==
  /\ pc = "entry" /\ i <= Len(Entries) /\ ~ReceiverSkips(i)
  /\ (pc' = "writeHead" /\ UNCHANGED <<i, rErr>>) \/ ReceiverFails("receiver")
  /\ UNCHANGED <<command, sender, toReceiver, toSender, batch, applied, tapFailed>>

\* The delta is applied and the file written.
ApplyEntry ==
  /\ pc = "apply"
  /\ \/ /\ applied' = applied \cup {<<k, Entries[i].path>>}
        /\ pc' = "entry" /\ i' = i + 1 /\ rErr' = rErr
     \/ ReceiverFails("receiver") /\ applied' = applied
  /\ UNCHANGED <<command, sender, toReceiver, toSender, batch, tapFailed>>

\* The passes after the entries: hard links, then directory attributes.
FinalPasses ==
  /\ pc = "entry" /\ i > Len(Entries)
  /\ (pc' = "closeWrite" /\ UNCHANGED <<i, rErr>>) \/ ReceiverFails("receiver")
  /\ UNCHANGED <<command, sender, toReceiver, toSender, batch, applied, tapFailed>>

ReceiverCut ==
  /\ \/ pc \in {"readHead", "readBody"} /\ toReceiver.w # "open" /\ ReceiverFails(toReceiver.w)
     \/ pc \in {"writeHead", "writeBody"} /\ toSender.r # "open" /\ ReceiverFails("closed")
  /\ UNCHANGED <<command, sender, toReceiver, toSender, batch, applied, tapFailed>>

\* Back in syncLocal.
CallerCloseWrite ==
  /\ pc = "closeWrite"
  /\ toSender' = [toSender EXCEPT !.w = CloseCause(rErr)] /\ pc' = "closeRead"
  /\ UNCHANGED <<command, i, rErr, sender, toReceiver, batch, applied, tapFailed>>

CallerCloseRead ==
  /\ pc = "closeRead"
  /\ toReceiver' = [toReceiver EXCEPT !.r = "closed"] /\ pc' = "join"
  /\ UNCHANGED <<command, i, rErr, sender, toSender, batch, applied, tapFailed>>

\* Mutant: the receiver's error is dropped.
SyncError_SenderOnly == sErr

\* The receiver's error before the sender's.
SyncError == IF rErr # "none" THEN rErr ELSE sErr

\* The caller waits for the Sender goroutine; an error ends runSync.
Join ==
  /\ pc = "join" /\ sPc = "sent"
  /\ \/ /\ SyncError = "none"
        /\ pc' = "start" /\ k' = k + 1 /\ UNCHANGED <<batch, batchFile, result>>
     \/ /\ SyncError # "none"
        /\ pc' = "end" /\ k' = k /\ result' = SyncError
        /\ batch' = FailBatch /\ batchFile' = FALSE
  /\ sPc' = "off"
  /\ UNCHANGED <<job, i, rErr, j, sErr, toReceiver, toSender, applied, tapFailed>>

-----------------------------------------------------------------------------
SenderStep == Walk \/ Load \/ FrameTooLarge \/ Tap \/ SenderCut \/ SenderCloseWrite \/ SenderCloseRead
Handover == SendHead \/ SendBody \/ SignatureHead \/ SignatureBody
CallerStep == \/ CreateBatch \/ StartSource \/ Succeed
              \/ LocalEntry \/ Sign \/ ApplyEntry \/ FinalPasses \/ ReceiverCut
              \/ CallerCloseWrite \/ CallerCloseRead \/ Join

Next == SenderStep \/ LoadFifo \/ Handover \/ CallerStep

Spec == Init /\ [][Next]_vars
\* Goroutines that can run are run, and a reader and a writer of one pipe meet.
FairSpec == Spec /\ WF_vars(SenderStep) /\ WF_vars(Handover) /\ WF_vars(CallerStep)

-----------------------------------------------------------------------------
(* Properties. *)

\* Every variable keeps its type.
TypeOK ==
  /\ job \in Jobs /\ k \in 1..Len(job.sources) + 1
  /\ pc \in {"create", "start", "readHead", "readBody", "entry", "writeHead", "writeBody",
             "apply", "closeWrite", "closeRead", "join", "end"}
  /\ sPc \in {"off", "walk", "load", "writeHead", "tapHead", "writeBody", "tapBody",
              "readHead", "readBody", "closeWrite", "closeRead", "sent"}
  /\ i \in Nat /\ j \in Nat
  /\ rErr \in Cause \cup {"none"} /\ sErr \in Cause \cup {"none"}
  /\ toReceiver \in [w : Cause \cup {"open"}, r : {"open", "closed"}]
  /\ toSender \in [w : Cause \cup {"open"}, r : {"open", "closed"}]
  /\ batch \in [exists : BOOLEAN, parts : Nat, torn : BOOLEAN]
  /\ batchFile \in BOOLEAN /\ applied \subseteq Nat \X Path
  /\ tapFailed \in BOOLEAN /\ result \in Cause \cup {"running", "ok", "batch", "output"}

\* Sender and Receiver skip the same entries: neither ever holds a frame for
\* another file than the one it is at, so the checks of Path never fire.
InStep == rErr # "order" /\ sErr # "order"

\* The positions of a source's files in its list: regular files, and of a link
\* group only the first member.
Files(src) == {n \in 1..Len(src.entries) :
                 /\ src.entries[n].kind \in Exchanged
                 /\ \A m \in 1..Len(src.groups) :
                      \A x \in 2..Len(src.groups[m]) : src.groups[m][x] # src.entries[n].path}

Work == [s \in 1..Len(job.sources) |->
           [n \in Files(job.sources[s]) |-> job.sources[s].entries[n].path]]

Command == INSTANCE SyncCommand WITH Detached <- FALSE, work <- Work

\* syncLocal implements a sync command: "ok" only when every file of every
\* source has been applied, in the order of the lists, whichever goroutine's
\* error hides the other's; and once a result is out, no file is touched.
ImplementsCommand == Command!Spec

Parts == 2 + 2 * Cardinality(Files(job.sources[1]))

Whole == ~batch.torn /\ batch.parts = Parts

\* A batch file on disk after the command holds both parts of every frame:
\* a sync that fails partway, in whichever goroutine, leaves none.  (Only the
\* file's own closing may fail and leave a torn one.)
BatchWholeOrGone ==
  /\ result = "ok" /\ job.batch => batch.exists
  /\ result \notin {"running", "batch"} /\ batch.exists => Whole

\* A failed command says what failed, never only that a pipe was closed or
\* ended; the exception is a batch file that cannot be written, whose error
\* the receiver's "closed pipe" can hide.
CauseReported == result \in {"eof", "closed"} => tapFailed

\* A pipe left open by a side that has gone would block the other for good:
\* the command ends, whichever call fails.  It does not when the source has a
\* named pipe, which Sender opens.
Terminates == <>(result # "running" \/ AtFifo)

\* (Checked to fail.) "Named pipes (FIFOs) are fully supported": the command ends
\* with one in the source as well.
TerminatesWithFifo == <>(result # "running")
=============================================================================
