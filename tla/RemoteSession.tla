---------------------------- MODULE RemoteSession ----------------------------
(***************************************************************************)
(* A sync to user@host:path.  For each source syncToRemote starts a remote  *)
(* shell that runs "grsync --server", shakes hands, runs Sender over the    *)
(* shell's stdin and stdout and closes the session; the server runs         *)
(* Receiver.                                                                *)
(*                                                                          *)
(* Frames strictly alternate, so each direction holds at most one: down     *)
(* (to the server's stdin) and up (from its stdout) count the units of it   *)
(* that were written and not yet read.  A frame is a header of one unit and *)
(* a payload; the pipes and the shell between them hold Capacity units.     *)
(* Position -1 is the handshake, 0 the file list, n > 0 the n-th file that  *)
(* is exchanged.  The connection may be lost and any call may fail.         *)
(***************************************************************************)
EXTENDS Integers, Sequences

CONSTANTS Path,
          Jobs,      \* [sources, opts, batch]: the files of each source, the flags
          Capacity   \* units a direction holds before a writer blocks

Attr == {"perms", "times", "owner", "group", "links"}
Options == [dryRun : BOOLEAN, attrs : SUBSET Attr]
File == [path : Path, sig : Nat \ {0}, delta : Nat \ {0}]

ASSUME CapacityAssumption == Capacity \in Nat \ {0}
ASSUME JobAssumption ==
  \A job \in Jobs :
    /\ job.sources \in Seq(Seq(File)) /\ job.opts \in Options /\ job.batch \in BOOLEAN
    /\ job.batch => Len(job.sources) = 1 /\ ~job.opts.dryRun

VARIABLES job, k,            \* the command line, the source being synced
          pc, j, w, err,     \* the client: position, units of the frame, error
          rpc, i, rw, ropts, \* the server, and the flags it was started with
          shell,             \* the remote shell's process
          stdin, down, up,   \* its stdin and the two directions
          batch, batchFile,  \* what is on disk, and runSync's handle
          applied, kept,     \* files applied, attributes applied with them
          result

vars == <<job, k, pc, j, w, err, rpc, i, rw, ropts, shell, stdin, down, up,
          batch, batchFile, applied, kept, result>>
client == <<k, pc, j, w, err, result>>
server == <<rpc, i, rw, ropts, applied, kept>>
pipes == <<shell, stdin, down, up>>
files == <<batch, batchFile>>

\* Why a command failed: the batch file, a shell that does not start, the
\* sending side itself, a broken pipe, its end, what the client read was no
\* frame, or the remote process' exit status with what it wrote to stderr.
Cause == {"batch", "dial", "sender", "closed", "eof", "garbage", "remote"}
NoBatch == [exists |-> FALSE, torn |-> FALSE]

Files == job.sources[k]
FromClient(n) == 1 + IF n >= 1 THEN Files[n].delta ELSE 1
FromServer(n) == 1 + IF n >= 1 THEN Files[n].sig ELSE 1

Init ==
  /\ job \in Jobs /\ k = 1
  /\ pc = "create" /\ j = -1 /\ w = 0 /\ err = "none"
  /\ rpc = "off" /\ i = -1 /\ rw = 0 /\ ropts = [dryRun |-> FALSE, attrs |-> {}]
  /\ shell = "none" /\ stdin = "closed" /\ down = 0 /\ up = 0
  /\ batch = NoBatch /\ batchFile = FALSE
  /\ applied = {} /\ kept = Attr /\ result = "running"

-----------------------------------------------------------------------------
(* runSync. *)

CreateBatch ==
  /\ pc = "create"
  /\ \/ ~job.batch /\ pc' = "dial" /\ UNCHANGED <<files, result>>
     \/ /\ job.batch /\ pc' = "dial"
        /\ batch' = [NoBatch EXCEPT !.exists = TRUE] /\ batchFile' = TRUE
        /\ result' = result
     \/ job.batch /\ pc' = "end" /\ result' = "batch" /\ UNCHANGED files
  /\ UNCHANGED <<job, k, j, w, err, server, pipes>>

\* An error ends the command; the deferred function removes the batch file.
End(cause) ==
  /\ pc' = "end" /\ result' = cause
  /\ batch' = (IF batchFile THEN NoBatch ELSE batch) /\ batchFile' = FALSE

\* Every source is synced; the closing line may fail to be printed.
Succeed ==
  /\ pc = "dial" /\ k > Len(job.sources)
  /\ \/ result' \in {"ok", "output"} /\ batch' = batch
     \/ batchFile /\ result' = "batch" /\ \E t \in BOOLEAN : batch' = [batch EXCEPT !.torn = t]
  /\ pc' = "end" /\ batchFile' = FALSE
  /\ UNCHANGED <<job, k, j, w, err, server, pipes>>

-----------------------------------------------------------------------------
(* syncToRemote. *)

\* What the server's own flags make of remoteArgs: the reporting, partial and
\* append flags are passed on, the attribute flags are not.
RemoteOptions(o) == [dryRun |-> o.dryRun, attrs |-> {}]

\* transport.Dial. The shell starts the server, or fails to later on.
Dial ==
  /\ pc = "dial" /\ k <= Len(job.sources)
  /\ \/ /\ pc' = "write" /\ j' = -1 /\ w' = 0 /\ err' = "none"
        /\ rpc' = "read" /\ i' = -1 /\ rw' = 0 /\ ropts' = RemoteOptions(job.opts)
        /\ shell' = "running" /\ stdin' = "open" /\ down' = 0 /\ up' = 0
        /\ UNCHANGED <<files, result>>
     \/ /\ End("dial")
        /\ UNCHANGED <<j, w, err, rpc, i, rw, ropts, pipes>>
  /\ UNCHANGED <<job, k, applied, kept>>

\* Handshake or Sender gives up.
Fails(cause) == err' = cause /\ pc' = "close" /\ UNCHANGED <<j, w>>

\* Sender is done with position j, or, after the last, with its session.
NextPosition ==
  /\ j' = j + 1 /\ w' = 0 /\ err' = err
  /\ pc' = IF j = -1 THEN "load" ELSE IF j < Len(Files) THEN "read" ELSE "close"

\* The part that has been written whole, if any: io.MultiWriter copies it.
WholePart(n) == n = 1 \/ n = FromClient(j)

\* After a frame the handshake's ack is awaited, or Sender goes on.
AfterWrite == IF j = -1 THEN pc' = "read" /\ w' = 0 /\ UNCHANGED <<j, err>> ELSE NextPosition

Write ==
  /\ pc = "write" /\ shell = "running" /\ down < Capacity
  /\ down' = down + 1
  /\ IF job.batch /\ j >= 0 /\ WholePart(w + 1)
       THEN pc' = "tap" /\ w' = w + 1 /\ UNCHANGED <<j, err>>
     ELSE IF w + 1 = FromClient(j) THEN AfterWrite
     ELSE w' = w + 1 /\ UNCHANGED <<pc, j, err>>
  /\ UNCHANGED <<job, k, result, server, shell, stdin, up, files>>

\* The batch file takes the part as well, or fails to.
Tap ==
  /\ pc = "tap"
  /\ \/ /\ batch' = batch
        /\ IF w = FromClient(j) THEN AfterWrite
           ELSE pc' = "write" /\ UNCHANGED <<j, w, err>>
     \/ batch' = [batch EXCEPT !.torn = TRUE] /\ Fails("batch")
  /\ UNCHANGED <<job, k, result, batchFile, server, pipes>>

\* The shell is gone: EPIPE.
WriteCut ==
  /\ pc = "write" /\ shell # "running"
  /\ Fails("closed")
  /\ UNCHANGED <<job, k, result, server, pipes, files>>

\* The ack (j = -1), or the signature of the file whose turn it is.
Read ==
  /\ pc = "read" /\ up > 0
  /\ up' = up - 1
  /\ IF w + 1 < FromServer(j) THEN w' = w + 1 /\ UNCHANGED <<pc, j, err>>
     ELSE IF j = -1 THEN NextPosition
     ELSE pc' = "load" /\ w' = 0 /\ UNCHANGED <<j, err>>
  /\ UNCHANGED <<job, k, result, server, shell, stdin, down, files>>

ReadCut ==
  /\ pc = "read" /\ up = 0 /\ shell # "running"
  /\ Fails("eof")
  /\ UNCHANGED <<job, k, result, server, pipes, files>>

\* A login script's greeting is read as a frame.
ReadGarbage ==
  /\ pc = "read" /\ j = -1 /\ w = 0
  /\ Fails("garbage")
  /\ UNCHANGED <<job, k, result, server, pipes, files>>

\* The walk (j = 0) or the file's delta is made, or cannot be.
Load ==
  /\ pc = "load"
  /\ (pc' = "write" /\ UNCHANGED <<j, w, err>>) \/ Fails("sender")
  /\ UNCHANGED <<job, k, result, server, pipes, files>>

\* Mutant: Close only waits.
CloseStdin_Left ==
  /\ pc = "close" /\ pc' = "wait"
  /\ UNCHANGED <<job, k, j, w, err, result, server, pipes, files>>

\* Session.Close: the end of the server's input ...
CloseStdin ==
  /\ pc = "close"
  /\ stdin' = "closed" /\ pc' = "wait"
  /\ UNCHANGED <<job, k, j, w, err, result, server, shell, down, up, files>>

\* Mutant: a failed handshake reports itself.
SessionError_Handshake == IF err # "none" THEN err
                          ELSE IF shell = "failed" THEN "remote" ELSE "none"

\* The remote's status for a failed handshake, otherwise Sender's error first.
SessionError == IF err # "none" /\ j >= 0 THEN err
                ELSE IF shell = "failed" THEN "remote" ELSE err

\* ... and then cmd.Wait.
Wait ==
  /\ pc = "wait" /\ shell \in {"ok", "failed"}
  /\ IF SessionError = "none"
       THEN pc' = "dial" /\ k' = k + 1 /\ UNCHANGED <<files, result>>
     ELSE End(SessionError) /\ k' = k
  /\ UNCHANGED <<job, j, w, err, server, pipes>>

-----------------------------------------------------------------------------
(* runServer. *)

\* The server ends and, with it, the shell unless the connection was lost.
Exit(status) ==
  /\ rpc' = "exited" /\ shell' = IF shell = "running" THEN status ELSE shell
  /\ UNCHANGED <<i, rw, stdin, down, up>>

\* The server reads hello, the file list, or a delta.
Receive ==
  /\ rpc = "read" /\ down > 0
  /\ down' = down - 1
  /\ IF rw + 1 < FromClient(i) THEN rw' = rw + 1 /\ UNCHANGED <<rpc, i>>
     ELSE /\ rw' = 0
          /\ i' = IF i = 0 THEN 1 ELSE i
          /\ rpc' = IF i = -1 THEN "write" ELSE IF i = 0 THEN "sign" ELSE "apply"
  /\ UNCHANGED <<job, client, ropts, applied, kept, shell, stdin, up, files>>

InputEnds ==
  /\ rpc = "read" /\ down = 0 /\ (stdin = "closed" \/ shell # "running")
  /\ Exit("failed")
  /\ UNCHANGED <<job, client, ropts, applied, kept, files>>

\* The next file's signature; after the last file the remaining passes, which
\* may fail too.
Sign ==
  /\ rpc = "sign"
  /\ \/ /\ i <= Len(Files) /\ rpc' = "write"
        /\ UNCHANGED <<i, rw, pipes>>
     \/ i > Len(Files) /\ Exit("ok")
  /\ UNCHANGED <<job, client, ropts, applied, kept, files>>

\* The server writes the ack or a signature.
Send ==
  /\ rpc = "write" /\ shell = "running" /\ up < Capacity
  /\ up' = up + 1
  /\ IF rw + 1 < FromServer(i) THEN rw' = rw + 1 /\ UNCHANGED <<rpc, i>>
     ELSE rw' = 0 /\ rpc' = "read" /\ i' = IF i = -1 THEN 0 ELSE i
  /\ UNCHANGED <<job, client, ropts, applied, kept, shell, stdin, down, files>>

OutputCut ==
  /\ rpc = "write" /\ shell # "running"
  /\ Exit("failed")
  /\ UNCHANGED <<job, client, ropts, applied, kept, files>>

\* The delta is applied, unless this is a dry run, with the attributes the
\* server was asked to keep.
ApplyDelta ==
  /\ rpc = "apply"
  /\ IF ropts.dryRun THEN UNCHANGED <<applied, kept>>
     ELSE applied' = applied \cup {<<k, Files[i].path>>} /\ kept' = kept \cap ropts.attrs
  /\ i' = i + 1 /\ rpc' = "sign"
  /\ UNCHANGED <<job, client, rw, ropts, pipes, files>>

\* Mutant: runServer returns nil whatever Receiver does.
ServerFails_Zero ==
  /\ rpc \in {"sign", "apply"} \/ (rpc = "read" /\ i = -1 /\ rw = 0)
  /\ Exit(IF i = -1 THEN "failed" ELSE "ok")
  /\ UNCHANGED <<job, client, ropts, applied, kept, files>>

\* The server cannot be started, or one of its calls fails.
ServerFails ==
  /\ rpc \in {"sign", "apply"} \/ (rpc = "read" /\ i = -1 /\ rw = 0)
  /\ Exit("failed")
  /\ UNCHANGED <<job, client, ropts, applied, kept, files>>

-----------------------------------------------------------------------------
\* The connection is lost: the shell ends, what was on its way is lost in part,
\* and the server is left with what has reached it.
Sever ==
  /\ shell = "running" /\ rpc # "exited"
  /\ shell' = "failed" /\ down' \in 0..down /\ up' \in 0..up
  /\ UNCHANGED <<job, client, server, stdin, files>>

ClientStep == \/ CreateBatch \/ Succeed \/ Dial \/ Write \/ Tap \/ WriteCut \/ Read \/ ReadCut
              \/ Load \/ CloseStdin \/ Wait
ServerStep == Receive \/ InputEnds \/ Sign \/ Send \/ OutputCut \/ ApplyDelta

Next == ClientStep \/ ServerStep \/ ReadGarbage \/ ServerFails \/ Sever

Spec == Init /\ [][Next]_vars
\* Both processes run on when they can; nothing has to fail.
FairSpec == Spec /\ WF_vars(ClientStep) /\ WF_vars(ServerStep)

-----------------------------------------------------------------------------
(* Properties. *)

\* Every variable keeps its type, and no direction holds more than it can.
TypeOK ==
  /\ job \in Jobs /\ k \in 1..Len(job.sources) + 1
  /\ pc \in {"create", "dial", "write", "tap", "read", "load", "close", "wait", "end"}
  /\ rpc \in {"off", "read", "write", "sign", "apply", "exited"}
  /\ j \in Nat \cup {-1} /\ i \in Nat \cup {-1} /\ w \in Nat /\ rw \in Nat
  /\ err \in Cause \cup {"none"} /\ ropts \in Options
  /\ shell \in {"none", "running", "ok", "failed"} /\ stdin \in {"open", "closed"}
  /\ down \in 0..Capacity /\ up \in 0..Capacity
  /\ batch \in [exists : BOOLEAN, torn : BOOLEAN] /\ batchFile \in BOOLEAN
  /\ applied \subseteq Nat \X Path /\ kept \subseteq Attr
  /\ result \in Cause \cup {"running", "ok", "output"}

\* A dry run has nothing to apply.
Work == [n \in 1..Len(job.sources) |->
           IF job.opts.dryRun THEN <<>>
           ELSE [m \in 1..Len(job.sources[n]) |-> job.sources[n][m].path]]

Command == INSTANCE SyncCommand WITH Detached <- TRUE, work <- Work

\* A remote sync implements a sync command: "ok" only when every file has been
\* applied on the other side, although Sender ends when the last delta is
\* written; a dry run applies nothing there.  A server cut off from a failed
\* command may still apply what had reached it, in order.
ImplementsCommand == Command!Spec

\* A handshake that fails because the other side went away is reported with the
\* remote process' own error, never as the end of a stream.
HandshakeCause == result \in {"eof", "closed"} => j >= 0

\* Session.Close reads no more: a server whose signature is longer than what the
\* pipes hold stays blocked writing it, and Close waits for that server.
HeldUp == pc = "wait" /\ err = "batch" /\ rpc = "write" /\ up = Capacity

\* Neither end waits for the other for good, whatever fails: the command returns.
\* The one exception is a batch file that fails to take what the server already
\* has (see HeldUp); the deferred removal of that file is never reached then.
Terminates == <>(result # "running" \/ HeldUp)

\* (Checked to fail.) "--archive turns all of them on at once": a sync that
\* reports success has kept the attributes it was asked to keep.
AttributesKept == result = "ok" => job.opts.attrs \subseteq kept
=============================================================================
