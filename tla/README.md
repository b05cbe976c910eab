# grsync in TLA+

A verification development for grsync, an rsync-like file synchroniser in Go:
specifications of its core algorithms and protocols, TLC models that check them
on small instances, and TLAPS proofs of the results that matter most. Paths
below are relative to the repository (`src/...`); `internal/` means
`src/internal/`.

| module | what it is |
| --- | --- |
| `FileExchange` | abstract: what the delta exchange of one file promises, in one step |
| `DeltaSync` | the delta exchange for one file: sign, generate, apply; implements `FileExchange` |
| `DeltaSyncProofs` | the exchange rebuilds the promised bytes and sends no block twice, and the refinement, proved |
| `FileReceiver` | repeated runs of the receiver over one destination's file system |
| `FileReceiverProofs` | no torn file, no stray temp file, no write through a link, pure dry runs, the promise of the exchange kept, proved |
| `FileSuccessProofs` | what success says of contents, links and attributes, proved |
| `SyncCommand` | abstract: what one sync command promises, over any transport |
| `LocalSync` | a local sync: two goroutines, two pipes, the batch file; implements `SyncCommand` |
| `LocalSyncProofs` | both goroutines in step, causes and batch files, the refinement, proved |
| `RemoteSession` | a sync over a remote shell: both ends, bounded pipes, a connection that may be lost; implements `SyncCommand` |
| `FileList` | what Sender lists: the walk, the filter rules, the hard-link groups |
| `TreeReceiver` | runs over whole trees: directories, symlinks, hard links, attributes, itemized lines |
| `TreeReceiverProofs` | a run settles the tree, touches only what is listed, loses no name, stays able to write, prints what a dry run prints; filter patterns match what they mean; proved |
| `RemoteSessionProofs` | the same refinement over a remote shell, and the handshake, proved |
| `Progress` | the progress reporter's goroutine and its bounded channel |
| `ProgressProofs` | what the channel took is printed when Receiver returns, proved |
| `DaemonSession` | one daemon connection, both ends; implements `SyncCommand` |
| `DaemonSessionProofs` | phases, refusals, permissions and completion of a connection, the same refinement, proved |
| `MC*` | the constants of the TLC runs |

To check: `tlc -config MCDeltaSync.cfg MCDeltaSync`, and so on for each run in
`PROJECT.json`; `tlapm DeltaSyncProofs.tla`, and so on for each `*Proofs` module.

## 1. The system: inventory

One command syncs source trees into a destination. `pipeline.Sender` walks the
source, `pipeline.Receiver` owns the destination, and the two exchange frames
over a byte stream. The stream is a pair of pipes (local), ssh's stdin and
stdout (remote shell) or a TCP connection (daemon). For each regular file the
receiver sends a signature of its bytes and gets a delta back; it rebuilds the
file in memory and replaces the old one through a temp file and a rename.

**Delta algorithm** (`internal/sync/delta.go`, `blocks.go`, `signature.go`,
`checksum.go`). *State*: the window's position, the rolling checksum, the
pending literal, the operations so far. *Operations*: `GenerateSignature`,
`GenerateDelta`, `ApplyDelta`. *Called by* Sender and Receiver, once per file.
*Hard*: a checksum that underflows `uint32` on purpose, several blocks sharing a
weak sum, files shorter than a block, `Signature.BlockSize` having a second
meaning under `--append`. *Correct when* the receiver ends with the promised
bytes, no operation is rejected, matches are not missed, the loops end.

**Receiver: regular files** (`internal/pipeline/receiver.go`, `partial.go`).
*State*: the destination tree, a temp file, the partial dir, the position in the
file list. *Operations*: `receiveRegularFile`, temp file, rename,
`abandonOrKeep`, attributes. *Hard*: failures and kills between any two system
calls, further runs with other options over what they left, hard-linked
destination files. *Correct when* no file is ever torn, success means copied, a
dry run is pure, one failing call leaves no temp file, repeated runs converge.

**Hard links** (`internal/sync/hardlinks.go`). *Operations*: `DetectHardLinks` on
the source, `ApplyHardLinks` after the entries. *Hard*: remove-then-link is not
atomic; renaming over one name splits a group. *Correct when* after success each
group is one inode.

**Attributes, symlinks, directories** (`internal/sync/attributes.go`, `receiveDir`,
`receiveSymlink`). *Hard*: directory attributes are deferred and applied
deepest-first; attributes belong to inodes, not names. *Correct when* each entry
ends with its own attributes.

**Special files** (`internal/sync/specialfiles.go`): one system call, no caller. A
named pipe or a device of the source is exchanged like a regular file.

**Sender** (`internal/pipeline/sender.go`). *State*: its position in the file
list. *Operations*: send the list, then for each file read a signature, load the
source, send a delta. *Hard*: it decides on its own which entries are exchanged,
and the file it reads may differ from the one it listed. *Correct when* it stays
in step with the receiver.

**Wire** (`internal/transport/frame.go`, `internal/pipeline/messages.go`,
`compress.go`). Length-prefixed frames of gob messages, literals optionally
deflated. *Hard*: a frame is two writes. *Correct when* the reader gets the
frames that were written.

**Local sync and batch mode** (`internal/cli/sync.go`: `runSync`, `syncLocal`).
*State*: two `io.Pipe`s, the Sender goroutine, the batch file and its handle.
*Hard*: either side may fail while the other is blocked on a pipe with no
buffer; one error hides another; a batch file that cannot be written breaks the
transfer half-way through a frame. *Correct when* the command ends, success means
everything was applied, a failed sync leaves no batch file, the cause is told.

**Progress reporter** (`internal/pipeline/progress.go`). A goroutine behind a
channel of eight updates that drops when full. *Correct when* it never slows the
transfer and everything it accepted is printed when the Receiver returns.

**Stats** (`stats.go`): counters and their text.

**Itemized changes** (`itemize.go`): a line for each entry that differs from the
destination, looked up before the entry is written. *Hard*: an entry's own
predecessors have already changed the tree it is compared with. *Correct when* a
dry run prints what the real run would, and a settled tree gives no line.

**Walk and filter** (`internal/sync/walk.go`, `filter.go`): the file list, sorted
parents first; first matching rule wins. Sequential. *Hard*: `**`, unanchored
patterns, and links detected in a list that was filtered.

**Remote shell session** (`internal/transport/session.go`, `rsh.go`,
`remotepath.go`, `handshake.go`). *State*: the child process and its pipes.
*Operations*: `Dial`, `Handshake`, the transfer, `Close`, which waits for the
child. *Hard*: closing waits for a remote that may itself be blocked on a full
pipe; a connection lost at any point; which of two errors is the cause; flags
that must be repeated to the other side. *Correct when* the command ends, "ok"
means applied there, the remote's own error is shown.

**Daemon protocol** (`internal/daemon/protocol.go`, `auth.go`, `session.go`,
`client.go`). *State*: the place of each end in the dialogue. *Operations*:
greeting, listing, authentication, direction, acknowledgement, transfer, final
line. *Hard*: lines and frames share one stream; Sender returns before its last
delta is applied; a refused client may already be sending; closing with unread
input resets the connection. *Correct when* only permitted writes happen, "ok"
means written, a refusal is seen, neither end hangs.

**Daemon server loop** (`internal/daemon/server.go`): a goroutine per connection.
*Hard*: two uploads into one module.

**Daemon configuration, URLs, command line** (`config.go`, `url.go`, `internal/cli/`
except `sync.go`): parsing; sequential, no state.

The list of what is hard to test, line by line and with the properties aimed at
each item, is `hazards` in `PROJECT.json`.

## 2. What is modelled, and how it corresponds to the code

`PROJECT.json` maps every definition to the lines it stands for. The main
correspondences are these.

### DeltaSync

A file is a sequence of bytes of length at most `MaxLen`. A step is one
iteration of a loop of the code. `Sign` is the `switch` in `receiveRegularFile`
that picks signature and action; it compares with `listedSize`, the size the
sender's walk saw, while `new` is what the sender reads later, so the source may
grow or shrink in between. `FreshWindow`, `MatchBlock`, `SlideByte` and
`FinishScan` are `GenerateDelta`: its outer loop, the two ways the inner loop goes
on, and what follows them. `AppendTail` and `Diminished` are `appendTailOps`.
`ApplyCopy`, `ApplyData` and `FinishApply` are `ApplyDelta` and its caller.
Checksums wrap modulo `Word`, as `uint32` does. `Matches` takes the first candidate
with the right strong checksum; MD5 is the operator `Strong`, **assumed injective
on files**: what the code does on an MD5 collision is left out. `ends` is an
auxiliary variable, the number of new bytes the operations account for.

### FileExchange

One step from two files and the options to the receiver's new bytes. A file is
copied, kept as it is (`--append`, and it is not shorter than the listed size), or
extended by the bytes it lacks; the step is refused only if the source has become
shorter than the bytes to be kept. `DeltaSync` implements it: `status` is its phase
(`"done"`, `"failed"` or still running) and `data` is `out` once it is done, so
`Sign`, every step of the two loops and each applied operation are stutters.
`FileReceiver` relies on it for its step `Exchange` (`Delta`, `PromiseKept`).

### FileReceiver

A path names an inode and an inode holds data and attributes (`dest`, `store`), so
that hard links in the destination are real. `pc` is the place in `Receiver`:
`ReadBasis`, `Exchange`, `CreateTemp`, `WriteTemp`, `Rename`, `RemovePartial` and
`ApplyAttrs` are `receiveRegularFile` in its order, `Abandon` is `abandonOrKeep`,
`RemoveMember` and `LinkMember` are `ApplyHardLinks`. The exchange is one step that
yields what `FileExchange` promises (`PromiseKept`); a dry run ends there.
`WriteFails`, `RenameFails` and `CallFails` are calls that return an error, `Crash`
is a kill between any two steps. The code drops the errors of two kinds of calls,
and they can fail in the model too: `Abandon` may leave the temp file where it is
(the `os.Remove` of `partial.go:142`, `150` and `155`), and in `WriteTemp` the deferred
close may be the first to refuse bytes (`partial.go:52`), after which a shorter file
is renamed into place; `lost` are the paths that happened to in the current run.
`Begin` starts a run, with any of the options, over whatever the previous ones left;
`EditSource` changes the source in between. A temp file's name is never reused, so one
that stayed behind is not part of the state of later runs: `Begin` forgets the one of
a run that failed, `Crash` the one of a run that is killed.

### SyncCommand

The promise `runSync` makes whatever lies between the two ends: `Apply` is one file
in list order, `Succeed` needs every file applied, `Fail` may come at any moment.
With `Detached` the applying side may go on after a failure was reported, as a
remote Receiver does with what had already reached it; it may never after "ok".
`LocalSync` implements it with `Detached <- FALSE`, `RemoteSession` and `DaemonSession`
with `TRUE`. In the first two, `applied` and `result` map to themselves and `work` to the
paths exchanged for each source, so every action but those that apply a file or end
the command is a stutter. A daemon connection has one source. Its work are the
positions of the files that the request asks for (`Wanted`), of which the receiving
end, client or server, has applied as many as it has written; the command ends when
the client does, and a module listing or a refusal counts as a failure to sync.

### LocalSync

`sPc` is the Sender goroutine, `pc` the caller's. A frame is a header and a payload,
each handed over in a step both sides take together, as `io.Pipe` has no buffer.
With a batch file `io.MultiWriter` writes each part to the pipe first and to the
file second (`Tap`). `SenderCloseWrite`/`SenderCloseRead` and `CallerCloseWrite`/
`CallerCloseRead` are the four `CloseWithError`/`Close` calls, in their order; the
other side then gets their error. Every call that can fail may fail. `Join` is the
read of `senderErrCh`; `FailBatch` is `runSync`'s deferred removal. What a file holds
is left to `DeltaSync` and `FileReceiver`. An entry of kind `"fifo"` is exchanged like
a file; `LoadFifo` is `os.ReadFile` on it, which waits for a writer that nobody
promises. The command's last call prints its summary and may fail as well: the result
is then `"output"`, over a transfer and a batch file that are whole.

### RemoteSession

`pc`, `j`, `w` are the client's place, the position it is at and how much of that
frame it has written or read; `rpc`, `i`, `rw` are the server's. Position -1 is the
handshake, 0 the file list, n the n-th exchanged file. Frames alternate strictly,
so a direction never holds parts of two and a counter of units is enough for it
(`down`, `up`); a header is one unit, a payload as many as the job says, and a
writer blocks at `Capacity`, which stands for the kernel's pipe and what ssh holds.
`CreateBatch`, `Succeed` (whose last line may fail to be printed, as in `LocalSync`) and
`End` are `runSync`; `Dial`, the frames, `CloseStdin` and
`Wait` are `syncToRemote` with `transport.Session`; the server's actions are
`runServer`. `Sever` is a lost connection: ssh ends with a status of its own, and
the server sees the end of what had reached it. `RemoteOptions` is `remoteArgs`
followed by the server's own parsing of it. A greeting printed by a login script
is read as a frame's header (`ReadGarbage`). The entries that exchange nothing, and
the contents, are left to the other modules.

### FileList

Operators only. Walk sorts its list and nothing reorders it, so a list is a set
of paths, and `Order` says which comes first (`First`). A path is a sequence of names,
a segment of a pattern the set of names it matches or `DeepStar` for `**`; `Anchored`,
`matchSegments`, `Matches` and `Included` follow `filter.go` function by function, with
`matchSegments` as a recursive function over the places in pattern and path; `Cuts`
says what a match means. `Walk` lists the tree with `--recursive`, `--dirs` or neither;
`DetectHardLinks` groups what is left, a group being a set of paths. `Walk` of a source
that is a single file lists nothing in the code; a source here is always a directory.

### TreeReceiver

The destination is a file system: `Put` makes, replaces or removes a name and
touches the directory that holds it; `CanWrite`, `CanMkdirAll`, `CanRemove` and
`CanStat` say when the kernel allows it, which a read-only directory does not;
`ApplyAttributes` reaches every name of an inode. `ReceiveDir`, `ReceiveSymlink`,
`SkipSecondary` and `ReceiveFile` are the loop of `Receiver` over the entries, with
`Line` (the lookup before the write) first; `ApplyHardLink` and `ApplyDirAttributes`
are the two passes after it, in the order `Passes`. `Fails` stops a run at any
entry, leaving any prefix of that entry's system calls (`Attempts`, and `DirAttempts` for
a directory, of whose missing parents any may have been made), except that chmod and
chtimes happen together. A file's content is replaced in one step: `FileReceiver` has
the steps of that. `Begin` picks one of the commands over whatever the previous run
left, `EditSource` changes the tree in between.

A symlink may lie in the destination at any path, above a listed one or where the source
has a directory or a file. Most calls follow it: `os.MkdirAll` passes a symlink to a
directory, `os.ReadFile`, `chmod` and `chtimes` go through one to a file, only
`os.Lstat`, `os.Remove` and `os.Rename` treat it as itself. `Behind` and `Astray` say
where that happens. Symlinks lead out of both trees to another file system which is not
a state of the model: what follows one may find anything there and succeed or fail
(`FollowLink` for an entry, `LinkBehind` for a hard link, a branch of
`ApplyDirAttributes`), and what it may change there is the flag `outside`. A file whose
content differs replaces the symlink itself, as `os.Rename` does (`ReceiveFile`).

Restrictions, all named in the module: the command runs as the owner and not as
root, ownership is left out, the destination itself is writable, and a symlink never
leads back into one of the two trees.

### Progress

`WriteChunk` is a chunk on disk and `report`'s non-blocking send; `CloseUpdates` and
`Return` are `stop`, deferred by `Receiver` on every way out; `Receive`, `PrintLine` and
`EndRange` are `run`. The last chunk of a file is its last update.

### DaemonSession

`wire[x]` is what has been sent to `x` and not read: lines and frames in order, at
most `Capacity` of them, so writers can block. `Say` and `Hear` are `writeLine`,
`WriteFrame` and the reads. `Client*` and `Server*` actions are the two halves of
`protocol.go`, `auth.go` and `session.go`; `Transfer(x)` is Sender or Receiver at
either end, so that uploads and downloads share their definition. Closing with
unread input resets the connection: the peer may lose what it had not read.
`Breaks` is a failure of an end at any point. Text is reduced to the kind of a line.
The name `#list` asks for the modules; a client that was given a module of that name
(`rsync://host/%23list`) sends the same line and goes on to authenticate, so that it
meets a line of the listing, and `ClientGreeting` has both. Every client here is
this program's, which sends a well-formed response and one of two directions: the
server's refusals of other ones (`auth.go:116-118`, `session.go:86-100`) are not met.

### Not modelled

- *Replaying a batch*: `Receiver` reads a file instead of a Sender, over a
  destination that must equal the original one; on that one it is the exchange
  `DeltaSync` checks, on another one nothing is promised.
- *Several daemon connections at once*: nothing orders two uploads, and no document
  promises more than what one rename gives.
- *Ownership* (`chown`): needs privileges and follows the calls of permissions and
  times; hence also the owner and group positions of an itemized line.
- *Counters* of `--stats`, *compression* of literals (lossless, one message at a
  time), gob encoding.
- *Text*: flags, rules, daemon configuration, URLs, `user@host:path`, quoting of the
  remote command line. Sequential parsing with tables of unit tests; the models
  take the parsed values as input.

## 3. The runs

| run | what it asks | states |
| --- | --- | --- |
| `delta` | is the promised file rebuilt, with no match missed? | 1.3 million |
| `files` | what is on disk after any failures, and after success? | 1.9 million (up to symmetry) |
| `retry` | do repeated runs converge, and what does it take to leave a temp file? | 126 thousand |
| `resume` | is a partial file consumed by a successful run? (no) | stops at the counterexample |
| `tree` | do whole-tree runs settle, touch only listed paths, lose nothing, itemize truly? | 1.06 million |
| `local` | does a local sync do what a command promises, and end, whichever call fails? | 2.2 thousand |
| `fifo` | does it end with a named pipe in the source? (no) | stops at the counterexample |
| `remote` | does a sync over a remote shell, whatever is lost or blocked? | 3.8 thousand |
| `remote_attrs` | does an `--archive` sync to a remote keep attributes? (no) | stops at the counterexample |
| `progress` | is every accepted update printed, without delaying? | 2.7 thousand |
| `progress_lines` | does every file get a line? (no) | stops at the counterexample |
| `daemon` | is a session safe, truthful and finite? | 2.7 thousand |

Bounds, and why they are enough for the cases they are meant to reach:

- `delta`: every pair of files of up to four bytes over `{0, 3, 4}`, blocks of two
  bytes. Four bytes give no block, one, a short last one and two; two blocks can
  be equal, or different with the same weak sum (0 and 4 are equal modulo 4), and
  a window can match at any offset. With `Modulus = 4` and `Word = 16` the
  accumulators wrap and underflow in nearly every `roll`. Every `listedSize` is
  combined with every file: the source may have grown or shrunk since the walk.
- `files`: two files and a hard link to one of them, contents where one is a prefix of
  another and two of equal length differ, seven combinations of `--append`,
  `--append-verify`, `--partial`, `--partial-dir` and `--dry-run`, any number of runs,
  one fault (a failing call, bytes lost at the close, a kill or an edit of the source).
  The initial destination is any file system over four inodes: stale files, missing
  files, files hard-linked together in ways the source is not. Inodes are symmetric. The
  proofs show that the fault bound does not matter to its properties.
- `retry` and `resume`: one file and one link, two faults. `retry` has runs with and
  without `--partial`; a second fault can meet the removal that a first one made
  necessary, or hit a later run while it repairs the first one's damage. The `resume`
  counterexample needs one fault to put a complete file in the partial dir and no
  other.
- `tree`: six paths with two levels of directories, hard links across them and a
  symlink; three source trees (linked and unlinked files, read-only files and
  directories); 405 initial destinations, which mix missing, stale and current names, a
  read-only directory, a file in a directory's place, names that are one inode, and
  symlinks in the place of a directory or a file; eight commands of filters and flags, a
  dry run among them; two runs, since a third one finds what a second one may leave
  already, an edit between them, and a failure in either. Its module also checks
  `matchSegments` against a reference definition (the pattern's segments cut the path
  into pieces) for every pattern of up to three segments.
- `remote` and `remote_attrs`: sources of no, one and two files, two sources, a batch,
  a dry run; pipes of two units, fewer than the longest signature and delta, so
  that each end blocks in the middle of a frame. Calls may fail and the connection
  break at any step, any number of times.
- `local`: a source with a directory, two linked files, a third file and a symlink;
  a source of one file; an empty one; one with a named pipe; pairs of sources;
  with and without a batch.
  Failures are not bounded: every call of every step may fail.
- `progress`: a channel of two and seven updates of four files, so that it overflows
  in the middle, at a file's only chunk and at a file's last one.
- `daemon`: a read-only, an open and an authenticated module, all kinds of requests
  including an unknown module, an unknown user and a wrong password, two files,
  and a stream that holds two messages, fewer than an end may want to write.

`CHECK_DEADLOCK FALSE` is given to the models whose system really stops (all but
`FileReceiver`, where a new run can always begin).

### What they show

- `delta`: `ImplementsExchange`, that the receiver's new bytes follow from the options
  and the two files alone, and that only a source that shrank fails; the rolling
  checksum is always the fresh one (`RollingIsFresh`); no literal covers a window that
  is a block of the old file (`NoMissedMatch`): a defect there would rebuild the right
  file and only cost bytes, so no round-trip test would see it.
- `files`: no reader of the destination ever sees a torn file (`NeverTorn`), the
  other names of a hard-linked destination file are not written through
  (`NoWriteThrough`), dry runs are pure, and what "success" says about contents,
  partial files, appended files, links and attributes (`DoneMeansCopied`,
  `GroupsLinked`, `OwnAttributes`). `NeverTorn` and `DoneMeansCopied` except the files whose
  bytes were lost at the close. `PromiseKept`: what Receiver is about to put in place is
  what `FileExchange` promises for the bytes it signed, in the mode the options ask for,
  whatever earlier runs left as a basis.
- `retry`: once calls stop failing the destination becomes a copy and stays one, and so
  do the further members of a link group but for the moments in which a run has removed
  one and not yet made it again (`EventuallyCopied`); a run that ends on its own leaves
  its temp file only where two calls failed, the one it gave up for and the removal
  (`NoTempLeft`).
- `tree`: after a successful sync the next one finds nothing to change, so no pass
  undid an earlier one, such as the time of a directory (`Settled`); a dry run
  prints what the real run would (`SameAsDryRun`); a path outside the list changes
  only as a directory on the way or as another name of a listed inode, and nothing
  changes outside of the destination unless a symlink of the destination led there
  (`OnlyListed`); a run that succeeds has lost no name and one that fails the one it was
  replacing at most (`NothingLost`); no attributes given on the way, such as a
  read-only mode, keep the run from a later write (`StaysWritable`).
  `Settled` and `SameAsDryRun` have two exceptions each, stated in the properties. The
  first is two listed files that are one inode of the destination and not linked by
  the run: the real run changes that inode's attributes at the first file and finds
  them changed at the second, so the documented identity of the lines
  (`src/README.md:203-204`) does not hold there. The second is a symlink of the
  destination in the way. Where the source has a file with the bytes that are found
  through it, the symlink stays and each later run reports its size or its time;
  where the source has a directory, it stays too and what lies below it is written
  elsewhere. What the lines say of such paths depends on what is there.
- `local`: Sender and Receiver skip the same entries (`InStep`), the command
  implements `SyncCommand` (`ImplementsCommand`), a batch file is whole or gone, the
  reported error is a cause and not its echo, and the command ends. Types are proved
  of `LocalSync` and `RemoteSession` and not checked by a run.
- `remote`: the same abstract command, with a detached server; a failed handshake
  shows the remote's error (`HandshakeCause`); neither end waits for the other for
  good (`Terminates`). The exception `HeldUp` is real: if the batch file refuses a
  part while the server is blocked writing a signature longer than the pipes
  hold, `Close` waits for a process that waits for its reader. In the other direction
  closing stdin ends the server.
- `daemon`: see the comments of the properties. `InPhase` and `RefusalReachesClient`
  are why the acknowledgement exists, `DoneMeansWritten` is why the final line does.
  `InPhase` has one exception, the client with a module named `#list`, which takes a line
  of the listing for the answer to its choice and stops.
  `ImplementsCommand` puts the latter in the terms of the other transports: files are
  applied one after the other, "ok" comes after the last of them, and none after it.

### Four findings

- `resume`: `receiveRegularFile` compares the new content with the basis it diffed
  against (`internal/pipeline/receiver.go:292`), which with `--partial-dir` is the
  partial file and not the destination. If a run fails after the whole file was
  written (the rename fails), a complete file is in the partial dir; each later
  `--partial-dir` run then sees no change, writes nothing, leaves the partial file
  and reports success over a stale destination. `itemize.go:37-39` says the partial
  file is "used as a resume basis on a later run, then deleted on success", and
  `partial.go:128` calls a leftover harmless. `DoneMeansCopied` states what does hold.
- `progress_lines`: an update is dropped when eight are waiting, and a file of up to
  256 KiB has a single update, so behind a slow output it gets no line; the
  repository's README promises "a live line per file as it's written to disk".

- `remote_attrs`: `remoteArgs` (`internal/cli/sync.go:318`) forwards the reporting,
  partial and append flags to the remote command line, and no attribute flag. The
  remote Receiver keeps no permissions, times or owners and skips symlinks, and
  the sync reports success; `src/README.md:151-152` says `--archive` "turns all of
  them on at once".
- `fifo`: nothing calls `ApplySpecialFile`. Sender opens a named pipe of the source
  like a file (`internal/pipeline/sender.go:80`) and blocks until somebody writes to
  it; `src/README.md:165` says "named pipes (FIFOs) are fully supported".

Smaller observations, with no run of their own: a rule that excludes a directory
leaves its contents listed, since the filter judges each entry alone; symlinks and
secondary hard links are removed and made again in every run, so a read-only
directory of an earlier run makes a later one fail even when nothing changed; a
new file without `--perms` keeps the temp file's mode.

Others are written into the models and into what the properties except:

- An unwritable directory or a mount that has become read-only makes the
  removal of a temp file fail along with the rename before it. The file then stays,
  although `partial.go:135-136` says that every exit path removes it; `NoTempLeft` counts
  the two failures.
- The error of the temp file's `Close` is dropped (`partial.go:52`). On a file system
  that reports a failed write only there, a file cut short is renamed into place and the run
  reports success; `partial.go:9-10` says that a reader never sees a half-written file.
- `receiver.go:43-45` says that Receiver only touches paths of the file list. Behind a
  symlink of the destination it touches whatever is there; `OnlyListed` says when.
- When closing the batch file fails, its handle has been cleared already and the
  deferred removal does not run, so `BatchWholeOrGone` excludes a command that ends with
  that error.

## 4. Fairness

Liveness is checked under weak fairness, which asks that a process that can go
on eventually does:

- `DeltaSync`: of `Next`; both loops run without waiting for anything.
- `FileReceiver` (`retry`): of `Step`, a started run goes on, and of `Begin`, somebody
  runs the command again. Faults carry no fairness and are bounded.
- `LocalSync`: of each goroutine and of the hand-over; the Go scheduler runs runnable
  goroutines, and a blocked reader and writer of one pipe do meet. Failing is never
  forced: where a call can succeed or fail, one action has both outcomes.
  `LoadFifo` has none: somebody would have to write to the pipe.
- `RemoteSession`: of each process: it runs on when it can. Nothing forces a failure,
  a lost connection or a greeting, and a blocked writer is not enabled, so a wait of
  each for the other would be a counterexample.
- `TreeReceiver` has safety properties only.
- `Progress`: of both goroutines, which assumes that the output takes what is written
  to it. `TransferNeverWaits` does not need that.
- `DaemonSession`: of both ends; TCP delivers, a password prompt is answered. The code
  sets no read deadline, so a peer that is alive and silent is excluded by this
  fairness, not by the code.

## 5. The proofs

TLAPS proves these for every value of the constants that meets the named
assumptions; TLC evaluates the assumptions in each run.

**DeltaSyncProofs.** `Spec => []TypeOK`, `ImplementsExchange` and, relative to the
action that was chosen, `[]Reconstructs` (the promised bytes at the end),
`[]WritesPrefix` (a prefix of them before it) and `[]OnlyDiminishedFails`, for all
files, block sizes, moduli and weak checksums. From `ByteAssumption`, `SizeAssumption`,
`WordAssumption` and `StrongAssumption` (no MD5 collision). The argument: `Reconstructs`
is not inductive, since it says nothing before the end. `IInv` adds `Tiles`, that the
operations sent so far tile the front of the promised bytes, operation `i` standing for
those between `ends[i-1]` and `ends[i]`; `ScanInv`, that `pending` is exactly what lies
between the last operation and `pos`; and `Chosen`, which signature goes with which
action. `MatchBlock` extends the tiling because equal strong checksums mean equal blocks
(`BlockMatch`), the other steps because adjacent pieces of a sequence join; `ApplyDelta`
then walks along the tiles. Nothing is needed of the weak checksum: a wrong one costs
bytes, never content.

`Spec => ImplementsExchange` adds to `IInv` that the action is the one the options
call for (`Asked`), which `Sign` establishes and no step disturbs, as the files and the
options are never changed. `FinishApply` then maps to `Deliver`, since the promised
bytes are those `Reconstructs` speaks of (`Modes`), `Diminished` to `Refuse`, and every
other step to a stutter.

The second half is about that cost. `Spec => []RollingIsFresh` and `[]NoMissedMatch`
follow from `MatchInv`, relative to `IInv`: while the loop scans, `weak` is the checksum of
the window itself (not only its sum), and no window that starts inside a literal, sent
or still pending, is a block of the old file. `RollFacts` is the heart of it: the
checksum of a window moved by one byte is `roll` of the old one. `newWeakChecksum` adds up
in two loops, so this is an induction over the window, done by hand from the least
counterexample (`Upwards`): each accumulator of the moved window differs, modulo
`Modulus`, from the accumulator one byte further on by what the leaving byte
contributed (`Same`, `AddBoth`, `AddWeighted`). `uint32` may wrap anywhere on the way
because `Modulus` divides `Word` (`SameMod`), the reason `checksum.go` gives for choosing
2^16. `SlideByte` then cannot step over a block: a window equal to one has
its weak sum and its strong checksum, so `Matches` would not be empty
(`NoMatchNoBlock`).

**FileReceiverProofs.** `Spec => []TypeOK`, `[]NoTempLeft`, `[]PromiseKept`,
`DryRunPure`, `NoWriteThrough` and `NeverTorn`, for all file lists, link groups, sets of
options and numbers of faults, over any set of inodes. From `PathAssumption`,
`ContentAssumption`, `OptionAssumption` and `FaultAssumption`. `FileInv` adds to the
types that from the delta to the rename the basis still describes the destination
(`BasisFresh`), that the new data is what was asked for and the temp file holds it at
the rename unless the close lost some of it (`NewDataRight`), that a dry run never
passes a delta (`DryRunStops`), where a temp file exists, and what it has cost to get
there (`StrayCosts`): a file is given up only after one failure, and its temp file
outlives that only after another, which is `NoTempLeft`. `DataStep` then says what any
step can do to the bytes at the paths: nothing, a rename onto the current file, or the
unlinking or linking of one secondary member; the two action properties follow.
`[]PromiseKept` follows from `PromiseInv`: while a file is worked on, the action is the
one its mode calls for (`Asked`), and once there is a delta the new data is what is
promised. `ReadBasis` establishes the first (`ReadBasisAsks`), `Exchange` the second
(`ExchangeKeeps`); no other step of the file changes what either is about
(`PromiseFrame`).

**RemoteSessionProofs.** `Spec => ImplementsCommand`: a sync over a remote shell is a
`SyncCommand`, for all jobs, sources of any length, signatures and deltas of any
size and any `Capacity`. From `JobAssumption` alone; fairness plays no part. The
refinement mapping is that of the run `remote`. That "ok" means everything is
applied is not inductive: `IInv` adds that a running server has applied exactly
what precedes the file it is at (`ServerAt`), that between two sources exactly the
earlier ones are applied, and that while the client is in a session an exit
status of 0 is that of a server that has applied all of its source's files
(`Between`). The last part is what carries a fact from the server to the client:
`Sender` itself knows only that its last delta was written. `StepRefines` maps
`ApplyDelta` to `Apply` (to a stutter in a dry run), `Succeed` to `Succeed` or `Fail`, the
steps that end the command to `Fail`, and every other step to a stutter.

The same module proves `[]TypeOK` and `[]HandshakeCause`. The client closes stdin
and waits after a stream that ended, so the cause it keeps depends on how the
server ended. `HandshakeAt` counts: while the ack is awaited, what the client has
written of hello has been read or is on its way, so the server is still reading
or answering, and if it has ended it ended badly. `Sever` and `ServerFails` keep
that, and a server that ends well has read past the handshake.

**FileSuccessProofs.** `[]DoneMeansCopied`, `[]GroupsLinked` and `[]OwnAttributes`, from
the same assumptions as `FileReceiverProofs`, whose invariant it uses. `PathAssumption`
says that no path is listed twice or is a later member of two groups: an inode
belongs to one group and `DetectHardLinks` lists each name once. `SuccessInv` is
about a run on its way: every file behind its position is `Copied` (`CopiedBehind`),
the inode of such a file has the attributes of such a file (`AttrsBehind`), the
links up to the position stand (`LinkedBehind`), and until the rename the basis is
exactly what was found (`BasisExact`). That the steps at one file cannot spoil
those behind it is where hard-linked destinations bite: a rename gives the name an
inode no other name has (`RenameKeeps`), while attributes go to every name of the
inode, which is why `AttrsBehind` says "of *a* file behind" and `OwnAttributes` is only
about files that share none.

**LocalSyncProofs.** `[]TypeOK`, `[]InStep`, `[]BatchWholeOrGone`, `[]CauseReported` and
`Spec => ImplementsCommand`, for all jobs, from `JobAssumption`. `LocalInv` has one
invariant for each goroutine's place (`SenderAt`, `ReceiverAt`) and `Together`, which
says where one can be when the other is at a given place: without a buffer between
them they are never more than one frame apart, and the entries between their
positions are ones that neither exchanges (`Gap`). `InStep` follows from that. `Causes`
says that the first error is never an echo; `AppliedAt` that what is applied is what
lies before Receiver's position; `BatchAt` that the batch file holds the parts of
the frames before Sender's. The count of parts is compared with the whole through
the cardinality of the files before a position. The refinement maps `ApplyEntry` to
`Apply` and the ends of the command to `Succeed` and `Fail`; here nothing is applied once a
result is out, since the caller waits for both goroutines.

**ProgressProofs.** `[]TypeOK` and `[]PrintedAtReturn`, for any capacity, any files and
numbers of chunks. `ProgressInv`: what the channel accepted is what was printed,
then the line in the reporter's hand, then the channel's content; the channel is
closed once `stop` was called, the reporter ends only when it is closed and empty.

**DaemonSessionProofs.** `[]TypeOK`, `[]InPhase`, `[]OnlyPermittedWrites`,
`[]RefusalReachesClient` and `[]DoneMeansWritten`, for all configurations, secrets and
requests, files of any number and streams of any capacity, from
`CapacityAssumption`, `ConfigAssumption` and `RequestsAssumption`. `DaemonInv` says of each
end alone what it knows and has done (`ServerAt`, `ClientAt`, `SenderAt`, `ReceiverAt`)
and what may lie unread before it (`Hears`), and of the two ends together, while
both are there, that they are at one of the dialogue's meetings (`Where`): the pair
of places and the exact content of both directions. The meetings are few because the
ends alternate; the only stretches without that are the listing, where the server
runs ahead by any number of lines, and the end of a transfer. An end that leaves
makes `Together` vacuous, and `Hears` is what the other one goes on with, possibly cut
short by the reset. `Refusal` is the argument for the acknowledgement: a refused
client has sent nothing the server has not read, so the close that follows does not
take the answer away from it. `DoneMeansWritten` needs `OkMeansFinished` and that the final
line is only under way when Receiver has finished (in `TransferHears`).

`Spec => ImplementsCommand` is the refinement of the run `daemon`, for every request.
`FinishedIsAll` says that a Receiver that has finished has written all that was asked
for; `WriteFile` maps to `Apply` (`WriteRefines`: files are written one after the other,
and never after the client's "ok", because of `OkMeansFinished`), the client's "ok" to
`Succeed`, its other ends to `Fail`, and every other step of either end to a stutter.

**TreeReceiverProofs.** `[]TypeOK`, `OnlyListed`, `[]SameAsDryRun`, `[]Settled`,
`[]NothingLost` and `[]StaysWritable`, for any set of paths closed under "above" and
ordered parents first (`OrderAssumption`), any trees, filters and options
(`TreeAssumption`, `CommandAssumption`); symlinks may be anywhere in either. First the
file system: `MkdirAllFacts`, `PutFacts` and `AttributeFacts` say what one call changes,
`ReachedWell` that what an operation leaves is a file system again, with a fresh inode
by the pigeonhole principle (`FreshFacts`), and `AttemptsFacts` the same of every prefix
of an operation that fails. `TreeInv` says that the passes have only listed names of the
right kind before them, and `Effect` what any operation on `p` may do elsewhere:
directories above `p`, the other names of its inode; `OnlyListed` follows. `LinesInv` is
the argument for `SameAsDryRun`: an entry comes after the directories above it, so what
is still to come is as the run found it, unless it is another name of an inode already
written, which `Apart` excludes; no step puts a symlink in the place of a directory of
the list or the reverse, so what was not astray at the start is not when the run gets
there (`BehindStays`). `SettledInv` is the one for `Settled`: a file the run has come
past has its bytes, and the attributes of *some* entry it has come past whose name is
the same inode; later entries replace an inode or give attributes to all its names, hard
links only replace names that are not written on their own, and directories get their
attributes when nothing is created any more. Both of its exceptions are in the
statement: a name that is `Tangled` with one whose source has other attributes, and one
that is still astray when the run ends.

`NothingLost`: `EffectKeeps` says that an operation removes no name but the one it is
for, `StepKeeps` that a step that succeeds has put something there, and `FailsKeeps` that
one that fails has lost that name at most. `StaysWritable`: what can be written needs
directories on its way of which the last one there is writable (`WayWritable`); the steps
of the entries and links only add directories, with the writable mode of a new one,
and give attributes to files (`CanWriteStays`, `StepWritable`).

The end of the module is about filter patterns, for all of them and all paths.
`MatchSegmentsCorrect`: `matchSegments` holds exactly when the pattern's segments can be
laid out on the path (`Cuts`), a `**` over any number of names. `matchSegments` is a
recursive function, so this is an induction. `CutEquation` shows that being able to lay
out the pattern from a place on satisfies the function's equation; hence a function
that satisfies it exists (`MatchTable`), and any such function agrees with it, from a
least counterexample in what is left of pattern and path. `BareNameMatchesLast` is what
the comment of `Rule` says of a name without a slash (`internal/sync/filter.go:50-52`):
at any depth, against the last name only.

Only model-checked: all liveness, and `TransferNeverWaits`, which is stated with
`ENABLED` (the prover reasons about neither).
`ImplementsCommand` is proved of the specifications without fairness, which `SyncCommand`
does not ask for. No module that is proved about declares a RECURSIVE operator.

## 6. Plan

Done, in this order: `DeltaSync` and its proof, `FileReceiver` and its proof,
`LocalSync`, `Progress`, `DaemonSession`, `SyncCommand` with its first two
implementations, `RemoteSession` and its proof, `FileList`, `TreeReceiver`; then the
proofs of success in `FileReceiver`, of `LocalSync` with its refinement, of `Progress`, of
`DaemonSession` and of the handshake, of `TreeReceiver`, and of the rolling checksum;
then `FileExchange` with its implementation by `DeltaSync` and its use by `FileReceiver`,
`DaemonSession` as an implementation of `SyncCommand`, and the filter patterns.
What would come next, most important first:

1. `DaemonServer`: two uploads into one module over one file system.
2. Batch replay: a recorded exchange applied to another destination, or under
   other append options.
3. `AtomicReplace`, an abstract specification (a path's content is replaced in one
   step or not at all), with `FileReceiver` as its implementation: `NeverTorn` and
   `NoWriteThrough` in the form of a refinement.
4. Ownership and sources that are single files in `TreeReceiver`.
