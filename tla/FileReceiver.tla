----------------------------- MODULE FileReceiver -----------------------------
(***************************************************************************)
(* The receiving side of repeated syncs of one source tree into one         *)
(* destination: the regular files and hard links of the file list, written  *)
(* through a temp file and a rename, under --append, --append-verify,       *)
(* --partial, --partial-dir and --dry-run, with calls that fail and         *)
(* processes that are killed.  The delta exchange is one step, FileExchange's,  *)
(* which DeltaSync implements.                                              *)
(*                                                                          *)
(* A path names an inode, an inode holds data and the path whose attributes *)
(* were applied to it last.  A temp file has a name no other run uses, so   *)
(* only the running process's own is a variable.                            *)
(***************************************************************************)
EXTENDS Integers, Sequences

CONSTANTS Path, Inode, None,
          Content,     \* contents a source file may have, sequences
          Entries,     \* the regular files of the file list, in its order
          Links,       \* the hard links to make: pairs <<group head, member>>
          Options,     \* [dryRun, append, partial] a run may be started with
          MaxFaults    \* bound on failing calls, kills and source edits

Secondary == {Links[k][2] : k \in 1..Len(Links)}
Primary == {Entries[k] : k \in 1..Len(Entries)} \ Secondary
Option == [dryRun : BOOLEAN, append : {"off", "append", "verify"},
           partial : {"none", "keep", "dir"}]

\* A walk lists a path once, and a path has one inode, so it is in one group.
ASSUME PathAssumption == /\ Entries \in Seq(Path) /\ Links \in Seq(Path \X Path)
                         /\ \A k, n \in 1..Len(Entries) : Entries[k] = Entries[n] => k = n
                         /\ \A k, n \in 1..Len(Links) : Links[k][2] = Links[n][2] => k = n
                         /\ \A k \in 1..Len(Links) : Links[k][1] \in Primary
                         /\ None \notin Path /\ None \notin Inode
ASSUME ContentAssumption == Content \subseteq Seq(Nat) /\ None \notin Seq(Nat)
ASSUME OptionAssumption == Options \subseteq Option
ASSUME FaultAssumption == MaxFaults \in Nat

VARIABLES source,   \* what the sender reads
          dest, store, partial,          \* the destination's file system
          opts, pc, i, tmp, basis, newData, \* the running receiver
          lost,     \* the paths for which a close of this run lost written bytes
          faults

vars == <<source, dest, store, partial, opts, pc, i, tmp, basis, newData, lost, faults>>
fs == <<dest, store, partial>>

NoBasis == [data |-> <<>>, existed |-> FALSE, fromPartial |-> FALSE, action |-> "none"]

Data(p) == IF dest[p] = None THEN None ELSE store[dest[p]].data
File(d, m) == [data |-> d, meta |-> m]

\* Inodes no path names, but possibly p's: p is about to be renamed over.
Free(p) == {n \in Inode : \A q \in Path \ {p} : dest[q] # n} \ {dest[p]}

Fault == faults < MaxFaults /\ faults' = faults + 1
NoFault == faults' = faults

Init ==
  /\ source \in [Path -> Content]
  /\ \A k \in 1..Len(Links) : source[Links[k][2]] = source[Links[k][1]]
  /\ dest \in [Path -> Inode \cup {None}]
  /\ store \in [Inode -> {File(c, None) : c \in Content}]
  /\ \A n \in Inode : (\A p \in Path : dest[p] # n) => store[n] = File(<<>>, None)
  /\ partial = [p \in Path |-> None]
  /\ opts \in Options
  /\ pc = "idle" /\ i = 1 /\ tmp = None /\ basis = NoBasis /\ newData = <<>>
  /\ lost = {} /\ faults = 0

-----------------------------------------------------------------------------
(* Between runs. *)

\* A temp file that an earlier run left behind is no part of this one.
Begin ==
  /\ pc \in {"idle", "done", "failed"}
  /\ opts' \in Options
  /\ pc' = "entry" /\ i' = 1 /\ tmp' = None /\ lost' = {}
  /\ UNCHANGED <<source, fs, basis, newData, faults>>

\* The source changes between two runs; the members of a link group together.
EditSource ==
  /\ pc \in {"idle", "done", "failed"}
  /\ \E p \in Primary, c \in Content :
       source' = [q \in Path |->
                    IF q = p \/ \E k \in 1..Len(Links) : Links[k] = <<p, q>>
                    THEN c ELSE source[q]]
  /\ pc' = "idle" /\ Fault
  /\ UNCHANGED <<fs, opts, lost, i, tmp, basis, newData>>

-----------------------------------------------------------------------------
(* receiveRegularFile. *)

Current == Entries[i]

\* A group's further members are linked in the pass after the entries.
SkipSecondary ==
  /\ pc = "entry" /\ i <= Len(Entries) /\ Current \in Secondary
  /\ i' = i + 1
  /\ UNCHANGED <<source, fs, opts, lost, pc, tmp, basis, newData, faults>>

\* The bytes to diff against: the partial-dir file if there is one, else the
\* destination's; then what the sender is asked for.
ReadBasis ==
  LET existed == dest[Current] # None
      fromPartial == opts.append = "off" /\ opts.partial = "dir" /\ partial[Current] # None
      data == IF fromPartial THEN partial[Current]
              ELSE IF existed THEN Data(Current) ELSE <<>>
      action == IF opts.append = "off" \/ ~existed THEN "none"
                ELSE IF Len(data) >= Len(source[Current]) THEN "skip"
                ELSE IF opts.append = "verify" THEN "none" ELSE "tail"
  IN /\ pc = "entry" /\ i <= Len(Entries) /\ Current \notin Secondary
     /\ basis' = [data |-> data, existed |-> existed,
                  fromPartial |-> fromPartial, action |-> action]
     /\ pc' = "delta"
     /\ UNCHANGED <<source, fs, opts, lost, i, tmp, newData, faults>>

\* Mutant: skip leaves newData nil.
Wanted_NilSkip(b, s) == IF b.action = "skip" THEN None
                        ELSE IF b.action = "none" THEN s
                        ELSE b.data \o SubSeq(s, Len(b.data) + 1, Len(s))

Wanted(b, s) == IF b.action = "skip" THEN b.data
                ELSE IF b.action = "none" THEN s
                ELSE b.data \o SubSeq(s, Len(b.data) + 1, Len(s))

\* Mutants: a new empty file is no change; only the size is compared.
Transferred_ChangedOnly == basis.action # "skip" /\ basis.data # newData'
Transferred_SizeOnly ==
  basis.action # "skip" /\ (~basis.existed \/ Len(basis.data) # Len(newData'))

Transferred == basis.action # "skip" /\ (~basis.existed \/ basis.data # newData')

\* The delta arrives and is applied in memory.
Exchange ==
  /\ pc = "delta"
  /\ newData' = Wanted(basis, source[Current])
  /\ IF opts.dryRun THEN pc' = "entry" /\ i' = i + 1
     ELSE i' = i /\ pc' = IF Transferred THEN "create" ELSE "attrs"
  /\ UNCHANGED <<source, fs, opts, lost, tmp, basis, faults>>

CreateTemp ==
  /\ pc = "create"
  /\ tmp' = <<>> /\ pc' = "write"
  /\ UNCHANGED <<source, fs, opts, lost, i, basis, newData, faults>>

\* The error of the deferred Close is dropped: bytes that are refused only then
\* are missing from a file that is renamed into place all the same.
WriteTemp ==
  /\ pc = "write" /\ pc' = "rename"
  /\ \/ NoFault /\ tmp' = newData /\ lost' = lost
     \/ /\ Fault /\ lost' = lost \cup {Current}
        /\ \E n \in 0..(Len(newData) - 1) : tmp' = SubSeq(newData, 1, n)
  /\ UNCHANGED <<source, fs, opts, i, basis, newData>>

\* A write that fails has written some of the bytes.
WriteFails ==
  /\ pc = "write" /\ Fault
  /\ \E n \in 0..(Len(newData) - 1) : tmp' = SubSeq(newData, 1, n)
  /\ pc' = "abandon"
  /\ UNCHANGED <<source, fs, opts, lost, i, basis, newData>>

\* Mutant: the old inode is written in place.
RenameTo_InPlace(p) ==
  \E n \in Free(p) :
    LET m == IF dest[p] = None THEN n ELSE dest[p]
    IN /\ dest' = [dest EXCEPT ![p] = m]
       /\ store' = [store EXCEPT ![m] = File(tmp, None)]

\* p's name now denotes the temp file's inode; the old inode keeps its other
\* names, and one without a name is gone.
RenameTo(p) ==
  \E n \in Free(p) :
    /\ dest' = [dest EXCEPT ![p] = n]
    /\ store' = [m \in Inode |->
                   IF m = n THEN File(tmp, None)
                   ELSE IF m = dest[p] /\ \A q \in Path \ {p} : dest[q] # m
                        THEN File(<<>>, None) ELSE store[m]]

Rename ==
  /\ pc = "rename"
  /\ RenameTo(Current)
  /\ tmp' = None
  /\ pc' = IF basis.fromPartial THEN "cleanup" ELSE "attrs"
  /\ UNCHANGED <<source, partial, opts, lost, i, basis, newData, faults>>

RenameFails ==
  /\ pc = "rename" /\ Fault
  /\ pc' = "abandon"
  /\ UNCHANGED <<source, fs, opts, lost, i, tmp, basis, newData>>

\* The used partial-dir file is removed, best-effort.
RemovePartial ==
  /\ pc = "cleanup"
  /\ \/ NoFault /\ partial' = [partial EXCEPT ![Current] = None]
     \/ Fault /\ partial' = partial
  /\ pc' = "attrs"
  /\ UNCHANGED <<source, dest, store, opts, lost, i, tmp, basis, newData>>

\* Mutants: the temp file is not deleted; the partial dir is ignored.
Abandon_KeepsTemp ==
  /\ pc = "abandon" /\ pc' = "failed"
  /\ UNCHANGED <<source, fs, opts, lost, i, tmp, basis, newData, faults>>
Abandon_AlwaysDest ==
  /\ pc = "abandon" /\ pc' = "failed"
  /\ IF opts.partial = "none" THEN UNCHANGED <<dest, store>> ELSE RenameTo(Current)
  /\ tmp' = None
  /\ UNCHANGED <<source, partial, opts, lost, i, basis, newData, faults>>

\* abandonOrKeep: the temp file is deleted, or moved onto the destination
\* (--partial) or into the partial dir; deleted as well when the move fails.
\* Where it cannot be deleted it stays: an unwritable directory refuses both.
Abandon ==
  /\ pc = "abandon"
  /\ \/ /\ opts.partial = "none" /\ NoFault
        /\ tmp' = None /\ UNCHANGED fs
     \/ /\ opts.partial = "keep" /\ NoFault
        /\ RenameTo(Current) /\ tmp' = None /\ UNCHANGED partial
     \/ /\ opts.partial = "dir" /\ NoFault
        /\ partial' = [partial EXCEPT ![Current] = tmp]
        /\ tmp' = None /\ UNCHANGED <<dest, store>>
     \/ /\ Fault /\ UNCHANGED fs
        /\ tmp' = tmp \/ (opts.partial # "none" /\ tmp' = None)
  /\ pc' = "failed"
  /\ UNCHANGED <<source, opts, lost, i, basis, newData>>

\* Mutant: attributes only after a write.
ApplyAttrs_OnlyWritten ==
  /\ pc = "attrs"
  /\ store' = IF basis.data = newData THEN store
              ELSE [store EXCEPT ![dest[Current]].meta = Current]
  /\ pc' = "entry" /\ i' = i + 1
  /\ UNCHANGED <<source, dest, partial, opts, lost, tmp, basis, newData, faults>>

\* ApplyAttributes, also when no content was written.
ApplyAttrs ==
  /\ pc = "attrs"
  /\ store' = [store EXCEPT ![dest[Current]].meta = Current]
  /\ pc' = "entry" /\ i' = i + 1
  /\ UNCHANGED <<source, dest, partial, opts, lost, tmp, basis, newData, faults>>

-----------------------------------------------------------------------------
(* ApplyHardLinks: each member is removed, then linked to the group's head. *)

\* Mutant: a dry run links too.
EndEntries_AlwaysLinks ==
  /\ pc = "entry" /\ i > Len(Entries)
  /\ pc' = "links" /\ i' = 1
  /\ UNCHANGED <<source, fs, opts, lost, tmp, basis, newData, faults>>

EndEntries ==
  /\ pc = "entry" /\ i > Len(Entries)
  /\ pc' = IF opts.dryRun THEN "done" ELSE "links"
  /\ i' = 1
  /\ UNCHANGED <<source, fs, opts, lost, tmp, basis, newData, faults>>

RemoveMember ==
  LET m == Links[i][2]
  IN /\ pc = "links" /\ i <= Len(Links)
     /\ dest' = [dest EXCEPT ![m] = None]
     /\ store' = [n \in Inode |-> IF n = dest[m] /\ \A q \in Path \ {m} : dest[q] # n
                                  THEN File(<<>>, None) ELSE store[n]]
     /\ pc' = "link"
     /\ UNCHANGED <<source, partial, opts, lost, i, tmp, basis, newData, faults>>

\* Mutant: a link that could not be made is passed over.
LinkMember_Ignored ==
  /\ pc = "link"
  /\ pc' = "links" /\ i' = i + 1
  /\ UNCHANGED <<source, fs, opts, lost, tmp, basis, newData, faults>>

LinkMember ==
  /\ pc = "link"
  /\ dest' = [dest EXCEPT ![Links[i][2]] = dest[Links[i][1]]]
  /\ pc' = "links" /\ i' = i + 1
  /\ UNCHANGED <<source, store, partial, opts, lost, tmp, basis, newData, faults>>

Finish ==
  /\ pc = "links" /\ i > Len(Links)
  /\ pc' = "done"
  /\ UNCHANGED <<source, fs, opts, lost, i, tmp, basis, newData, faults>>

-----------------------------------------------------------------------------
(* Failures. *)

\* The connection, the temp file's creation, a chmod, a remove or a link
\* fails: the run stops there with an error and no temp file to deal with.
CallFails ==
  /\ pc \in {"delta", "create", "attrs", "links", "link"} /\ Fault
  /\ pc' = "failed"
  /\ UNCHANGED <<source, fs, opts, lost, i, tmp, basis, newData>>

\* The process is killed. Its temp file stays behind under its own name, which no
\* later run uses.
Crash ==
  /\ pc \notin {"idle", "done", "failed"} /\ Fault
  /\ pc' = "idle" /\ tmp' = None
  /\ UNCHANGED <<source, fs, opts, lost, i, basis, newData>>

Step == \/ SkipSecondary \/ ReadBasis \/ Exchange \/ CreateTemp \/ WriteTemp
        \/ Rename \/ RemovePartial \/ Abandon \/ ApplyAttrs
        \/ EndEntries \/ RemoveMember \/ LinkMember \/ Finish

Next == Begin \/ EditSource \/ Step \/ WriteFails \/ RenameFails \/ CallFails \/ Crash

Spec == Init /\ [][Next]_vars
\* A started run goes on, and somebody starts another one in the end.
FairSpec == Spec /\ WF_vars(Step) /\ WF_vars(Begin)

-----------------------------------------------------------------------------
(* Properties. *)

\* Every variable keeps its type; what is written is always bytes, never nil.
TypeOK ==
  /\ source \in [Path -> Seq(Nat)]
  /\ dest \in [Path -> Inode \cup {None}]
  /\ store \in [Inode -> [data : Seq(Nat), meta : Path \cup {None}]]
  /\ partial \in [Path -> Seq(Nat) \cup {None}]
  /\ opts \in Options
  /\ pc \in {"idle", "entry", "delta", "create", "write", "rename", "cleanup",
             "abandon", "attrs", "links", "link", "done", "failed"}
  /\ i \in 1..(Len(Entries) + Len(Links) + 1)
  /\ tmp \in Seq(Nat) \cup {None}
  /\ basis \in [data : Seq(Nat), existed : BOOLEAN, fromPartial : BOOLEAN,
                action : {"none", "skip", "tail"}]
  /\ newData \in Seq(Nat) /\ lost \subseteq Primary /\ faults \in 0..MaxFaults

\* Copying what is already there, or trusting what is there and appending.
Appended(d, s) == IF Len(d) < Len(s) THEN d \o SubSeq(s, Len(d) + 1, Len(s)) ELSE d

Delta == INSTANCE FileExchange WITH
           old <- basis.data, existed <- basis.existed, new <- source[Current],
           listedSize <- Len(source[Current]), append <- opts.append,
           status <- pc, data <- newData

\* From the delta to the rename Receiver holds what FileExchange promises for the
\* bytes whose signature it sent, in the mode the options ask for, whatever
\* earlier runs left behind; what it renames into place is that, unless the close
\* before has lost some of it.
PromiseKept ==
  /\ pc \in {"create", "write", "rename", "cleanup", "attrs"} => newData = Delta!Promised
  /\ pc = "rename" => Current \in lost \/ tmp = Delta!Promised

\* A destination file is never torn: whatever fails, a reader sees the old
\* content or the whole new content, under --append the old content extended
\* without a trusted byte lost.  Only --partial without a directory
\* deliberately puts a truncated file there, and only a close that reports what
\* no write did, whose error is dropped, lets one pass for whole.
NeverTorn ==
  [][opts.partial # "keep" =>
       \A p \in Primary \ lost : Data(p)' # Data(p) =>
         Data(p)' = IF opts.append = "append" /\ Data(p) # None
                    THEN Appended(Data(p), source[p]) ELSE source[p]]_vars

\* Renaming over a name leaves the other names of its old inode as they were:
\* syncing a file never writes through a hard link of the destination.
NoWriteThrough ==
  [][\A p, q \in Path : p # q /\ Data(p)' # Data(p) => Data(q)' = Data(q)]_vars

\* A dry run plans everything and changes nothing on disk.
DryRunPure == [][opts.dryRun => UNCHANGED fs]_vars

\* "Never leave a stray temp file behind": a run that ends on its own leaves its
\* temp file only where two calls failed, the one it gave the file up for and the
\* removal.  One failing call, whichever it is and wherever the file was to go,
\* leaves none; nor does a run that goes on or succeeds.
NoTempLeft ==
  /\ pc \in {"entry", "links", "link", "done"} => tmp = None
  /\ pc \in {"idle", "failed"} /\ tmp # None => faults >= 2

Finished == pc = "done" /\ ~opts.dryRun

\* A run that reports success has done what its options say.  A plain one
\* leaves every listed path with the source's content; under --partial-dir the content
\* is at its path or still staged in the partial dir; --append and
\* --append-verify leave no file shorter than its source (NeverTorn says what
\* the bytes they added are).  A close that loses bytes goes unnoticed.
DoneMeansCopied ==
  Finished =>
    /\ opts.append = "off" /\ opts.partial # "dir" =>
         /\ \A p \in Primary \ lost : Data(p) = source[p]
         /\ \A k \in 1..Len(Links) : Links[k][1] \notin lost =>
              Data(Links[k][2]) = source[Links[k][2]]
    /\ opts.append = "off" => \A p \in Primary \ lost : source[p] \in {Data(p), partial[p]}
    /\ opts.append # "off" => \A p \in Primary \ lost : Len(Data(p)) >= Len(source[p])

\* After success the members of a link group are one inode.
GroupsLinked ==
  Finished => \A k \in 1..Len(Links) : dest[Links[k][2]] = dest[Links[k][1]]

\* After success a file that shares its inode with no other listed file
\* carries its own attributes, transferred or not.
OwnAttributes ==
  Finished => \A p \in Primary :
    (\A q \in Primary \ {p} : dest[q] # dest[p]) => store[dest[p]].meta = p

\* Runs are repeated: once calls stop failing and the source stops changing,
\* the destination ends up as a copy and stays one, torn files and holes between a
\* remove and a link included; only the further members of a group, which each
\* run links anew, are missing now and then.
EventuallyCopied ==
  /\ <>[](\A p \in Primary : Data(p) = source[p])
  /\ []<>(\A p \in Primary \cup Secondary : Data(p) = source[p])

(* The inductive invariant behind NeverTorn, NoWriteThrough, DryRunPure and     *)
(* NoTempLeft.                                                                  *)

\* The positions of receiveRegularFile's body.
InFile == {"delta", "create", "write", "rename", "cleanup", "abandon", "attrs"}

\* i is a file to transfer, or a link to make.
AtEntry ==
  /\ pc \in InFile => i <= Len(Entries) /\ Current \in Primary
  /\ pc = "link" => i <= Len(Links)

\* A dry run never gets past a delta.
DryRunStops == opts.dryRun => pc \in {"idle", "entry", "delta", "done", "failed"}

\* The basis still describes the destination, and the action the option.
BasisFresh ==
  pc \in {"delta", "create", "write", "rename"} =>
    /\ opts.append = "off" => basis.action = "none"
    /\ opts.append = "verify" => basis.action # "tail"
    /\ opts.append = "append" =>
         IF Data(Current) = None THEN basis.action = "none"
         ELSE /\ basis.data = Data(Current)
              /\ basis.action = IF Len(basis.data) < Len(source[Current])
                                THEN "tail" ELSE "skip"

\* What is about to be written is what was asked for, and only when it was.
NewDataRight ==
  /\ pc \in {"create", "write", "rename"} =>
       basis.action # "skip" /\ newData = Wanted(basis, source[Current])
  /\ pc = "rename" => Current \in lost \/ tmp = newData

\* The action is the one FileExchange's mode calls for.
Asked == pc \in InFile =>
           basis.action = CASE Delta!Mode = "copy" -> "none"
                            [] Delta!Mode = "keep" -> "skip"
                            [] Delta!Mode = "extend" -> "tail"

NoTempOutside == pc \notin {"write", "rename", "abandon", "failed", "idle"} => tmp = None
TempOpen == pc \in {"write", "rename", "abandon"} => tmp \in Seq(Nat)

\* Giving a file up takes one failing call, leaving its temp file another one.
StrayCosts == /\ pc = "abandon" => faults >= 1
              /\ pc \in {"failed", "idle"} /\ tmp # None => faults >= 2

FileInv == /\ TypeOK /\ AtEntry /\ DryRunStops /\ BasisFresh
           /\ NewDataRight /\ NoTempOutside /\ TempOpen /\ StrayCosts

\* (Checked to fail.) The partial-dir file "is also used as a resume basis on a
\* later run, then deleted on success": after success none is left, unless its
\* removal itself failed.
PartialConsumed ==
  Finished /\ opts.partial = "dir" /\ opts.append = "off" /\ faults <= 1
    => \A p \in Primary : partial[p] = None
=============================================================================
