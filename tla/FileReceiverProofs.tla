-------------------------- MODULE FileReceiverProofs --------------------------
(* Proofs about FileReceiver: the inductive invariant FileInv and the          *)
(* properties that follow from it for every file list, every set of options    *)
(* and any number of faults; last, that what a run writes is what FileExchange *)
(* promises.                                                                   *)
EXTENDS FileReceiver, SequenceTheorems, TLAPS

FsOK == /\ dest \in [Path -> Inode \cup {None}]
        /\ store \in [Inode -> [data : Seq(Nat), meta : Path \cup {None}]]

\* Links and entries are paths.
LEMMA ListTypes ==
  /\ \A k \in 1..Len(Entries) : Entries[k] \in Path
  /\ \A k \in 1..Len(Links) : /\ Links[k][1] \in Primary /\ Links[k][2] \in Secondary
                              /\ Links[k][1] \in Path /\ Links[k][2] \in Path
  /\ Primary \subseteq Path
  /\ Primary \cap Secondary = {}
  /\ Len(Entries) \in Nat /\ Len(Links) \in Nat
<1>1. /\ \A k \in 1..Len(Entries) : Entries[k] \in Path
      /\ \A k \in 1..Len(Links) : Links[k] \in Path \X Path
      /\ Len(Entries) \in Nat /\ Len(Links) \in Nat
  BY PathAssumption
<1>2. \A k \in 1..Len(Links) : Links[k][1] \in Path /\ Links[k][2] \in Path
  BY <1>1
<1> QED
  BY <1>1, <1>2, PathAssumption DEF Primary, Secondary

\* A file's data is bytes, a missing file's is None.
LEMMA DataType ==
  ASSUME FsOK, NEW p \in Path
  PROVE  /\ dest[p] = None => Data(p) = None
         /\ dest[p] # None => Data(p) = store[dest[p]].data /\ Data(p) \in Seq(Nat)
BY DEF FsOK, Data

\* A rename gives p the temp file's bytes and leaves every other path's alone.
LEMMA RenameFacts ==
  ASSUME FsOK, NEW p \in Path, tmp \in Seq(Nat), RenameTo(p)
  PROVE  /\ FsOK'
         /\ Data(p)' = tmp
         /\ \A q \in Path \ {p} : Data(q)' = Data(q)
<1>1. PICK n \in Free(p) :
        /\ dest' = [dest EXCEPT ![p] = n]
        /\ store' = [m \in Inode |->
                       IF m = n THEN File(tmp, None)
                       ELSE IF m = dest[p] /\ \A q \in Path \ {p} : dest[q] # m
                            THEN File(<<>>, None) ELSE store[m]]
  BY DEF RenameTo
<1>2. n \in Inode /\ n # None /\ \A q \in Path \ {p} : dest[q] # n
  BY PathAssumption DEF Free
<1>3. File(tmp, None) \in [data : Seq(Nat), meta : Path \cup {None}]
      /\ File(<<>>, None) \in [data : Seq(Nat), meta : Path \cup {None}]
  BY DEF File
<1>4. FsOK'
  BY <1>1, <1>2, <1>3 DEF FsOK
<1>5. Data(p)' = tmp
  BY <1>1, <1>2 DEF FsOK, Data, File
<1>6. ASSUME NEW q \in Path \ {p}
      PROVE  Data(q)' = Data(q)
  <2>1. dest'[q] = dest[q]
    BY <1>1 DEF FsOK
  <2>2. CASE dest[q] = None
    BY <2>1, <2>2 DEF Data
  <2>3. CASE dest[q] # None
    <3>1. dest[q] \in Inode /\ dest[q] # n
      BY <1>2, <2>3 DEF FsOK
    <3>2. store'[dest[q]] = store[dest[q]]
      BY <1>1, <3>1
    <3> QED
      BY <2>1, <3>2, <2>3 DEF Data
  <2> QED
    BY <2>2, <2>3
<1> QED
  BY <1>4, <1>5, <1>6

\* Unlinking a member leaves every other path's bytes alone.
LEMMA RemoveFacts ==
  ASSUME FsOK, i \in Nat \ {0}, RemoveMember
  PROVE  /\ FsOK'
         /\ Links[i][2] \in Secondary /\ Links[i][2] \in Path
         /\ \A q \in Path \ {Links[i][2]} : Data(q)' = Data(q)
<1> DEFINE m == Links[i][2]
<1>1. m \in Path /\ m \in Secondary
  BY ListTypes DEF RemoveMember
<1>2. /\ dest' = [dest EXCEPT ![m] = None]
      /\ store' = [n \in Inode |-> IF n = dest[m] /\ \A q \in Path \ {m} : dest[q] # n
                                   THEN File(<<>>, None) ELSE store[n]]
  BY DEF RemoveMember
<1> HIDE DEF m
<1>3. File(<<>>, None) \in [data : Seq(Nat), meta : Path \cup {None}]
  BY DEF File
<1>4. FsOK'
  BY <1>1, <1>2, <1>3 DEF FsOK
<1>5. ASSUME NEW q \in Path \ {m}
      PROVE  Data(q)' = Data(q)
  <2>1. dest'[q] = dest[q]
    BY <1>2 DEF FsOK
  <2>2. CASE dest[q] = None
    BY <2>1, <2>2 DEF Data
  <2>3. CASE dest[q] # None
    <3>1. dest[q] \in Inode
      BY <2>3 DEF FsOK
    <3>2. store'[dest[q]] = store[dest[q]]
      BY <1>2, <3>1
    <3> QED
      BY <2>1, <3>2, <2>3 DEF Data
  <2> QED
    BY <2>2, <2>3
<1> QED
  BY <1>1, <1>4, <1>5 DEF m

\* Linking a member changes only the member.
LEMMA LinkFacts ==
  ASSUME FsOK, i \in 1..Len(Links), LinkMember
  PROVE  /\ FsOK'
         /\ Links[i][2] \in Secondary
         /\ \A q \in Path \ {Links[i][2]} : Data(q)' = Data(q)
<1>1. /\ Links[i][1] \in Path /\ Links[i][2] \in Path /\ Links[i][2] \in Secondary
  BY ListTypes
<1>2. FsOK'
  BY <1>1 DEF FsOK, LinkMember
<1>3. ASSUME NEW q \in Path \ {Links[i][2]}
      PROVE  Data(q)' = Data(q)
  BY <1>1 DEF FsOK, LinkMember, Data
<1> QED
  BY <1>1, <1>2, <1>3

\* Applying attributes changes no bytes.
LEMMA AttrsFacts ==
  ASSUME FsOK, Current \in Path, ApplyAttrs
  PROVE  FsOK' /\ \A q \in Path : Data(q)' = Data(q)
<1>1. /\ dest' = dest
      /\ store' = [store EXCEPT ![dest[Current]].meta = Current]
  BY DEF ApplyAttrs
<1>2. FsOK'
  BY <1>1 DEF FsOK
<1>3. ASSUME NEW q \in Path
      PROVE  Data(q)' = Data(q)
  <2>1. CASE dest[q] = None
    BY <1>1, <2>1 DEF Data
  <2>2. CASE dest[q] # None
    <3>1. dest[q] \in Inode
      BY <2>2 DEF FsOK
    <3>2. store'[dest[q]].data = store[dest[q]].data
      BY <1>1, <3>1 DEF FsOK
    <3> QED
      BY <1>1, <3>2, <2>2 DEF Data
  <2> QED
    BY <2>1, <2>2
<1> QED
  BY <1>2, <1>3

-----------------------------------------------------------------------------
(* The inductive invariant. *)

Basis == [data : Seq(Nat), existed : BOOLEAN, fromPartial : BOOLEAN,
          action : {"none", "skip", "tail"}]

\* What the sender is asked for is bytes.
LEMMA WantedType ==
  ASSUME NEW b \in Basis, NEW s \in Seq(Nat)
  PROVE  Wanted(b, s) \in Seq(Nat)
<1>1. SubSeq(s, Len(b.data) + 1, Len(s)) \in Seq(Nat)
  <2>1. Len(b.data) + 1 \in Int /\ Len(s) \in Int
    BY DEF Basis
  <2>2. \A j \in Len(b.data) + 1 .. Len(s) : s[j] \in Nat
    BY DEF Basis
  <2> QED
    BY <2>1, <2>2, SubSeqProperties
<1>2. b.data \in Seq(Nat)
  BY DEF Basis
<1>3. b.data \o SubSeq(s, Len(b.data) + 1, Len(s)) \in Seq(Nat)
  BY <1>1, <1>2, ConcatProperties
<1> QED
  BY <1>1, <1>2, <1>3 DEF Wanted

\* The bytes of a failed write are the front of the new data.
LEMMA FrontType ==
  ASSUME NEW s \in Seq(Nat), NEW n \in 0..(Len(s) - 1)
  PROVE  SubSeq(s, 1, n) \in Seq(Nat)
<1>1. \A j \in 1..n : s[j] \in Nat
  OBVIOUS
<1> QED
  BY <1>1, SubSeqProperties

\* What the invariant says of the position and the file system.
LEMMA InvFacts ==
  ASSUME FileInv
  PROVE  /\ FsOK /\ i \in Nat \ {0}
         /\ i <= Len(Entries) => Current \in Path /\ source[Current] \in Seq(Nat)
         /\ basis \in Basis
         /\ Len(Entries) \in Nat /\ Len(Links) \in Nat
         /\ pc \in InFile => Current \in Path /\ Current \in Primary
BY ListTypes DEF FileInv, TypeOK, AtEntry, FsOK, Basis, Current

\* The initial states.
LEMMA FileInit ==
  ASSUME Init
  PROVE  FileInv
<1>1. /\ source \in [Path -> Seq(Nat)]
      /\ \A c \in Content : File(c, None) \in [data : Seq(Nat), meta : Path \cup {None}]
  BY ContentAssumption DEF Init, File
<1>2. store \in [Inode -> [data : Seq(Nat), meta : Path \cup {None}]]
  BY <1>1 DEF Init
<1>3. i \in 1..(Len(Entries) + Len(Links) + 1)
  BY ListTypes DEF Init
<1>4. faults \in 0..MaxFaults
  BY FaultAssumption DEF Init
<1>5. TypeOK
  BY <1>1, <1>2, <1>3, <1>4 DEF Init, TypeOK, NoBasis
<1> QED
  BY <1>5 DEF Init, FileInv, AtEntry, InFile, DryRunStops, BasisFresh, NewDataRight,
              NoTempOutside, TempOpen, StrayCosts

\* Between runs: a new run and an edited source.
LEMMA BetweenInv ==
  ASSUME FileInv, Begin \/ EditSource
  PROVE  FileInv'
<1>1. CASE Begin
  <2>1. i' \in 1..(Len(Entries) + Len(Links) + 1)
    BY <1>1, ListTypes DEF Begin
  <2>2. TypeOK'
    BY <1>1, <2>1 DEF Begin, FileInv, TypeOK, fs
  <2> QED
    BY <1>1, <2>2 DEF Begin, FileInv, AtEntry, InFile, DryRunStops, BasisFresh,
                      NewDataRight, NoTempOutside, TempOpen, StrayCosts
<1>2. CASE EditSource
  <2>1. source' \in [Path -> Seq(Nat)]
    BY <1>2, ContentAssumption DEF EditSource, FileInv, TypeOK
  <2>2. faults' \in 0..MaxFaults
    BY <1>2, FaultAssumption DEF EditSource, Fault, FileInv, TypeOK
  <2>3. TypeOK'
    BY <1>2, <2>1, <2>2 DEF EditSource, FileInv, TypeOK, fs
  <2>4. StrayCosts'
    BY <1>2 DEF EditSource, Fault, FileInv, TypeOK, NoTempOutside, StrayCosts
  <2> QED
    BY <1>2, <2>3, <2>4 DEF EditSource, FileInv, AtEntry, InFile, DryRunStops, BasisFresh,
                            NewDataRight, NoTempOutside, TempOpen
<1> QED
  BY <1>1, <1>2

\* The basis read is the destination's, or the partial-dir file without --append.
LEMMA ReadBasisInv ==
  ASSUME FileInv, ReadBasis
  PROVE  FileInv'
<1> DEFINE existed == dest[Current] # None
           fromPartial == opts.append = "off" /\ opts.partial = "dir" /\ partial[Current] # None
           data == IF fromPartial THEN partial[Current]
                   ELSE IF existed THEN Data(Current) ELSE <<>>
           action == IF opts.append = "off" \/ ~existed THEN "none"
                     ELSE IF Len(data) >= Len(source[Current]) THEN "skip"
                     ELSE IF opts.append = "verify" THEN "none" ELSE "tail"
<1>1. /\ FsOK /\ Current \in Path /\ source[Current] \in Seq(Nat)
  BY InvFacts DEF ReadBasis
<1>2. /\ basis' = [data |-> data, existed |-> existed,
                   fromPartial |-> fromPartial, action |-> action]
      /\ pc' = "delta" /\ UNCHANGED <<source, dest, store, partial, opts, lost, i, tmp, newData, faults>>
  BY DEF ReadBasis, fs
<1>3. data \in Seq(Nat)
  <2>1. fromPartial => partial[Current] \in Seq(Nat)
    BY <1>1 DEF FileInv, TypeOK
  <2>2. existed => Data(Current) \in Seq(Nat)
    BY <1>1, DataType
  <2> QED
    BY <2>1, <2>2
<1>4. action \in {"none", "skip", "tail"} /\ existed \in BOOLEAN /\ fromPartial \in BOOLEAN
  OBVIOUS
<1>5. basis' \in Basis
  <2> HIDE DEF data, existed, fromPartial, action
  <2> QED
    BY <1>2, <1>3, <1>4 DEF Basis
<1>6. TypeOK'
  BY <1>2, <1>5 DEF FileInv, TypeOK, Basis
<1>7. AtEntry'
  <2>1. /\ i \in 1..Len(Entries) /\ Current \notin Secondary
        /\ i' = i /\ pc' = "delta"
    BY <1>2, InvFacts DEF ReadBasis
  <2>2. Current \in Primary
    BY <2>1 DEF Primary, Current
  <2> QED
    BY <2>1, <2>2 DEF AtEntry, Current
<1>8. BasisFresh'
  <2>1. Data(Current)' = Data(Current) /\ source[Current]' = source[Current]
    BY <1>2 DEF Data, Current
  <2>2. basis'.data = data /\ basis'.action = action
    BY <1>2
  <2>3. /\ opts'.append = "off" => basis'.action = "none"
        /\ opts'.append = "verify" => basis'.action # "tail"
    BY <1>2, <2>2
  <2>4. CASE dest[Current] = None
    BY <1>1, <1>2, <2>1, <2>2, <2>3, <2>4, DataType DEF BasisFresh
  <2>5. CASE dest[Current] # None
    <3>1. Data(Current) \in Seq(Nat) /\ Data(Current) # None
      BY <1>1, <2>5, DataType, ContentAssumption
    <3>2. opts.append = "append" => /\ basis'.data = Data(Current)
                                    /\ basis'.action = IF Len(data) < Len(source[Current])
                                                       THEN "tail" ELSE "skip"
      <4>1. Len(data) \in Nat /\ Len(source[Current]) \in Nat
        BY <1>1, <1>3
      <4> QED
        BY <2>2, <2>5, <4>1
    <3> QED
      BY <1>2, <2>1, <2>2, <2>3, <3>1, <3>2 DEF BasisFresh
  <2> QED
    BY <2>4, <2>5
<1>9. DryRunStops' /\ NewDataRight' /\ NoTempOutside' /\ TempOpen' /\ StrayCosts'
  BY <1>2
  DEF ReadBasis, FileInv, DryRunStops, NewDataRight, NoTempOutside, TempOpen, StrayCosts
<1> QED
  BY <1>6, <1>7, <1>8, <1>9 DEF FileInv

\* The delta is applied in memory.
LEMMA ExchangeInv ==
  ASSUME FileInv, Exchange
  PROVE  FileInv'
<1>1. /\ Current \in Path /\ source[Current] \in Seq(Nat) /\ basis \in Basis
      /\ i \in Nat \ {0} /\ i <= Len(Entries) /\ Len(Entries) \in Nat /\ Len(Links) \in Nat
  BY InvFacts DEF Exchange, FileInv, AtEntry, InFile
<1>2. newData' \in Seq(Nat)
  BY <1>1, WantedType DEF Exchange
<1>3. i' \in 1..(Len(Entries) + Len(Links) + 1)
  BY <1>1 DEF Exchange
<1>4. TypeOK'
  BY <1>2, <1>3 DEF Exchange, FileInv, TypeOK, fs
<1>5. /\ UNCHANGED <<source, dest, store, opts, tmp, basis>>
      /\ pc = "delta" /\ newData' = Wanted(basis, source[Current])
      /\ \/ opts.dryRun /\ pc' = "entry"
         \/ ~opts.dryRun /\ i' = i /\ pc' = "attrs"
         \/ ~opts.dryRun /\ i' = i /\ pc' = "create" /\ basis.action # "skip"
  BY DEF Exchange, fs, Transferred
<1>6. AtEntry'
  BY <1>5 DEF FileInv, AtEntry, InFile, Current
<1>7. BasisFresh'
  BY <1>5 DEF FileInv, BasisFresh, Current, Data
<1>8. NewDataRight'
  BY <1>5 DEF FileInv, NewDataRight, Current, Wanted
<1>9. DryRunStops' /\ NoTempOutside' /\ TempOpen' /\ StrayCosts'
  BY <1>5 DEF FileInv, DryRunStops, NoTempOutside, TempOpen, StrayCosts
<1> QED
  BY <1>4, <1>6, <1>7, <1>8, <1>9 DEF FileInv

\* The temp file is made and written, wholly or not; nothing else on disk changes.
LEMMA TempInv ==
  ASSUME FileInv, CreateTemp \/ WriteTemp \/ WriteFails \/ RenameFails
  PROVE  FileInv'
<1>1. /\ UNCHANGED <<source, dest, store, partial, opts, i, basis, newData>>
      /\ lost' = lost \/ lost' = lost \cup {Current}
      /\ \/ pc = "create" /\ pc' = "write"
         \/ pc = "write" /\ pc' = "rename" /\ (tmp' = newData \/ Current \in lost')
         \/ pc \in {"write", "rename"} /\ pc' = "abandon" /\ faults' = faults + 1
  BY DEF CreateTemp, WriteTemp, WriteFails, RenameFails, Fault, fs
<1>2. tmp' \in Seq(Nat)
  <2>1. newData \in Seq(Nat)
    BY DEF FileInv, TypeOK
  <2>2. CASE \E n \in 0..(Len(newData) - 1) : tmp' = SubSeq(newData, 1, n)
    BY <2>1, <2>2, FrontType
  <2>3. CASE CreateTemp
    <3>1. <<>> \in Seq(Nat)
      OBVIOUS
    <3> QED
      BY <2>3, <3>1, Zenon DEF CreateTemp
  <2>4. CASE tmp' = newData \/ RenameFails
    BY <2>1, <2>4 DEF RenameFails, FileInv, TempOpen
  <2> QED
    BY <2>2, <2>3, <2>4 DEF WriteTemp, WriteFails
<1>3. faults' \in 0..MaxFaults
  BY FaultAssumption
  DEF CreateTemp, WriteTemp, WriteFails, RenameFails, Fault, NoFault, FileInv, TypeOK
<1>4. TypeOK'
  <2>1. Current \in Primary
    BY <1>1, InvFacts DEF InFile
  <2> QED
    BY <1>1, <1>2, <1>3, <2>1 DEF FileInv, TypeOK
<1>5. AtEntry'
  BY <1>1 DEF FileInv, AtEntry, InFile, Current
<1>6. BasisFresh'
  BY <1>1 DEF FileInv, BasisFresh, Current, Data
<1>7. NewDataRight'
  BY <1>1 DEF FileInv, NewDataRight, Current, Wanted
<1>8. DryRunStops' /\ NoTempOutside' /\ TempOpen' /\ StrayCosts'
  BY <1>1, <1>2 DEF FileInv, TypeOK, DryRunStops, NoTempOutside, TempOpen, StrayCosts
<1> QED
  BY <1>4, <1>5, <1>6, <1>7, <1>8 DEF FileInv

\* The temp file becomes the destination, or is kept or deleted.
LEMMA RenameInv ==
  ASSUME FileInv, Rename \/ RemovePartial \/ Abandon
  PROVE  FileInv'
<1>1. FsOK /\ Current \in Path
  BY InvFacts DEF Rename, RemovePartial, Abandon, InFile
<1>2. /\ UNCHANGED <<source, opts, lost, i, basis, newData>>
      /\ pc' \in {"cleanup", "attrs", "failed"}
      /\ pc \in {"rename", "cleanup", "abandon"}
  BY DEF Rename, RemovePartial, Abandon
<1>3. tmp' = None \/ (pc = "abandon" /\ pc' = "failed" /\ tmp' = tmp /\ faults' = faults + 1)
  BY DEF Rename, RemovePartial, Abandon, Fault, FileInv, NoTempOutside
<1>4. FsOK'
  <2>1. CASE UNCHANGED <<dest, store>>
    BY <1>1, <2>1 DEF FsOK
  <2>2. CASE tmp \in Seq(Nat) /\ RenameTo(Current)
    BY <1>1, <2>2, RenameFacts
  <2> QED
    BY <2>1, <2>2 DEF Rename, RemovePartial, Abandon, FileInv, TempOpen, fs
<1>5. partial' \in [Path -> Seq(Nat) \cup {None}]
  BY <1>1 DEF Rename, RemovePartial, Abandon, FileInv, TempOpen, TypeOK, fs
<1>6. faults' \in 0..MaxFaults
  BY FaultAssumption
  DEF Rename, RemovePartial, Abandon, Fault, NoFault, FileInv, TypeOK
<1>7. TypeOK'
  BY <1>2, <1>3, <1>4, <1>5, <1>6 DEF FsOK, FileInv, TypeOK
<1>8. AtEntry'
  BY <1>2 DEF FileInv, AtEntry, InFile, Current
<1>9. DryRunStops' /\ NoTempOutside' /\ TempOpen'
  BY <1>2, <1>3 DEF FileInv, DryRunStops, NoTempOutside, TempOpen
<1>10. StrayCosts'
  <2>1. pc = "abandon" => faults >= 1 /\ faults \in Nat
    BY FaultAssumption DEF FileInv, StrayCosts, TypeOK
  <2> QED
    BY <1>2, <1>3, <2>1 DEF StrayCosts
<1> QED
  BY <1>2, <1>7, <1>8, <1>9, <1>10 DEF FileInv, BasisFresh, NewDataRight

\* Attributes, and the pass that links.
LEMMA LinkInv ==
  ASSUME FileInv, ApplyAttrs \/ RemoveMember \/ LinkMember
  PROVE  FileInv'
<1>1. FsOK /\ i \in Nat \ {0} /\ Len(Entries) \in Nat /\ Len(Links) \in Nat
  BY InvFacts
<1>2. /\ UNCHANGED <<source, partial, opts, lost, tmp, basis, newData, faults>>
      /\ pc \in {"attrs", "links", "link"} /\ pc' \in {"entry", "links", "link"}
      /\ pc # "attrs" => pc' # "entry"
      /\ pc' = "link" => i' = i /\ i <= Len(Links)
  BY DEF ApplyAttrs, RemoveMember, LinkMember
<1>3. FsOK'
  <2>1. CASE ApplyAttrs
    BY <1>1, <2>1, InvFacts, AttrsFacts DEF ApplyAttrs, InFile
  <2>2. CASE RemoveMember
    BY <1>1, <2>2, RemoveFacts
  <2>3. CASE LinkMember
    BY <1>1, <2>3, LinkFacts DEF LinkMember, FileInv, AtEntry
  <2> QED
    BY <2>1, <2>2, <2>3
<1>4. i' \in 1..(Len(Entries) + Len(Links) + 1)
  BY <1>1 DEF ApplyAttrs, RemoveMember, LinkMember, FileInv, AtEntry, InFile
<1>5. TypeOK'
  BY <1>2, <1>3, <1>4 DEF FsOK, FileInv, TypeOK
<1>6. AtEntry'
  BY <1>2 DEF AtEntry, InFile
<1>7. DryRunStops'
  BY <1>2 DEF FileInv, DryRunStops
<1> QED
  BY <1>2, <1>5, <1>6, <1>7
  DEF FileInv, BasisFresh, NewDataRight, NoTempOutside, TempOpen, StrayCosts

\* The steps that only move on, and the ends of a run.
LEMMA MoveInv ==
  ASSUME FileInv, SkipSecondary \/ EndEntries \/ Finish \/ CallFails \/ Crash
  PROVE  FileInv'
<1>1. i \in Nat \ {0} /\ Len(Entries) \in Nat /\ Len(Links) \in Nat
  BY InvFacts
<1>2. /\ UNCHANGED <<source, dest, store, partial, opts, lost, basis, newData>>
      /\ pc' \in {"idle", "entry", "links", "done", "failed"}
      /\ opts.dryRun => pc' # "links"
  BY DEF SkipSecondary, EndEntries, Finish, CallFails, Crash, fs
<1>3. i' \in 1..(Len(Entries) + Len(Links) + 1)
  BY <1>1 DEF SkipSecondary, EndEntries, Finish, CallFails, Crash, FileInv, TypeOK
<1>4. tmp' = None
  BY DEF SkipSecondary, EndEntries, Finish, CallFails, Crash, FileInv, NoTempOutside
<1>5. faults' \in 0..MaxFaults
  BY FaultAssumption
  DEF SkipSecondary, EndEntries, Finish, CallFails, Crash, Fault, FileInv, TypeOK
<1>6. TypeOK'
  BY <1>2, <1>3, <1>4, <1>5 DEF FileInv, TypeOK
<1> QED
  BY <1>2, <1>4, <1>6
  DEF FileInv, AtEntry, InFile, DryRunStops, BasisFresh, NewDataRight, NoTempOutside, TempOpen,
      StrayCosts

\* Every step preserves the invariant.
LEMMA FileNext ==
  ASSUME FileInv, [Next]_vars
  PROVE  FileInv'
<1>1. CASE UNCHANGED vars
  BY <1>1 DEF vars, FileInv, TypeOK, AtEntry, DryRunStops, BasisFresh, NewDataRight,
              NoTempOutside, TempOpen, StrayCosts, Current, Data
<1>2. CASE Next
  BY <1>2, BetweenInv, ReadBasisInv, ExchangeInv, TempInv, RenameInv, LinkInv, MoveInv
  DEF Next, Step
<1> QED
  BY <1>1, <1>2

-----------------------------------------------------------------------------
(* The theorems. *)

\* The inductive invariant holds of every behaviour.
THEOREM FileInvariant == Spec => []FileInv
<1>1. Init => FileInv
  BY FileInit
<1>2. FileInv /\ [Next]_vars => FileInv'
  BY FileNext
<1> QED
  BY <1>1, <1>2, PTL DEF Spec

\* Type correctness of the receiver's file handling.
THEOREM FileTypeCorrect == Spec => []TypeOK
<1>1. FileInv => TypeOK
  BY DEF FileInv
<1> QED
  BY <1>1, FileInvariant, PTL

\* For any number of failing calls: only a run in which the removal of the temp
\* file failed as well leaves one behind.
THEOREM NoTempLeftCorrect == Spec => []NoTempLeft
<1>1. FileInv => NoTempLeft
  BY DEF FileInv, NoTempOutside, StrayCosts, NoTempLeft
<1> QED
  BY <1>1, FileInvariant, PTL

\* A dry run changes nothing on disk.
THEOREM DryRunPureCorrect == Spec => DryRunPure
<1>1. FileInv /\ [Next]_vars => (opts.dryRun => UNCHANGED fs)
  <2> SUFFICES ASSUME FileInv, [Next]_vars, opts.dryRun
               PROVE  UNCHANGED fs
    OBVIOUS
  <2>1. pc \in {"idle", "entry", "delta", "done", "failed"}
    BY DEF FileInv, DryRunStops
  <2> QED
    BY <2>1
    DEF vars, fs, Next, Step, Begin, EditSource, SkipSecondary, ReadBasis, Exchange,
        CreateTemp, WriteTemp, WriteFails, Rename, RenameFails, RemovePartial, Abandon,
        ApplyAttrs, EndEntries, RemoveMember, LinkMember, Finish, CallFails, Crash
<1> QED
  BY <1>1, FileInvariant, PTL DEF Spec, DryRunPure

\* What a step can do to the bytes at the paths: only the path being renamed
\* over gets the temp file's, or a member of a link group is unlinked or linked.
LEMMA DataStep ==
  ASSUME FileInv, [Next]_vars
  PROVE  \/ \A q \in Path : Data(q)' = Data(q)
         \/ /\ pc = "rename" \/ (pc = "abandon" /\ opts.partial = "keep")
            /\ \E p \in Primary : /\ p = Current /\ Data(p)' = tmp
                                  /\ \A q \in Path \ {p} : Data(q)' = Data(q)
         \/ \E m \in Secondary : \A q \in Path \ {m} : Data(q)' = Data(q)
<1>1. FsOK /\ i \in Nat \ {0} /\ Len(Links) \in Nat
  BY InvFacts
<1>2. CASE UNCHANGED <<dest, store>>
  BY <1>2 DEF Data
<1>3. CASE Rename \/ (pc = "abandon" /\ opts.partial = "keep" /\ RenameTo(Current))
  <2>1. PICK p \in Path : p = Current /\ p \in Primary
    BY <1>3, InvFacts DEF Rename, InFile
  <2>2. RenameTo(p)
    BY <1>3, <2>1 DEF Rename, RenameTo, Free
  <2>3. tmp \in Seq(Nat)
    BY <1>3 DEF Rename, FileInv, TempOpen
  <2>4. /\ Data(p)' = tmp
        /\ \A q \in Path \ {p} : Data(q)' = Data(q)
    BY <1>1, <2>2, <2>3, RenameFacts
  <2> QED
    BY <1>3, <2>1, <2>4 DEF Rename
<1>4. CASE ApplyAttrs
  BY <1>1, <1>4, InvFacts, AttrsFacts DEF ApplyAttrs, InFile
<1>5. CASE RemoveMember
  BY <1>1, <1>5, RemoveFacts
<1>6. CASE LinkMember
  BY <1>1, <1>6, LinkFacts DEF LinkMember, FileInv, AtEntry
<1>7. UNCHANGED <<dest, store>> \/ Rename \/ ApplyAttrs \/ RemoveMember \/ LinkMember
      \/ (pc = "abandon" /\ opts.partial = "keep" /\ RenameTo(Current))
  BY DEF vars, fs, Next, Step, Begin, EditSource, SkipSecondary, ReadBasis, Exchange,
         CreateTemp, WriteTemp, WriteFails, RenameFails, RemovePartial, Abandon,
         EndEntries, Finish, CallFails, Crash
<1> QED
  BY <1>2, <1>3, <1>4, <1>5, <1>6, <1>7

\* Syncing a file never writes through another name of its old inode.
THEOREM NoWriteThroughCorrect == Spec => NoWriteThrough
<1>1. FileInv /\ [Next]_vars =>
        \A p, q \in Path : p # q /\ Data(p)' # Data(p) => Data(q)' = Data(q)
  BY DataStep
<1> QED
  BY <1>1, FileInvariant, PTL DEF Spec, NoWriteThrough

\* The new data of the current file, in NeverTorn's terms.
LEMMA WantedRight ==
  ASSUME FileInv, pc = "rename", Current \notin lost
  PROVE  tmp = IF opts.append = "append" /\ Data(Current) # None
               THEN Appended(Data(Current), source[Current]) ELSE source[Current]
<1>1. /\ tmp = Wanted(basis, source[Current]) /\ basis.action # "skip"
      /\ basis.action \in {"none", "skip", "tail"}
      /\ opts.append \in {"off", "append", "verify"}
  BY OptionAssumption DEF FileInv, NewDataRight, TypeOK, Option
<1>2. /\ opts.append = "off" => basis.action = "none"
      /\ opts.append = "verify" => basis.action # "tail"
      /\ opts.append = "append" =>
           IF Data(Current) = None THEN basis.action = "none"
           ELSE /\ basis.data = Data(Current)
                /\ basis.action = IF Len(basis.data) < Len(source[Current])
                                  THEN "tail" ELSE "skip"
  BY DEF FileInv, BasisFresh
<1> QED
  BY <1>1, <1>2 DEF Wanted, Appended

\* Except for --partial without a directory and for what a close loses, a step replaces a listed file's
\* bytes only by the source's, or under --append by the file's own extended.
THEOREM NeverTornCorrect == Spec => NeverTorn
<1>1. FileInv /\ [Next]_vars =>
        (opts.partial # "keep" =>
           \A p \in Primary \ lost : Data(p)' # Data(p) =>
             Data(p)' = IF opts.append = "append" /\ Data(p) # None
                        THEN Appended(Data(p), source[p]) ELSE source[p])
  <2> SUFFICES ASSUME FileInv, [Next]_vars, opts.partial # "keep",
                      NEW p \in Primary \ lost, Data(p)' # Data(p)
               PROVE  Data(p)' = IF opts.append = "append" /\ Data(p) # None
                                 THEN Appended(Data(p), source[p]) ELSE source[p]
    OBVIOUS
  <2>1. p \in Path /\ p \notin Secondary
    BY ListTypes
  <2>2. pc = "rename" /\ p = Current /\ Data(p)' = tmp
    BY <2>1, DataStep
  <2> QED
    BY <2>2, WantedRight
<1> QED
  BY <1>1, FileInvariant, PTL DEF Spec, NeverTorn

-----------------------------------------------------------------------------
(* The exchange is FileExchange's. *)

Held == {"create", "write", "rename", "cleanup", "attrs"}
PromiseInv == Asked /\ (pc \in Held => newData = Delta!Promised)

\* Asked, one mode at a time.
LEMMA Modes ==
  /\ Delta!Mode \in {"copy", "keep", "extend"}
  /\ Asked <=> pc \in InFile => /\ Delta!Mode = "copy" => basis.action = "none"
                                /\ Delta!Mode = "keep" => basis.action = "skip"
                                /\ Delta!Mode = "extend" => basis.action = "tail"
<1>1. Delta!Mode \in {"copy", "keep", "extend"}
  BY DEF Delta!Mode
<1> QED
  BY <1>1 DEF Asked

\* What is promised stays promised while the file, its basis and the options stay.
LEMMA PromiseFrame ==
  ASSUME UNCHANGED <<source, opts, basis, i>>
  PROVE  Delta!Mode' = Delta!Mode /\ Delta!Promised' = Delta!Promised
<1>1. /\ source' = source /\ opts' = opts /\ basis' = basis /\ Current' = Current
  BY DEF Current
<1>2. Delta!Mode' = Delta!Mode
  BY <1>1 DEF Delta!Mode
<1> QED
  BY <1>1, <1>2 DEF Delta!Promised

\* The action read with the basis is the mode's.
LEMMA ReadBasisAsks ==
  ASSUME FileInv, ReadBasis
  PROVE  PromiseInv'
<1>1. /\ FsOK /\ Current \in Path /\ source[Current] \in Seq(Nat)
      /\ Len(source[Current]) \in Nat /\ opts \in Option
  BY InvFacts, OptionAssumption DEF ReadBasis, FileInv, TypeOK
<1>2. /\ pc' = "delta" /\ Current' = Current /\ source' = source /\ opts' = opts
      /\ basis'.existed = (dest[Current] # None)
      /\ basis'.action = IF opts.append = "off" \/ ~basis'.existed THEN "none"
                         ELSE IF Len(basis'.data) >= Len(source[Current]) THEN "skip"
                         ELSE IF opts.append = "verify" THEN "none" ELSE "tail"
  BY DEF ReadBasis, Current
<1>3. /\ Delta!Mode' = "copy" => basis'.action = "none"
      /\ Delta!Mode' = "keep" => basis'.action = "skip"
      /\ Delta!Mode' = "extend" => basis'.action = "tail"
  <2>1. Delta!Mode' = IF opts.append = "off" \/ ~basis'.existed THEN "copy"
                      ELSE IF Len(basis'.data) >= Len(source[Current]) THEN "keep"
                      ELSE IF opts.append = "verify" THEN "copy" ELSE "extend"
    BY <1>2 DEF Delta!Mode
  <2> QED
    BY <1>2, <2>1
<1>4. (Delta!Mode \in {"copy", "keep", "extend"})'
  BY Modes, PTL
<1>5. Asked'
  BY <1>3, <1>4 DEF Asked
<1> QED
  BY <1>2, <1>5 DEF PromiseInv, Held

\* The bytes that come out are the promised ones.
LEMMA ExchangeKeeps ==
  ASSUME PromiseInv, Exchange
  PROVE  PromiseInv'
<1>1. /\ UNCHANGED <<source, opts, basis>> /\ pc = "delta" /\ pc \in InFile
      /\ newData' = Wanted(basis, source[Current])
      /\ pc' = "entry" \/ (i' = i /\ pc' \in InFile)
  BY DEF Exchange, InFile
<1>2. CASE pc' = "entry"
  BY <1>2 DEF PromiseInv, Asked, InFile, Held
<1>3. CASE i' = i /\ pc' \in InFile
  <2>1. Delta!Mode' = Delta!Mode /\ Delta!Promised' = Delta!Promised
    BY <1>1, <1>3, PromiseFrame
  <2>2. Wanted(basis, source[Current]) = Delta!Promised
    BY <1>1, Modes DEF PromiseInv, Wanted, Delta!Promised
  <2>3. Asked'
    BY <1>1, <2>1 DEF PromiseInv, Asked
  <2> QED
    BY <1>1, <2>1, <2>2, <2>3 DEF PromiseInv
<1> QED
  BY <1>1, <1>2, <1>3

\* Until its attributes are set a file keeps basis and bytes.
LEMMA WriteKeeps ==
  ASSUME PromiseInv, UNCHANGED <<source, opts, basis, i, newData>>,
         pc' \in Held \cup {"abandon"} => pc \in Held \cup {"abandon"},
         pc' \in Held => pc \in Held, pc' # "delta" \/ pc = "delta"
  PROVE  PromiseInv'
<1>1. Delta!Mode' = Delta!Mode /\ Delta!Promised' = Delta!Promised
  BY PromiseFrame
<1>2. pc' \in InFile => pc \in InFile
  BY DEF InFile, Held
<1>3. Asked'
  BY <1>1, <1>2 DEF PromiseInv, Asked
<1> QED
  BY <1>1, <1>3 DEF PromiseInv

LEMMA PromiseNext ==
  ASSUME FileInv, PromiseInv, [Next]_vars
  PROVE  PromiseInv'
<1>1. CASE UNCHANGED vars
  BY <1>1, WriteKeeps DEF vars
<1>2. CASE ReadBasis
  BY <1>2, ReadBasisAsks
<1>3. CASE Exchange
  BY <1>3, ExchangeKeeps
<1>4. CASE CreateTemp \/ WriteTemp \/ WriteFails \/ Rename \/ RenameFails \/ RemovePartial
  <2>1. UNCHANGED <<source, opts, basis, i, newData>> /\ pc \in Held
    BY <1>4 DEF CreateTemp, WriteTemp, WriteFails, Rename, RenameFails, RemovePartial, Held
  <2>2. pc' # "delta"
    BY <1>4 DEF CreateTemp, WriteTemp, WriteFails, Rename, RenameFails, RemovePartial
  <2> QED
    BY <2>1, <2>2, WriteKeeps
<1>5. CASE pc' \notin InFile
  BY <1>5 DEF PromiseInv, Asked, InFile, Held
<1>6. \/ UNCHANGED vars \/ ReadBasis \/ Exchange \/ CreateTemp \/ WriteTemp \/ WriteFails
      \/ Rename \/ RenameFails \/ RemovePartial \/ pc' \notin InFile
  BY DEF Next, Step, Begin, EditSource, SkipSecondary, Abandon, ApplyAttrs, EndEntries,
         RemoveMember, LinkMember, Finish, CallFails, Crash, InFile
<1> QED
  BY <1>1, <1>2, <1>3, <1>4, <1>5, <1>6

\* For every tree, every option set and every history of failed, killed and repeated
\* runs, what Receiver holds and renames into place is what FileExchange promises
\* for the bytes it signed: its one-step Exchange is DeltaSync's, seen from outside.
THEOREM PromiseKeptCorrect == Spec => []PromiseKept
<1>1. Init => PromiseInv
  BY DEF Init, PromiseInv, Asked, InFile, Held
<1>2. FileInv /\ PromiseInv /\ [Next]_vars => PromiseInv'
  BY PromiseNext
<1>3. FileInv /\ PromiseInv => PromiseKept
  BY DEF FileInv, NewDataRight, PromiseInv, PromiseKept, Held
<1> QED
  BY <1>1, <1>2, <1>3, FileInvariant, PTL DEF Spec
=============================================================================
