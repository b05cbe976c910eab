--------------------------- MODULE FileSuccessProofs ---------------------------
(* What "success" of a run of FileReceiver means, proved: the contents, the    *)
(* hard links and the attributes of every listed file, whatever earlier runs   *)
(* and failures left in the destination.                                       *)
EXTENDS FileReceiverProofs

\* What a run owes to a file that it has dealt with, if no close lost some of it.
Copied(p) ==
  /\ dest[p] # None
  /\ p \notin lost =>
       /\ opts.append = "off" /\ opts.partial # "dir" => Data(p) = source[p]
       /\ opts.append = "off" => source[p] \in {Data(p), partial[p]}
       /\ opts.append # "off" => Len(Data(p)) >= Len(source[p])

\* The files the running receiver is done with: those before its position, and
\* all of them in the passes that follow.
Behind == IF pc = "entry" \/ pc \in InFile
          THEN {Entries[k] : k \in {n \in 1..Len(Entries) : n < i}} \cap Primary
          ELSE Primary

Working == ~opts.dryRun /\ pc \notin {"idle", "failed"}

\* The members of a link group are one inode of the source.
SourceLinked == \A k \in 1..Len(Links) : source[Links[k][2]] = source[Links[k][1]]

\* Until the rename the basis is what was found at the path, or in the partial dir.
BasisExact ==
  pc \in {"delta", "create", "write", "rename"} =>
    /\ basis.existed <=> dest[Current] # None
    /\ basis.fromPartial => /\ opts.append = "off" /\ opts.partial = "dir"
                            /\ basis.data = partial[Current]
    /\ basis.existed /\ ~basis.fromPartial => basis.data = Data(Current)
    /\ basis.action = "skip" => /\ opts.append # "off" /\ basis.existed
                                /\ Len(basis.data) >= Len(source[Current])
    /\ basis.action = "tail" => /\ opts.append # "off" /\ basis.existed
                                /\ Len(basis.data) < Len(source[Current])

\* Every file the run is done with is copied, and so is the current one when its
\* attributes are applied; before a partial file goes, its content is in place.
CopiedBehind ==
  Working => /\ \A p \in Behind : Copied(p)
             /\ pc = "attrs" => Copied(Current)
             /\ pc = "cleanup" => /\ dest[Current] # None /\ opts.append = "off"
                                  /\ Current \notin lost => Data(Current) = source[Current]

\* The inode of such a file has the attributes of such a file.
AttrsBehind ==
  Working => \A p \in Behind : \E q \in Behind : /\ dest[q] = dest[p]
                                                 /\ store[dest[p]].meta = q

\* The links made so far.
LinkedBehind ==
  Working =>
    /\ pc \in {"links", "link"} =>
         \A k \in 1..Len(Links) : k < i => dest[Links[k][2]] = dest[Links[k][1]]
    /\ pc = "done" => \A k \in 1..Len(Links) : dest[Links[k][2]] = dest[Links[k][1]]

SuccessInv == /\ SourceLinked /\ BasisExact
              /\ CopiedBehind /\ AttrsBehind /\ LinkedBehind
-----------------------------------------------------------------------------
(* What a step leaves alone. *)

\* The step leaves q's name, inode, staged bytes and source as they are.
Kept(q) == /\ dest'[q] = dest[q] /\ (dest[q] # None => store'[dest[q]] = store[dest[q]])
           /\ partial'[q] = partial[q] /\ source'[q] = source[q]

\* Replacing a name touches no other name and no inode that another name has.
LEMMA RenameKeeps ==
  ASSUME FsOK, NEW p \in Path, RenameTo(p)
  PROVE  /\ dest'[p] # None
         /\ \A q \in Path \ {p} : /\ dest'[q] = dest[q]
                                  /\ dest[q] # None => store'[dest[q]] = store[dest[q]]
<1>1. PICK n \in Free(p) :
        /\ dest' = [dest EXCEPT ![p] = n]
        /\ store' = [m \in Inode |->
                       IF m = n THEN File(tmp, None)
                       ELSE IF m = dest[p] /\ \A q \in Path \ {p} : dest[q] # m
                            THEN File(<<>>, None) ELSE store[m]]
  BY DEF RenameTo
<1>2. n \in Inode /\ n # None /\ \A q \in Path \ {p} : dest[q] # n
  BY PathAssumption DEF Free
<1>3. ASSUME NEW q \in Path \ {p}, dest[q] # None
      PROVE  store'[dest[q]] = store[dest[q]]
  <2>1. dest[q] \in Inode /\ dest[q] # n
    BY <1>2, <1>3 DEF FsOK
  <2> QED
    BY <1>1, <2>1
<1> QED
  BY <1>1, <1>2, <1>3 DEF FsOK

\* Unlinking a member touches no other name and no inode that another name has.
LEMMA RemoveKeeps ==
  ASSUME FsOK, i \in Nat \ {0}, RemoveMember, NEW q \in Path, q # Links[i][2]
  PROVE  Kept(q)
<1> DEFINE m == Links[i][2]
<1>1. m \in Path
  BY ListTypes DEF RemoveMember
<1>2. /\ dest' = [dest EXCEPT ![m] = None] /\ q # m
      /\ store' = [n \in Inode |-> IF n = dest[m] /\ \A r \in Path \ {m} : dest[r] # n
                                   THEN File(<<>>, None) ELSE store[n]]
      /\ UNCHANGED <<partial, source>>
  BY DEF RemoveMember
<1> HIDE DEF m
<1>3. ASSUME dest[q] # None
      PROVE  store'[dest[q]] = store[dest[q]]
  <2>1. dest[q] \in Inode
    BY <1>3 DEF FsOK
  <2> QED
    BY <1>2, <2>1
<1> QED
  BY <1>2, <1>3 DEF FsOK, Kept

\* A file that a step leaves alone is as copied as it was.
LEMMA CopiedKept ==
  ASSUME FsOK, NEW p \in Path, Copied(p), Kept(p), opts' = opts, lost \subseteq lost'
  PROVE  Copied(p)'
<1>1. Data(p)' = Data(p)
  BY DEF Data, Kept, Copied
<1> QED
  BY <1>1 DEF Copied, Kept

\* The files behind are listed; the current one is not among them.
LEMMA BehindFacts ==
  ASSUME FileInv
  PROVE  /\ Behind \subseteq Primary /\ Primary \subseteq Path
         /\ pc \in InFile => Current \notin Behind
<1>1. Behind \subseteq Primary /\ Primary \subseteq Path
  BY ListTypes DEF Behind
<1>2. ASSUME pc \in InFile, Current \in Behind
      PROVE  FALSE
  <2>1. i \in 1..Len(Entries)
    BY <1>2, InvFacts DEF FileInv, AtEntry
  <2>2. PICK k \in 1..Len(Entries) : k < i /\ Entries[k] = Entries[i]
    BY <1>2 DEF Behind, Current
  <2>3. k = i
    BY <2>1, <2>2, PathAssumption
  <2> QED
    BY <2>1, <2>2, <2>3
<1> QED
  BY <1>1, <1>2

\* What holds of the files behind, when the step leaves them alone.
LEMMA BehindKept ==
  ASSUME FileInv, CopiedBehind, AttrsBehind, Working, opts' = opts, lost \subseteq lost',
         \A q \in Behind : Kept(q)
  PROVE  /\ \A p \in Behind : Copied(p)'
         /\ \A p \in Behind : \E q \in Behind : /\ dest'[q] = dest'[p]
                                                /\ store'[dest'[p]].meta = q
<1>1. FsOK /\ Behind \subseteq Path
  BY BehindFacts, InvFacts
<1>2. ASSUME NEW p \in Behind
      PROVE  Copied(p)'
  BY <1>1, <1>2, CopiedKept DEF CopiedBehind
<1>3. ASSUME NEW p \in Behind
      PROVE  \E q \in Behind : dest'[q] = dest'[p] /\ store'[dest'[p]].meta = q
  <2>1. PICK q \in Behind : dest[q] = dest[p] /\ store[dest[p]].meta = q
    BY DEF AttrsBehind
  <2>2. dest[p] # None
    BY DEF CopiedBehind, Copied
  <2>3. dest'[p] = dest[p] /\ dest'[q] = dest[q] /\ store'[dest[p]] = store[dest[p]]
    BY <2>1, <2>2 DEF Kept
  <2> QED
    BY <2>1, <2>3
<1> QED
  BY <1>2, <1>3

-----------------------------------------------------------------------------
(* The files behind, as the receiver moves. *)

\* The paths of the entries before position n.
LEMMA BehindMoves ==
  ASSUME NEW n \in Nat \ {0}, n <= Len(Entries)
  PROVE  {Entries[k] : k \in {m \in 1..Len(Entries) : m < n + 1}} =
           {Entries[k] : k \in {m \in 1..Len(Entries) : m < n}} \cup {Entries[n]}
<1>1. Len(Entries) \in Nat
  BY ListTypes
<1>2. {m \in 1..Len(Entries) : m < n + 1} = {m \in 1..Len(Entries) : m < n} \cup {n}
  BY <1>1
<1> QED
  BY <1>2

\* Passing a further member of a link group leaves no file behind that matters.
LEMMA BehindSkip ==
  ASSUME FileInv, SkipSecondary
  PROVE  Behind' = Behind
<1>1. /\ pc = "entry" /\ pc' = "entry" /\ i' = i + 1 /\ i <= Len(Entries)
      /\ i \in Nat \ {0} /\ Entries[i] \notin Primary
  BY InvFacts DEF SkipSecondary, Primary, Current
<1>2. {Entries[k] : k \in {m \in 1..Len(Entries) : m < i + 1}} =
        {Entries[k] : k \in {m \in 1..Len(Entries) : m < i}} \cup {Entries[i]}
  BY <1>1, BehindMoves
<1> QED
  BY <1>1, <1>2 DEF Behind

\* A file is left behind once its attributes are applied.
LEMMA BehindAttrs ==
  ASSUME FileInv, ApplyAttrs
  PROVE  Behind' = Behind \cup {Current}
<1>1. /\ pc \in InFile /\ pc' = "entry" /\ i' = i + 1 /\ i <= Len(Entries)
      /\ i \in Nat \ {0} /\ Entries[i] \in Primary
  BY InvFacts DEF ApplyAttrs, InFile, FileInv, AtEntry, Current
<1>2. {Entries[k] : k \in {m \in 1..Len(Entries) : m < i + 1}} =
        {Entries[k] : k \in {m \in 1..Len(Entries) : m < i}} \cup {Entries[i]}
  BY <1>1, BehindMoves
<1> QED
  BY <1>1, <1>2 DEF Behind, Current

\* At the end of the list every file is behind.
LEMMA BehindEnd ==
  ASSUME FileInv, EndEntries
  PROVE  Behind' = Behind
<1>1. /\ pc = "entry" /\ pc' \in {"links", "done"} /\ i > Len(Entries)
      /\ i \in Nat /\ Len(Entries) \in Nat
  BY InvFacts DEF EndEntries
<1>2. {m \in 1..Len(Entries) : m < i} = 1..Len(Entries)
  BY <1>1
<1>3. {Entries[k] : k \in {m \in 1..Len(Entries) : m < i}} = {Entries[k] : k \in 1..Len(Entries)}
  BY <1>2
<1> QED
  BY <1>1, <1>3 DEF Behind, Primary, InFile

-----------------------------------------------------------------------------
(* The steps. *)

\* A source edit changes the members of a group together.
LEMMA SourceLinkedNext ==
  ASSUME FileInv, SourceLinked, [Next]_vars
  PROVE  SourceLinked'
<1>1. CASE source' = source
  BY <1>1 DEF SourceLinked
<1>2. CASE EditSource
  <2>1. PICK p \in Primary, c \in Content :
          source' = [q \in Path |->
                       IF q = p \/ \E k \in 1..Len(Links) : Links[k] = <<p, q>>
                       THEN c ELSE source[q]]
    BY <1>2 DEF EditSource
  <2>2. ASSUME NEW k \in 1..Len(Links)
        PROVE  source'[Links[k][2]] = source'[Links[k][1]]
    <3>1. /\ Links[k] = <<Links[k][1], Links[k][2]>>
          /\ Links[k][1] \in Path /\ Links[k][2] \in Path
          /\ Links[k][1] \notin Secondary /\ Links[k][2] # p
          /\ source[Links[k][2]] = source[Links[k][1]]
      BY ListTypes, PathAssumption DEF SourceLinked
    <3>2. \A n \in 1..Len(Links) : Links[n] # <<p, Links[k][1]>>
      BY <3>1 DEF Secondary
    <3>3. \A n \in 1..Len(Links) : Links[n] = <<p, Links[k][2]>> => Links[k][1] = p
      BY <3>1, PathAssumption
    <3>4. CASE Links[k][1] = p
      BY <2>1, <3>1, <3>4
    <3>5. CASE Links[k][1] # p
      BY <2>1, <3>1, <3>2, <3>3, <3>5
    <3> QED
      BY <3>4, <3>5
  <2> QED
    BY <2>2 DEF SourceLinked
<1> QED
  BY <1>1, <1>2
  DEF vars, fs, Next, Step, Begin, SkipSecondary, ReadBasis, Exchange,
      CreateTemp, WriteTemp, WriteFails, Rename, RenameFails, RemovePartial, Abandon,
      ApplyAttrs, EndEntries, RemoveMember, LinkMember, Finish, CallFails, Crash

\* The basis is read from the path and stays what it holds until the rename.
LEMMA BasisExactNext ==
  ASSUME FileInv, BasisExact, [Next]_vars
  PROVE  BasisExact'
<1>1. CASE ReadBasis
  <2>1. /\ Data(Current)' = Data(Current) /\ UNCHANGED <<source, dest, partial, opts, i>>
        /\ Current' = Current
    BY <1>1 DEF ReadBasis, Data, Current, fs
  <2> DEFINE existed == dest[Current] # None
             fromPartial == opts.append = "off" /\ opts.partial = "dir"
                            /\ partial[Current] # None
             data == IF fromPartial THEN partial[Current]
                     ELSE IF existed THEN Data(Current) ELSE <<>>
             action == IF opts.append = "off" \/ ~existed THEN "none"
                       ELSE IF Len(data) >= Len(source[Current]) THEN "skip"
                       ELSE IF opts.append = "verify" THEN "none" ELSE "tail"
  <2>2. basis' = [data |-> data, existed |-> existed,
                  fromPartial |-> fromPartial, action |-> action]
    BY <1>1 DEF ReadBasis
  <2>3. basis'.data = data /\ basis'.existed = existed
        /\ basis'.fromPartial = fromPartial /\ basis'.action = action
    BY <2>2
  <2>4. Len(data) \in Nat /\ Len(source[Current]) \in Nat
    <3>1. FsOK /\ Current \in Path /\ source[Current] \in Seq(Nat)
      BY <1>1, InvFacts DEF ReadBasis
    <3>2. partial[Current] \in Seq(Nat) \cup {None}
      BY <3>1 DEF FileInv, TypeOK
    <3>3. data \in Seq(Nat)
      BY <3>1, <3>2, DataType
    <3> QED
      BY <3>1, <3>3
  <2>5. /\ action = "skip" => /\ opts.append # "off" /\ existed
                              /\ Len(data) >= Len(source[Current])
        /\ action = "tail" => /\ opts.append # "off" /\ existed
                              /\ Len(data) < Len(source[Current])
    BY <2>4
  <2> QED
    BY <2>1, <2>3, <2>5 DEF BasisExact
<1>2. CASE /\ pc' \in {"delta", "create", "write", "rename"} => pc \in {"delta", "create", "write"}
           /\ pc' \in {"delta", "create", "write", "rename"} =>
                UNCHANGED <<source, dest, store, partial, opts, i, basis>>
  BY <1>2 DEF BasisExact, Current, Data
<1>3. CASE UNCHANGED vars
  BY <1>3 DEF vars, BasisExact, Current, Data
<1> QED
  BY <1>1, <1>2, <1>3
  DEF fs, Next, Step, Begin, EditSource, SkipSecondary, Exchange,
      CreateTemp, WriteTemp, WriteFails, Rename, RenameFails, RemovePartial, Abandon,
      ApplyAttrs, EndEntries, RemoveMember, LinkMember, Finish, CallFails, Crash

\* What the receiver must know at the attributes of the current file.
AtFile == /\ pc = "attrs" => Copied(Current)
          /\ pc = "cleanup" => /\ dest[Current] # None /\ opts.append = "off"
                               /\ Current \notin lost => Data(Current) = source[Current]

\* A shorter file and the rest of the source are as long as the source.
LEMMA TailLength ==
  ASSUME NEW a \in Seq(Nat), NEW s \in Seq(Nat), Len(a) < Len(s)
  PROVE  Len(a \o SubSeq(s, Len(a) + 1, Len(s))) = Len(s)
<1>1. Len(a) \in Nat /\ Len(s) \in Nat
  OBVIOUS
<1>2. SubSeq(s, Len(a) + 1, Len(s)) \in Seq(Nat)
      /\ Len(SubSeq(s, Len(a) + 1, Len(s))) = Len(s) - Len(a)
  <2>1. Len(a) + 1 \in Int /\ Len(s) \in Int /\ Len(a) + 1 <= Len(s) + 1
    BY <1>1
  <2>2. \A j \in Len(a) + 1 .. Len(s) : s[j] \in Nat
    BY <1>1
  <2>3. Len(SubSeq(s, Len(a) + 1, Len(s))) =
          IF Len(a) + 1 <= Len(s) THEN Len(s) - (Len(a) + 1) + 1 ELSE 0
    BY <2>1, <2>2, SubSeqProperties
  <2> QED
    BY <1>1, <2>1, <2>2, <2>3, SubSeqProperties
<1>3. Len(a \o SubSeq(s, Len(a) + 1, Len(s))) = Len(a) + Len(SubSeq(s, Len(a) + 1, Len(s)))
  BY <1>2, ConcatProperties
<1> QED
  BY <1>1, <1>2, <1>3

\* The new data of the current file: the source, or a file no shorter.
LEMMA NewDataFacts ==
  ASSUME FileInv, BasisExact, pc = "delta", newData' = Wanted(basis, source[Current])
  PROVE  /\ basis.action = "none" => newData' = source[Current]
         /\ opts.append = "off" => basis.action = "none"
         /\ Len(newData') >= Len(source[Current]) \/ newData' = source[Current]
<1>1. /\ basis \in Basis /\ source[Current] \in Seq(Nat)
      /\ opts.append = "off" => basis.action = "none"
  BY InvFacts DEF FileInv, AtEntry, InFile, BasisFresh
<1>2. CASE basis.action = "none"
  BY <1>1, <1>2 DEF Wanted
<1>3. CASE basis.action = "skip"
  BY <1>1, <1>3 DEF Wanted, BasisExact
<1>4. CASE basis.action = "tail"
  <2>1. /\ newData' = basis.data \o SubSeq(source[Current], Len(basis.data) + 1, Len(source[Current]))
        /\ Len(basis.data) < Len(source[Current])
    BY <1>4 DEF Wanted, BasisExact
  <2>2. basis.data \in Seq(Nat) /\ Len(basis.data) \in Nat /\ Len(source[Current]) \in Nat
    BY <1>1 DEF Basis
  <2>3. Len(newData') = Len(source[Current])
    BY <2>1, <2>2, <1>1, TailLength
  <2> QED
    BY <1>1, <1>4, <2>2, <2>3
<1> QED
  BY <1>1, <1>2, <1>3, <1>4 DEF Basis

\* A file without a difference is as its options want it.
LEMMA ExchangeCopies ==
  ASSUME FileInv, BasisExact, Exchange, ~opts.dryRun
  PROVE  AtFile'
<1>1. CASE pc' = "attrs"
  <2>1. /\ ~Transferred /\ newData' = Wanted(basis, source[Current])
        /\ UNCHANGED <<source, dest, store, partial, opts, lost, i>> /\ pc = "delta"
    BY <1>1 DEF Exchange, fs
  <2>2. /\ basis.existed /\ (basis.action = "skip" \/ basis.data = newData')
        /\ dest[Current] # None
    BY <2>1 DEF Transferred, BasisExact
  <2>3. /\ basis.action = "none" => newData' = source[Current]
        /\ opts.append = "off" => basis.action = "none"
        /\ Len(newData') >= Len(source[Current]) \/ newData' = source[Current]
    BY <2>1, NewDataFacts
  <2>4. basis.action = "skip" => newData' = basis.data
    BY <2>1 DEF Wanted
  <2>5. /\ basis.fromPartial => /\ opts.append = "off" /\ opts.partial = "dir"
                                /\ basis.data = partial[Current]
        /\ ~basis.fromPartial => basis.data = Data(Current)
    BY <2>1, <2>2 DEF BasisExact
  <2>6. newData' = basis.data
    BY <2>2, <2>4
  <2>7. opts.append # "off" => Len(Data(Current)) >= Len(source[Current])
    <3>1. source[Current] \in Seq(Nat) /\ Len(source[Current]) \in Nat
      BY <2>1, InvFacts DEF FileInv, AtEntry, InFile
    <3> QED
      BY <2>3, <2>5, <2>6, <3>1
  <2>8. Copied(Current)
    BY <2>2, <2>3, <2>5, <2>6, <2>7 DEF Copied
  <2> QED
    BY <1>1, <2>1, <2>8 DEF AtFile, Copied, Current, Data
<1> QED
  BY <1>1 DEF Exchange, AtFile

\* The renamed file is as its options want it.
LEMMA RenameCopies ==
  ASSUME FileInv, BasisExact, Rename
  PROVE  AtFile' /\ \A q \in Path \ {Current} : Kept(q)
<1>1. PICK p \in Path : p = Current
  BY InvFacts DEF Rename, InFile
<1>2. /\ FsOK /\ tmp \in Seq(Nat) /\ source[p] \in Seq(Nat)
      /\ pc = "rename" /\ UNCHANGED <<source, partial, opts, lost, i>> /\ Current' = p
  BY <1>1, InvFacts
  DEF Rename, FileInv, TempOpen, AtEntry, InFile, Current
<1>3. Data(p)' = tmp /\ dest'[p] # None /\ FsOK'
      /\ \A q \in Path \ {p} : /\ dest'[q] = dest[q]
                               /\ dest[q] # None => store'[dest[q]] = store[dest[q]]
  <2>1. RenameTo(Current)
    BY DEF Rename
  <2>2. RenameTo(p)
    <3>1. PICK n \in Free(Current) :
            /\ dest' = [dest EXCEPT ![Current] = n]
            /\ store' = [m \in Inode |->
                           IF m = n THEN File(tmp, None)
                           ELSE IF m = dest[Current] /\ \A q \in Path \ {Current} : dest[q] # m
                                THEN File(<<>>, None) ELSE store[m]]
      BY <2>1 DEF RenameTo
    <3>2. n \in Free(p)
      BY <1>1, <3>1 DEF Free
    <3> QED
      BY <1>1, <3>1, <3>2 DEF RenameTo
  <2> QED
    BY <1>2, <2>2, RenameFacts, RenameKeeps
<1>4. /\ p \notin lost => tmp = Wanted(basis, source[p])
      /\ basis.action # "skip" /\ basis \in Basis
      /\ opts.append = "off" => basis.action = "none"
  BY <1>1, <1>2, InvFacts DEF FileInv, NewDataRight, BasisFresh
<1>5. p \notin lost /\ basis.action = "none" => tmp = source[p]
  BY <1>4 DEF Wanted
<1>6. ASSUME p \notin lost
      PROVE  Len(tmp) >= Len(source[p])
  <2>1. CASE basis.action = "none"
    BY <1>2, <1>5, <1>6, <2>1
  <2>2. CASE basis.action = "tail"
    <3>1. /\ tmp = basis.data \o SubSeq(source[p], Len(basis.data) + 1, Len(source[p]))
          /\ Len(basis.data) < Len(source[p])
      BY <1>1, <1>2, <1>4, <1>6, <2>2 DEF Wanted, BasisExact
    <3>2. basis.data \in Seq(Nat) /\ source[p] \in Seq(Nat) /\ Len(source[p]) \in Nat
      BY <1>2, <1>4 DEF Basis
    <3>3. Len(tmp) = Len(source[p])
      BY <3>1, <3>2, TailLength
    <3> QED
      BY <3>2, <3>3
  <2> QED
    BY <1>4, <2>1, <2>2 DEF Basis
<1>7. Copied(p)'
  BY <1>2, <1>3, <1>4, <1>5, <1>6 DEF Copied
<1>8. pc' = "cleanup" => opts.append = "off"
  BY <1>2 DEF Rename, BasisExact
<1>9. pc' = "cleanup" => /\ dest'[p] # None /\ opts'.append = "off"
                         /\ p \notin lost' => Data(p)' = source'[p]
  BY <1>2, <1>3, <1>4, <1>5, <1>8
<1>10. AtFile'
  <2>1. Copied(Current)' <=> Copied(p)'
    BY <1>2 DEF Copied, Data
  <2>2. Data(Current)' = Data(p)'
    BY <1>2 DEF Data
  <2> QED
    BY <1>2, <1>7, <1>9, <2>1, <2>2 DEF AtFile
<1> QED
  BY <1>1, <1>2, <1>3, <1>10 DEF Kept

\* Once the content is in place the partial file is not needed.
LEMMA CleanupCopies ==
  ASSUME FileInv, CopiedBehind, Working, RemovePartial
  PROVE  AtFile' /\ \A q \in Path \ {Current} : Kept(q)
<1>1. /\ pc = "cleanup" /\ pc' = "attrs" /\ UNCHANGED <<source, dest, store, opts, lost, i>>
      /\ partial' = [partial EXCEPT ![Current] = None] \/ partial' = partial
      /\ Current \in Path /\ partial \in [Path -> Seq(Nat) \cup {None}]
  BY InvFacts DEF RemovePartial, InFile, FileInv, TypeOK
<1>2. /\ dest[Current] # None /\ opts.append = "off"
      /\ Current \notin lost => Data(Current) = source[Current]
  BY <1>1 DEF CopiedBehind
<1>3. AtFile'
  BY <1>1, <1>2 DEF AtFile, Copied, Current, Data
<1> QED
  BY <1>1, <1>3 DEF Kept

\* The files behind are copied and have the attributes of one of them.
BehindGood == /\ \A p \in Behind : Copied(p)
              /\ \A p \in Behind : \E q \in Behind : /\ dest[q] = dest[p]
                                                     /\ store[dest[p]].meta = q

\* A step that leaves the files behind alone.
LEMMA KeepGood ==
  ASSUME FileInv, SuccessInv, Working, opts' = opts, lost \subseteq lost',
         Behind' = Behind, \A q \in Behind : Kept(q)
  PROVE  BehindGood'
<1>1. /\ \A p \in Behind : Copied(p)'
      /\ \A p \in Behind : \E q \in Behind : /\ dest'[q] = dest'[p]
                                             /\ store'[dest'[p]].meta = q
  BY BehindKept DEF SuccessInv
<1> QED
  BY <1>1 DEF BehindGood

\* The steps that touch neither the file system nor the source.
LEMMA QuietGood ==
  ASSUME FileInv, SuccessInv, Working', ~opts.dryRun,
         \/ SkipSecondary \/ ReadBasis \/ Exchange \/ CreateTemp \/ WriteTemp
         \/ WriteFails \/ RenameFails \/ EndEntries \/ Finish
  PROVE  BehindGood' /\ AtFile'
<1>1. /\ UNCHANGED <<source, dest, store, partial, opts>> /\ lost \subseteq lost'
      /\ pc \notin {"idle", "failed"}
      /\ pc' = "attrs" => Exchange
      /\ pc' # "cleanup"
  BY DEF SkipSecondary, ReadBasis, Exchange, CreateTemp, WriteTemp, WriteFails,
         RenameFails, EndEntries, Finish, fs
<1>2. Working
  BY <1>1 DEF Working
<1>3. Behind' = Behind
  <2>1. CASE SkipSecondary
    BY <2>1, BehindSkip
  <2>2. CASE EndEntries
    BY <2>2, BehindEnd
  <2>3. CASE ReadBasis \/ Exchange \/ CreateTemp \/ WriteTemp \/ WriteFails \/ RenameFails
    <3>1. i' = i /\ pc \in InFile \cup {"entry"} /\ pc' \in InFile \cup {"entry"}
      BY <2>3 DEF ReadBasis, Exchange, CreateTemp, WriteTemp, WriteFails, RenameFails, InFile
    <3> QED
      BY <3>1 DEF Behind
  <2>4. CASE Finish
    BY <2>4 DEF Finish, Behind, InFile
  <2> QED
    BY <2>1, <2>2, <2>3, <2>4
<1>4. \A q \in Behind : Kept(q)
  BY <1>1 DEF Kept
<1>5. BehindGood'
  BY <1>1, <1>2, <1>3, <1>4, KeepGood
<1>6. AtFile'
  <2>1. CASE Exchange
    BY <2>1, ExchangeCopies DEF SuccessInv
  <2>2. CASE ~Exchange
    BY <1>1, <2>2 DEF AtFile
  <2> QED
    BY <2>1, <2>2
<1> QED
  BY <1>5, <1>6

\* The steps that change the current file.
LEMMA FileGood ==
  ASSUME FileInv, SuccessInv, Working, Rename \/ RemovePartial
  PROVE  BehindGood' /\ AtFile'
<1>1. AtFile' /\ \A q \in Path \ {Current} : Kept(q)
  BY RenameCopies, CleanupCopies DEF SuccessInv
<1>2. /\ opts' = opts /\ lost' = lost /\ i' = i /\ pc \in InFile /\ pc' \in InFile
  BY DEF Rename, RemovePartial, InFile
<1>3. Behind' = Behind
  BY <1>2 DEF Behind
<1>4. \A q \in Behind : Kept(q)
  BY <1>1, <1>2, BehindFacts
<1> QED
  BY <1>1, <1>2, <1>3, <1>4, KeepGood

\* Applying attributes: every file of that inode now has those.
LEMMA AttrsGood ==
  ASSUME FileInv, SuccessInv, Working, ApplyAttrs
  PROVE  BehindGood' /\ AtFile'
<1>1. PICK c \in Path : c = Current
  BY InvFacts DEF ApplyAttrs, InFile
<1>2. /\ FsOK /\ FsOK' /\ \A q \in Path : Data(q)' = Data(q)
  BY <1>1, InvFacts, AttrsFacts
<1>3. /\ UNCHANGED <<source, dest, partial, opts, lost>> /\ pc = "attrs" /\ pc' = "entry"
      /\ store' = [store EXCEPT ![dest[c]].meta = c]
  BY <1>1 DEF ApplyAttrs
<1>4. /\ Behind' = Behind \cup {c} /\ Behind \subseteq Path
  BY <1>1, BehindAttrs, BehindFacts
<1>5. \A p \in Behind \cup {c} : Copied(p)
  BY <1>1, <1>3 DEF SuccessInv, CopiedBehind
<1>6. ASSUME NEW p \in Behind \cup {c}
      PROVE  Copied(p)'
  BY <1>2, <1>3, <1>4, <1>5 DEF Copied
<1>7. ASSUME NEW p \in Behind \cup {c}
      PROVE  \E q \in Behind \cup {c} : dest'[q] = dest'[p] /\ store'[dest'[p]].meta = q
  <2>1. p \in Path /\ dest[p] \in Inode
    BY <1>2, <1>4, <1>5 DEF FsOK, Copied
  <2>2. CASE dest[p] = dest[c]
    <3>1. store'[dest[c]].meta = c
      BY <1>2, <1>3, <2>1, <2>2 DEF FsOK
    <3> QED
      BY <1>3, <2>2, <3>1
  <2>3. CASE dest[p] # dest[c]
    <3>1. PICK q \in Behind : dest[q] = dest[p] /\ store[dest[p]].meta = q
      BY <2>3 DEF SuccessInv, AttrsBehind
    <3>2. store'[dest[p]] = store[dest[p]]
      BY <1>2, <1>3, <2>1, <2>3 DEF FsOK
    <3> QED
      BY <1>3, <3>1, <3>2
  <2> QED
    BY <2>2, <2>3
<1> QED
  BY <1>3, <1>4, <1>6, <1>7 DEF BehindGood, AtFile

\* The linking pass touches only further members of link groups.
LEMMA LinkGood ==
  ASSUME FileInv, SuccessInv, Working, RemoveMember \/ LinkMember
  PROVE  BehindGood' /\ AtFile'
<1>1. /\ opts' = opts /\ lost' = lost /\ pc \in {"links", "link"} /\ pc' \in {"links", "link"}
      /\ FsOK /\ i \in Nat \ {0} /\ i <= Len(Links)
  BY InvFacts DEF RemoveMember, LinkMember, FileInv, AtEntry
<1>2. Links[i][2] \notin Primary /\ Links[i][2] \in Path
  BY <1>1, ListTypes
<1>3. Behind' = Behind /\ Behind = Primary
  BY <1>1 DEF Behind, InFile
<1>4. ASSUME NEW q \in Primary
      PROVE  Kept(q)
  <2>1. q # Links[i][2] /\ q \in Path
    BY <1>2, ListTypes
  <2>2. CASE RemoveMember
    BY <1>1, <2>1, <2>2, RemoveKeeps
  <2>3. CASE LinkMember
    BY <1>1, <2>1, <2>3 DEF LinkMember, Kept, FsOK
  <2> QED
    BY <2>2, <2>3
<1>5. BehindGood'
  BY <1>1, <1>3, <1>4, KeepGood
<1> QED
  BY <1>1, <1>5 DEF AtFile

\* The links made so far stay made.
LEMMA LinkedNext ==
  ASSUME FileInv, SuccessInv, [Next]_vars
  PROVE  LinkedBehind'
<1>1. Len(Links) \in Nat /\ i \in Nat \ {0} /\ FsOK
  BY InvFacts
<1>2. CASE RemoveMember \/ LinkMember
  <2> SUFFICES ASSUME Working'
               PROVE  LinkedBehind'
    BY DEF LinkedBehind
  <2>1. /\ Working /\ i \in 1..Len(Links) /\ pc' \in {"links", "link"}
        /\ \A k \in 1..Len(Links) : k < i => dest[Links[k][2]] = dest[Links[k][1]]
    BY <1>1, <1>2
    DEF RemoveMember, LinkMember, Working, SuccessInv, LinkedBehind, FileInv, AtEntry
  <2>2. ASSUME NEW k \in 1..Len(Links), k < i
        PROVE  dest'[Links[k][2]] = dest'[Links[k][1]]
    <3>1. /\ Links[k][1] # Links[i][2] /\ Links[k][2] # Links[i][2]
          /\ Links[k][1] \in Path /\ Links[k][2] \in Path
      BY <1>1, <2>1, <2>2, ListTypes, PathAssumption
    <3>2. dest[Links[k][2]] = dest[Links[k][1]]
      BY <2>1, <2>2
    <3>3. dest'[Links[k][2]] = dest[Links[k][2]] /\ dest'[Links[k][1]] = dest[Links[k][1]]
      BY <1>1, <1>2, <3>1 DEF RemoveMember, LinkMember, FsOK
    <3> QED
      BY <3>2, <3>3
  <2>3. ASSUME LinkMember
        PROVE  dest'[Links[i][2]] = dest'[Links[i][1]]
    <3>1. /\ Links[i][1] # Links[i][2] /\ Links[i][1] \in Path /\ Links[i][2] \in Path
      BY <2>1, ListTypes
    <3> QED
      BY <1>1, <2>3, <3>1 DEF LinkMember, FsOK
  <2>4. i' = IF LinkMember THEN i + 1 ELSE i
    BY <1>2 DEF RemoveMember, LinkMember
  <2>5. ASSUME NEW k \in 1..Len(Links), k < i'
        PROVE  dest'[Links[k][2]] = dest'[Links[k][1]]
    <3>1. k < i \/ (LinkMember /\ k = i)
      BY <1>1, <2>4, <2>5
    <3> QED
      BY <2>2, <2>3, <3>1
  <2> QED
    BY <2>1, <2>5 DEF LinkedBehind
<1>3. CASE Finish
  <2>1. \A k \in 1..Len(Links) : k < i
    BY <1>1, <1>3 DEF Finish
  <2> QED
    BY <1>3, <2>1 DEF Finish, fs, SuccessInv, LinkedBehind, Working
<1>4. CASE EndEntries
  <2>1. \A k \in 1..Len(Links) : ~(k < i')
    BY <1>1, <1>4 DEF EndEntries
  <2> QED
    BY <1>4, <2>1 DEF EndEntries, LinkedBehind, Working
<1>5. CASE UNCHANGED vars
  BY <1>5 DEF vars, SuccessInv, LinkedBehind, Working
<1>6. CASE ~Working' \/ pc' \notin {"links", "link", "done"}
  BY <1>6 DEF LinkedBehind
<1> QED
  BY <1>2, <1>3, <1>4, <1>5, <1>6
  DEF Next, Step, Begin, EditSource, SkipSecondary, ReadBasis, Exchange, CreateTemp,
      WriteTemp, WriteFails, Rename, RenameFails, RemovePartial, Abandon, ApplyAttrs,
      CallFails, Crash, Working

\* The files behind stay copied.
LEMMA CopiedNext ==
  ASSUME FileInv, SuccessInv, [Next]_vars
  PROVE  CopiedBehind' /\ AttrsBehind'
<1> SUFFICES ASSUME Working'
             PROVE  BehindGood' /\ AtFile'
  BY DEF CopiedBehind, AttrsBehind, BehindGood, AtFile
<1>1. CASE Begin
  <2>1. /\ pc' = "entry" /\ i' = 1 /\ Len(Entries) \in Nat
    BY <1>1, InvFacts DEF Begin
  <2>2. {n \in 1..Len(Entries) : n < i'} = {}
    BY <2>1
  <2>3. Behind' = {}
    BY <2>1, <2>2 DEF Behind
  <2> QED
    BY <2>1, <2>3 DEF BehindGood, AtFile
<1>2. CASE UNCHANGED vars
  BY <1>2 DEF vars, SuccessInv, CopiedBehind, AttrsBehind, Working, BehindGood, AtFile,
              Copied, Behind, Current, Data
<1>3. CASE Next /\ ~Begin
  <2>1. ~EditSource /\ ~Abandon /\ ~CallFails /\ ~Crash
    BY DEF EditSource, Abandon, CallFails, Crash, Working
  <2>2. opts' = opts
    BY <1>3, <2>1
    DEF Next, Step, SkipSecondary, ReadBasis, Exchange, CreateTemp, WriteTemp, WriteFails,
        Rename, RenameFails, RemovePartial, ApplyAttrs, EndEntries, RemoveMember,
        LinkMember, Finish
  <2>3. CASE \/ SkipSecondary \/ ReadBasis \/ Exchange \/ CreateTemp \/ WriteTemp
             \/ WriteFails \/ RenameFails \/ EndEntries \/ Finish
    BY <2>2, <2>3, QuietGood DEF Working
  <2>4. CASE Rename \/ RemovePartial \/ ApplyAttrs \/ RemoveMember \/ LinkMember
    <3>1. Working
      BY <2>2, <2>4
      DEF Working, Rename, RemovePartial, ApplyAttrs, RemoveMember, LinkMember
    <3> QED
      BY <2>4, <3>1, FileGood, AttrsGood, LinkGood
  <2> QED
    BY <1>3, <2>1, <2>3, <2>4 DEF Next, Step
<1> QED
  BY <1>1, <1>2, <1>3

-----------------------------------------------------------------------------
(* The theorems. *)

\* What a run knows of the files it has dealt with holds in every behaviour.
THEOREM SuccessInvariant == Spec => []SuccessInv
<1>1. Init => SuccessInv
  <2> SUFFICES ASSUME Init
               PROVE  SuccessInv
    OBVIOUS
  <2> QED
    BY DEF Init, SuccessInv, SourceLinked, BasisExact, CopiedBehind, AttrsBehind,
           LinkedBehind, Working
<1>2. FileInv /\ SuccessInv /\ [Next]_vars => SuccessInv'
  <2> SUFFICES ASSUME FileInv, SuccessInv, [Next]_vars
               PROVE  SuccessInv'
    OBVIOUS
  <2>1. SourceLinked' /\ BasisExact'
    BY SourceLinkedNext, BasisExactNext DEF SuccessInv
  <2> QED
    BY <2>1, CopiedNext, LinkedNext DEF SuccessInv
<1> QED
  BY <1>1, <1>2, FileInvariant, PTL DEF Spec

\* At success every listed file is behind.
LEMMA FinishedFacts ==
  ASSUME FileInv, SuccessInv, Finished
  PROVE  /\ \A p \in Primary : Copied(p)
         /\ \A p \in Primary : \E q \in Primary : dest[q] = dest[p] /\ store[dest[p]].meta = q
         /\ \A k \in 1..Len(Links) : dest[Links[k][2]] = dest[Links[k][1]]
<1>1. Working /\ pc = "done" /\ Behind = Primary
  BY DEF Finished, Working, Behind, InFile
<1> QED
  BY <1>1 DEF SuccessInv, CopiedBehind, AttrsBehind, LinkedBehind

\* A run that reports success has copied what its options say, whatever earlier
\* runs, failures and edits left in the destination.
THEOREM DoneMeansCopiedCorrect == Spec => []DoneMeansCopied
<1>1. FileInv /\ SuccessInv => DoneMeansCopied
  <2> SUFFICES ASSUME FileInv, SuccessInv, Finished
               PROVE  DoneMeansCopied
    BY DEF DoneMeansCopied
  <2>1. \A p \in Primary : Copied(p)
    BY FinishedFacts
  <2>2. ASSUME opts.append = "off", opts.partial # "dir",
               NEW k \in 1..Len(Links), Links[k][1] \notin lost
        PROVE  Data(Links[k][2]) = source[Links[k][2]]
    <3>1. /\ dest[Links[k][2]] = dest[Links[k][1]]
          /\ source[Links[k][2]] = source[Links[k][1]] /\ Links[k][1] \in Primary
      BY FinishedFacts, ListTypes DEF SuccessInv, SourceLinked
    <3>2. Data(Links[k][1]) = source[Links[k][1]]
      BY <2>1, <2>2, <3>1 DEF Copied
    <3> QED
      BY <3>1, <3>2 DEF Data
  <2> QED
    BY <2>1, <2>2 DEF DoneMeansCopied, Copied
<1> QED
  BY <1>1, FileInvariant, SuccessInvariant, PTL

\* After success the members of every link group are one inode.
THEOREM GroupsLinkedCorrect == Spec => []GroupsLinked
<1>1. FileInv /\ SuccessInv => GroupsLinked
  BY FinishedFacts DEF GroupsLinked
<1> QED
  BY <1>1, FileInvariant, SuccessInvariant, PTL

\* After success a file that shares no inode has its own attributes.
THEOREM OwnAttributesCorrect == Spec => []OwnAttributes
<1>1. FileInv /\ SuccessInv => OwnAttributes
  BY FinishedFacts DEF OwnAttributes
<1> QED
  BY <1>1, FileInvariant, SuccessInvariant, PTL
=============================================================================
