--------------------------- MODULE DeltaSyncProofs ---------------------------
(***************************************************************************)
(* Proof that the delta exchange rebuilds the promised bytes, for every     *)
(* pair of files and every block size; then that roll() is right for every  *)
(* window and modulus, that no block of the old file is sent again, and     *)
(* that the whole is one step of FileExchange.                              *)
(***************************************************************************)
EXTENDS DeltaSync, SequenceTheorems, WellFoundedInduction, TLAPS

Op == [kind : {"copy", "data"}, block : Nat, bytes : Literal]

-----------------------------------------------------------------------------
(* Files and pieces of files. *)

\* A file is a bounded sequence of bytes.
LEMMA FileIsSeq ==
  ASSUME NEW f \in File
  PROVE  f \in Seq(Byte) /\ Len(f) \in 0..MaxLen
BY SizeAssumption DEF File

\* Every bounded sequence of bytes is a file.
LEMMA SeqIsFile ==
  ASSUME NEW s \in Seq(Byte), Len(s) <= MaxLen
  PROVE  s \in File
BY SizeAssumption DEF File

\* The bytes of a file from offset a up to offset b.
LEMMA Piece ==
  ASSUME NEW s \in Seq(Byte), NEW a \in Nat, NEW b \in Nat, b <= Len(s)
  PROVE  /\ SubSeq(s, a + 1, b) \in Seq(Byte)
         /\ Len(SubSeq(s, a + 1, b)) = IF a <= b THEN b - a ELSE 0
BY SubSeqProperties

\* Two adjacent pieces make one.
LEMMA Join ==
  ASSUME NEW s \in Seq(Byte), NEW a \in Nat, NEW b \in Nat, NEW c \in Nat,
         a <= b, b <= c, c <= Len(s)
  PROVE  SubSeq(s, a + 1, b) \o SubSeq(s, b + 1, c) = SubSeq(s, a + 1, c)
BY ConcatAdjacentSubSeq

\* The same at the front of the file.
LEMMA JoinFront ==
  ASSUME NEW s \in Seq(Byte), NEW b \in Nat, NEW c \in Nat, b <= c, c <= Len(s)
  PROVE  /\ SubSeq(s, 1, b) \o SubSeq(s, b + 1, c) = SubSeq(s, 1, c)
         /\ SubSeq(s, 1, c) \in Seq(Byte)
<1>1. 1 \in 1..Len(s) + 1 /\ b \in 1 - 1..Len(s) /\ c \in b..Len(s)
  OBVIOUS
<1>2. SubSeq(s, 1, b) \o SubSeq(s, b + 1, c) = SubSeq(s, 1, c)
  BY <1>1, ConcatAdjacentSubSeq
<1>3. SubSeq(s, 1, c) \in Seq(Byte)
  BY SubSeqProperties
<1> QED
  BY <1>2, <1>3

\* A piece grows by one byte.
LEMMA Grow ==
  ASSUME NEW s \in Seq(Byte), NEW a \in Nat, NEW b \in Nat, a <= b, b < Len(s)
  PROVE  SubSeq(s, a + 1, b + 1) = Append(SubSeq(s, a + 1, b), s[b + 1])
<1>1. a + 1 \in 1..Len(s) /\ b + 1 \in a + 1..Len(s) /\ (b + 1) - 1 = b
  OBVIOUS
<1>2. SubSeq(s, a + 1, b + 1) = SubSeq(s, a + 1, b) \o <<s[b + 1]>>
  BY <1>1, SubSeqRecursiveSecond
<1>3. SubSeq(s, a + 1, b) \in Seq(Byte) /\ s[b + 1] \in Byte
  BY <1>1, Piece, ElementOfSeq
<1> QED
  BY <1>2, <1>3, AppendIsConcat

\* The promised bytes are a sequence of bytes.
LEMMA ExpectedType ==
  ASSUME TypeOK
  PROVE  Expected \in Seq(Byte)
<1>1. /\ old \in Seq(Byte) /\ new \in Seq(Byte)
      /\ Len(old) \in Nat /\ Len(new) \in Nat
  BY FileIsSeq DEF TypeOK
<1>2. SubSeq(new, Len(old) + 1, Len(new)) \in Seq(Byte)
  BY <1>1, Piece
<1>3. old \o SubSeq(new, Len(old) + 1, Len(new)) \in Seq(Byte)
  BY <1>1, <1>2, ConcatProperties
<1> QED
  BY <1>1, <1>3 DEF Expected, TypeOK

\* What an accepted append promises: the old bytes, then the sender's tail.
LEMMA ExpectedTail ==
  ASSUME TypeOK, action = "tail", Len(old) <= Len(new)
  PROVE  /\ Len(Expected) = Len(new)
         /\ SubSeq(Expected, 1, Len(old)) = old
         /\ SubSeq(Expected, Len(old) + 1, Len(new))
              = SubSeq(new, Len(old) + 1, Len(new))
<1> DEFINE tail == SubSeq(new, Len(old) + 1, Len(new))
<1>1. /\ old \in Seq(Byte) /\ new \in Seq(Byte)
      /\ Len(old) \in Nat /\ Len(new) \in Nat
  BY FileIsSeq DEF TypeOK
<1>2. tail \in Seq(Byte) /\ Len(tail) = Len(new) - Len(old)
  BY <1>1, Piece
<1>3. Expected = old \o tail
  BY DEF Expected
<1>4. Len(Expected) = Len(new)
  BY <1>1, <1>2, <1>3, ConcatProperties
<1>5. Expected \in Seq(Byte)
  BY ExpectedType
<1>6. SubSeq(Expected, 1, Len(old)) = old
  <2>1. SubSeq(Expected, 1, Len(old)) \in Seq(Byte)
        /\ Len(SubSeq(Expected, 1, Len(old))) = Len(old)
    BY <1>1, <1>4, <1>5, Piece
  <2>2. \A i \in 1..Len(old) : SubSeq(Expected, 1, Len(old))[i] = old[i]
    BY <1>1, <1>2, <1>3, <1>4, <1>5, ConcatProperties
  <2> QED
    BY <2>1, <2>2, <1>1, SeqEqual
<1>7. SubSeq(Expected, Len(old) + 1, Len(new)) = tail
  <2> DEFINE back == SubSeq(Expected, Len(old) + 1, Len(new))
  <2>1. back \in Seq(Byte) /\ Len(back) = Len(tail)
    BY <1>1, <1>2, <1>4, <1>5, Piece
  <2>2. \A i \in 1..Len(tail) : back[i] = tail[i]
    BY <1>1, <1>2, <1>3, <1>4, <1>5, ConcatProperties
  <2> QED
    BY <2>1, <2>2, <1>2, SeqEqual
<1> QED
  BY <1>4, <1>6, <1>7

-----------------------------------------------------------------------------
(* Tilings. *)

\* Adding one operation that writes the next bytes keeps the tiling.
LEMMA TileAppend ==
  ASSUME NEW o \in Seq(Op), NEW e \in Seq(0..MaxLen), Len(e) = Len(o),
         Tiles(o, e), NEW op \in Op, NEW last \in 0..MaxLen,
         LastEnd(e) <= last, last <= Len(Expected),
         Meaning(op) = SubSeq(Expected, LastEnd(e) + 1, last),
         op.kind = "copy" => ValidCopy(op)
  PROVE  /\ Tiles(Append(o, op), Append(e, last))
         /\ LastEnd(Append(e, last)) = last
         /\ Append(o, op) \in Seq(Op) /\ Append(e, last) \in Seq(0..MaxLen)
         /\ Len(Append(o, op)) = Len(Append(e, last))
<1> DEFINE o2 == Append(o, op)
           e2 == Append(e, last)
<1>1. /\ o2 \in Seq(Op) /\ Len(o2) = Len(o) + 1 /\ o2[Len(o) + 1] = op
      /\ \A i \in 1..Len(o) : o2[i] = o[i]
  BY AppendProperties
<1>2. /\ e2 \in Seq(0..MaxLen) /\ Len(e2) = Len(e) + 1 /\ e2[Len(e) + 1] = last
      /\ \A i \in 1..Len(e) : e2[i] = e[i]
  BY AppendProperties
<1> HIDE DEF o2, e2
<1>3. LastEnd(e2) = last
  BY <1>2 DEF LastEnd
<1>4. StartOf(e2, Len(o) + 1) = LastEnd(e)
  BY <1>2 DEF StartOf, LastEnd
<1>5. \A i \in 1..Len(o) : StartOf(e2, i) = StartOf(e, i)
  BY <1>2 DEF StartOf
<1>6. Tiles(o2, e2)
  <2> SUFFICES ASSUME NEW i \in 1..Len(o2)
               PROVE  /\ StartOf(e2, i) <= e2[i] /\ e2[i] <= Len(Expected)
                      /\ Meaning(o2[i]) = SubSeq(Expected, StartOf(e2, i) + 1, e2[i])
                      /\ o2[i].kind = "copy" => ValidCopy(o2[i])
    BY DEF Tiles
  <2>1. CASE i = Len(o) + 1
    BY <2>1, <1>1, <1>2, <1>4
  <2>2. CASE i \in 1..Len(o)
    BY <2>2, <1>1, <1>2, <1>5 DEF Tiles
  <2> QED
    BY <2>1, <2>2, <1>1
<1> QED
  BY <1>1, <1>2, <1>3, <1>6 DEF o2, e2

\* Flushing the pending literal brings the tiling up to pos.
LEMMA TileFlush ==
  ASSUME IInv, Scanning
  PROVE  /\ Tiles(FlushedOps, FlushedEnds)
         /\ LastEnd(FlushedEnds) = pos
         /\ FlushedOps \in Seq(Op) /\ FlushedEnds \in Seq(0..MaxLen)
         /\ Len(FlushedOps) = Len(FlushedEnds)
<1>1. /\ new \in Seq(Byte) /\ Len(new) \in 0..MaxLen
      /\ pos \in 0..Len(new) /\ pos \in 0..MaxLen
  BY FileIsSeq, SizeAssumption DEF IInv, TypeOK
<1>2. Expected = new
  BY DEF Scanning, Expected
<1>3. /\ ops \in Seq(Op) /\ ends \in Seq(0..MaxLen) /\ Len(ends) = Len(ops)
      /\ LastEnd(ends) \in Nat
  BY SizeAssumption DEF IInv, TypeOK, Op, LastEnd
<1>4. /\ Tiles(ops, ends) /\ LastEnd(ends) <= pos
      /\ pending = SubSeq(new, LastEnd(ends) + 1, pos)
  BY DEF IInv, ScanInv, Scanning
<1>5. Len(pending) = pos - LastEnd(ends)
  BY <1>1, <1>3, <1>4, Piece
<1>6. CASE pending = <<>>
  BY <1>6, <1>1, <1>3, <1>4, <1>5 DEF FlushedOps, FlushedEnds
<1>7. CASE pending # <<>>
  <2> DEFINE op == DataOp(pending)
  <2>1. op \in Op
    BY DEF IInv, TypeOK, Op, DataOp
  <2>2. /\ Meaning(op) = SubSeq(Expected, LastEnd(ends) + 1, pos)
        /\ op.kind # "copy"
    BY <1>2, <1>4 DEF Meaning, DataOp
  <2>3. FlushedOps = Append(ops, op) /\ FlushedEnds = Append(ends, pos)
    BY <1>7 DEF FlushedOps, FlushedEnds
  <2> HIDE DEF op
  <2>4. pos <= Len(Expected)
    BY <1>1, <1>2
  <2> QED
    BY <1>1, <1>3, <1>4, <2>1, <2>2, <2>3, <2>4, TileAppend
<1> QED
  BY <1>6, <1>7

-----------------------------------------------------------------------------
(* Blocks. *)

\* A file of n bytes has a whole number of blocks.
LEMMA BlockCount ==
  ASSUME NEW n \in Nat, NEW d \in Nat \ {0}
  PROVE  (n + d - 1) \div d \in Nat
OBVIOUS

\* Every block of a signature starts inside the file.
LEMMA BlockStart ==
  ASSUME NEW n \in Nat, NEW d \in Nat \ {0}, NEW i \in 1..((n + d - 1) \div d)
  PROVE  (i - 1) * d \in Nat /\ (i - 1) * d < n
<1> DEFINE q == (n + d - 1) \div d
<1>1. q \in Nat /\ q * d <= n + d - 1
  OBVIOUS
<1>2. i \in Nat /\ i - 1 \in Nat /\ i - 1 <= q - 1
  BY <1>1
<1>3. (i - 1) * d <= (q - 1) * d
  BY <1>1, <1>2, Z3
<1>4. (q - 1) * d = q * d - d
  BY <1>1, Z3
<1>5. (i - 1) * d \in Nat
  BY <1>2, Z3
<1> QED
  BY <1>1, <1>3, <1>4, <1>5

\* A block whose strong checksum equals a full window's is that window: it is
\* a whole block, and a copy of it is accepted by ApplyDelta.
LEMMA BlockMatch ==
  ASSUME TypeOK, sig = GenerateSignature(old), NEW i \in 1..Len(sig.blocks),
         pos + DefaultBlockSize <= Len(new),
         sig.blocks[i].strong = Strong(Window)
  PROVE  /\ BlockBytes(old, sig.blockSize, i - 1)
              = SubSeq(new, pos + 1, pos + DefaultBlockSize)
         /\ ValidCopy(CopyOp(i - 1))
<1> DEFINE D == DefaultBlockSize
           block == BlockBytes(old, D, i - 1)
<1>1. /\ old \in Seq(Byte) /\ new \in Seq(Byte)
      /\ Len(old) \in 0..MaxLen /\ Len(new) \in 0..MaxLen /\ pos \in Nat
      /\ D \in Nat \ {0} /\ MaxLen \in Nat
  BY FileIsSeq, SizeAssumption DEF TypeOK
<1>2. sig.blockSize = D /\ blockSize = D
  BY <1>1 DEF GenerateSignature, blockSize
<1>3. Len(sig.blocks) = (Len(old) + D - 1) \div D /\ sig.blocks[i].strong = Strong(block)
  <2>0. Len(old) \in Nat /\ D \in Nat \ {0}
    BY <1>1
  <2>1. (Len(old) + D - 1) \div D \in Nat
    BY ONLY <2>0, BlockCount
  <2> QED
    BY <2>1 DEF GenerateSignature
<1>4. (i - 1) * D < Len(old) /\ (i - 1) * D \in Nat
  BY <1>1, <1>3, BlockStart
<1>5. Window = SubSeq(new, pos + 1, pos + D) /\ Window \in File
  <2>1. Window = SubSeq(new, pos + 1, pos + D)
    BY <1>2 DEF Window
  <2>2. Window \in Seq(Byte) /\ Len(Window) = D
    BY <1>1, <2>1, Piece
  <2>3. D <= MaxLen
    BY <1>1
  <2> HIDE DEF D
  <2>4. Window \in File
    BY <2>2, <2>3, SeqIsFile
  <2> QED
    BY <2>1, <2>4
<1>6. block \in File
  <2> DEFINE start == (i - 1) * D
             top == IF start + D > Len(old) THEN Len(old) ELSE start + D
  <2>0. start \in Nat
    BY <1>4
  <2>2. block = SubSeq(old, start + 1, top)
    BY DEF BlockBytes
  <2> HIDE DEF start, block, D
  <2>1. top \in Nat /\ top <= Len(old)
    BY <1>1, <2>0
  <2> HIDE DEF top
  <2>3. block \in Seq(Byte) /\ Len(block) <= Len(old)
    BY <1>1, <2>0, <2>1, <2>2, Piece
  <2> QED
    BY <1>1, <2>3, SeqIsFile
<1>7. block = Window
  BY <1>3, <1>5, <1>6, StrongAssumption
<1> QED
  BY <1>1, <1>2, <1>4, <1>5, <1>7 DEF ValidCopy, CopyOp

-----------------------------------------------------------------------------
(* The steps. *)

\* The start of an exchange satisfies the invariant: nothing is promised or written yet.
LEMMA InitInv ==
  ASSUME Init
  PROVE  IInv
<1>1. /\ old \in Seq(Byte) /\ new \in Seq(Byte) /\ Len(new) \in Nat
  BY FileIsSeq DEF Init
<1>2. TypeOK
  BY <1>1 DEF Init, TypeOK, NoSignature, Literal
<1> QED
  BY <1>2 DEF Init, IInv, Chosen, ScanInv, ApplyInv, WritesPrefix, Reconstructs,
              OnlyDiminishedFails

\* receiveRegularFile's choice of signature and action establishes Chosen.
LEMMA SignInv ==
  ASSUME IInv, Sign
  PROVE  IInv'
<1>1. Len(old) \in Nat /\ Len(new) \in Nat
  BY FileIsSeq DEF IInv, TypeOK
<1>2. TypeOK'
  BY <1>1, SizeAssumption
  DEF IInv, TypeOK, Sign, inputs, GenerateSignature, AppendSignature, NoSignature
<1>3. /\ ops' = <<>> /\ ends' = <<>> /\ pending' = <<>> /\ pos' = 0 /\ weak' = NoWeak
      /\ phase' = "scan" /\ applied' = 0 /\ out' = <<>>
      /\ action' = "none" => sig' = GenerateSignature(old)
      /\ action' = "tail" => sig' = AppendSignature(old)
      /\ old' = old /\ new' = new
  <2>1. ends = <<>>
    BY EmptySeq DEF IInv, TypeOK, Chosen, Sign
  <2> QED
    BY <2>1 DEF IInv, Chosen, Sign, inputs
<1>4. Chosen'
  BY <1>3 DEF Chosen
<1>5. ScanInv'
  <2>1. SubSeq(new, 1, 0) = <<>>
    BY SubSeqEmpty
  <2> QED
    BY <1>3, <2>1 DEF ScanInv, LastEnd
<1>6. Tiles(ops, ends)'
  BY <1>3 DEF Tiles
<1> QED
  BY <1>2, <1>3, <1>4, <1>5, <1>6
  DEF IInv, ApplyInv, WritesPrefix, Reconstructs, OnlyDiminishedFails

\* A skipped file sends no operation, so there is nothing to tile.
LEMMA SkipFileInv ==
  ASSUME IInv, SkipFile
  PROVE  IInv'
<1>1. TypeOK'
  BY DEF IInv, TypeOK, SkipFile, inputs
<1>2. Chosen'
  BY DEF IInv, Chosen, SkipFile, inputs
<1>3. ops' = <<>>
  BY DEF IInv, ScanInv, SkipFile
<1> QED
  BY <1>1, <1>2, <1>3
  DEF IInv, SkipFile, ScanInv, ApplyInv, Tiles, WritesPrefix, Reconstructs,
      OnlyDiminishedFails

\* The only failure on the sending side: the source shrank below the trusted bytes.
LEMMA DiminishedInv ==
  ASSUME IInv, Diminished
  PROVE  IInv'
<1>1. TypeOK'
  BY DEF IInv, TypeOK, Diminished, inputs
<1>2. Chosen'
  BY DEF IInv, Chosen, Diminished, inputs
<1>3. OnlyDiminishedFails'
  BY DEF IInv, Chosen, Diminished, inputs, AppendSignature, OnlyDiminishedFails
<1> QED
  BY <1>1, <1>2, <1>3
  DEF IInv, Diminished, ScanInv, ApplyInv, WritesPrefix, Reconstructs

\* The trusted copy and the literal tail of appendTailOps tile the promised bytes.
LEMMA AppendTailInv ==
  ASSUME IInv, AppendTail
  PROVE  IInv'
<1> DEFINE tail == SubSeq(new, Len(old) + 1, Len(new))
           head == SubSeq(Expected, 1, Len(old))
<1>1. /\ old \in Seq(Byte) /\ new \in Seq(Byte) /\ action = "tail" /\ phase = "scan"
      /\ Len(old) \in 0..MaxLen /\ Len(new) \in 0..MaxLen /\ MaxLen \in Nat
  BY FileIsSeq, SizeAssumption DEF IInv, TypeOK, AppendTail
<1>2. sig = AppendSignature(old) /\ sig.blockSize = Len(old) /\ Len(old) <= Len(new)
  BY <1>1 DEF IInv, Chosen, AppendTail, AppendSignature
<1>3. /\ Len(Expected) = Len(new) /\ head = old
      /\ SubSeq(Expected, Len(old) + 1, Len(new)) = tail
      /\ tail \in Seq(Byte) /\ Len(tail) = Len(new) - Len(old)
  BY <1>1, <1>2, ExpectedTail, Piece DEF IInv
<1>0. ops = <<>> /\ ends = <<>>
  BY <1>1, EmptySeq DEF IInv, ScanInv, TypeOK
<1>4. /\ Tiles(ops, ends) /\ LastEnd(ends) = 0
      /\ ops \in Seq(Op) /\ ends \in Seq(0..MaxLen) /\ Len(ends) = Len(ops)
  BY <1>1, <1>0 DEF IInv, TypeOK, LastEnd, Op
<1> DEFINE o1 == IF Len(old) > 0 THEN <<CopyOp(0)>> ELSE <<>>
           e1 == IF Len(old) > 0 THEN <<Len(old)>> ELSE <<>>
           o2 == o1 \o (IF tail # <<>> THEN <<DataOp(tail)>> ELSE <<>>)
           e2 == e1 \o (IF tail # <<>> THEN <<Len(new)>> ELSE <<>>)
<1>5. /\ Tiles(o1, e1) /\ LastEnd(e1) = Len(old)
      /\ o1 \in Seq(Op) /\ e1 \in Seq(0..MaxLen) /\ Len(o1) = Len(e1)
  <2>1. CASE Len(old) = 0
    BY <2>1, <1>4, <1>0
  <2>2. CASE Len(old) > 0
    <3>1. CopyOp(0) \in Op /\ CopyOp(0).kind = "copy"
      BY EmptySeq DEF CopyOp, Op, Literal
    <3>2. BlockBytes(old, Len(old), 0) = SubSeq(old, 1, Len(old))
      <4>1. 0 * Len(old) + 1 = 1 /\ 0 * Len(old) + Len(old) = Len(old)
        BY <1>1
      <4> QED
        BY <4>1 DEF BlockBytes
    <3>3. SubSeq(old, 1, Len(old)) = old
      BY <1>1, SubSeqFull
    <3>4. Meaning(CopyOp(0)) = SubSeq(Expected, LastEnd(ends) + 1, Len(old))
      BY <1>2, <1>3, <1>4, <3>2, <3>3 DEF Meaning, CopyOp
    <3>5. ValidCopy(CopyOp(0))
      BY <1>1, <1>2, <2>2 DEF ValidCopy, CopyOp
    <3>6. o1 = Append(ops, CopyOp(0)) /\ e1 = Append(ends, Len(old))
      BY <1>0, <2>2
    <3>7. /\ LastEnd(ends) <= Len(old) /\ Len(old) <= Len(Expected)
      BY <1>1, <1>2, <1>3, <1>4
    <3> HIDE DEF o1, e1, head, tail
    <3>8. /\ Tiles(Append(ops, CopyOp(0)), Append(ends, Len(old)))
          /\ LastEnd(Append(ends, Len(old))) = Len(old)
          /\ Append(ops, CopyOp(0)) \in Seq(Op)
          /\ Append(ends, Len(old)) \in Seq(0..MaxLen)
          /\ Len(Append(ops, CopyOp(0))) = Len(Append(ends, Len(old)))
      <4>1. /\ ops \in Seq(Op) /\ ends \in Seq(0..MaxLen) /\ Len(ends) = Len(ops)
            /\ Tiles(ops, ends) /\ Len(old) \in 0..MaxLen
        BY ONLY <1>1, <1>4, Zenon
      <4> QED
        BY ONLY <3>1, <3>4, <3>5, <3>7, <4>1, TileAppend, Zenon
    <3> QED
      BY ONLY <3>6, <3>8, Zenon
  <2> QED
    BY <1>1, <2>1, <2>2
<1> HIDE DEF o1, e1
<1>6. /\ Tiles(o2, e2) /\ LastEnd(e2) = Len(new)
      /\ o2 \in Seq(Op) /\ e2 \in Seq(0..MaxLen) /\ Len(o2) = Len(e2)
  <2>1. CASE tail = <<>>
    <3>1. Len(new) = Len(old)
      <4> HIDE DEF tail
      <4> QED
        BY <1>1, <1>3, <2>1, EmptySeq
    <3> QED
      BY <1>5, <2>1, <3>1, ConcatEmptySeq
  <2>2. CASE tail # <<>>
    <3>1. DataOp(tail) \in Op /\ DataOp(tail).kind # "copy"
      BY <1>3 DEF DataOp, Op, Literal
    <3>2. Meaning(DataOp(tail)) = SubSeq(Expected, LastEnd(e1) + 1, Len(new))
      BY <1>3, <1>5 DEF Meaning, DataOp
    <3>3. o2 = Append(o1, DataOp(tail)) /\ e2 = Append(e1, Len(new))
      BY <2>2, <1>1, <1>5, <3>1, AppendIsConcat
    <3> HIDE DEF o2, e2, tail, head
    <3>4. LastEnd(e1) <= Len(new) /\ Len(new) <= Len(Expected)
      BY <1>1, <1>2, <1>3, <1>5
    <3> QED
      BY <1>1, <1>5, <3>1, <3>2, <3>3, <3>4, TileAppend
  <2> QED
    BY <2>1, <2>2
<1>7. /\ ops' = o2 /\ ends' = e2 /\ phase' = "apply" /\ applied' = 0 /\ out' = <<>>
      /\ action' = "tail" /\ sig' = sig /\ old' = old /\ new' = new
      /\ pos' = pos /\ pending' = pending /\ existed' = existed
      /\ listedSize' = listedSize /\ append' = append
  BY <1>1, <1>2 DEF IInv, Chosen, AppendTail, inputs, o1, e1
<1> HIDE DEF o2, e2, tail, head
<1>8. TypeOK'
  <2>1. Len(o2) \in Nat /\ o2 \in Seq([kind : {"copy", "data"}, block : Nat, bytes : Literal])
    BY <1>6 DEF Op
  <2>2. ops' \in Seq([kind : {"copy", "data"}, block : Nat, bytes : Literal])
    BY <1>7, <2>1
  <2>3. /\ ends' \in Seq(0..MaxLen) /\ Len(ends') = Len(ops') /\ applied' \in 0..Len(ops')
    BY <1>6, <1>7, <2>1
  <2>4. /\ phase' \in {"sign", "scan", "apply", "done", "failed"}
        /\ action' \in {"none", "tail", "skip"} /\ sig'.blockSize \in Nat
        /\ pos' \in 0..Len(new') /\ pending' \in Literal /\ out' \in Literal
    BY <1>7, EmptySeq DEF IInv, TypeOK, Literal
  <2>5. /\ old' \in File /\ new' \in File /\ existed' \in BOOLEAN
        /\ listedSize' \in 0..MaxLen /\ append' \in {"off", "append", "verify"}
    BY <1>7 DEF IInv, TypeOK
  <2> QED
    BY <2>2, <2>3, <2>4, <2>5 DEF TypeOK
<1>9. Expected' = Expected /\ Tiles(ops, ends)'
  BY <1>1, <1>6, <1>7 DEF Tiles, Expected, Meaning, ValidCopy
<1>10. LastEnd(ends)' = Len(Expected)'
  BY <1>3, <1>6, <1>7, <1>9 DEF LastEnd
<1>11. Chosen'
  BY <1>1, <1>2, <1>7 DEF Chosen
<1>12. SubSeq(Expected', 1, 0) = <<>>
  BY SubSeqEmpty
<1> QED
  BY <1>7, <1>8, <1>9, <1>10, <1>11, <1>12
  DEF IInv, ScanInv, ApplyInv, WritesPrefix, Reconstructs, OnlyDiminishedFails

\* What every step of the scan may assume.
LEMMA ScanFacts ==
  ASSUME IInv, Scanning
  PROVE  /\ new \in Seq(Byte) /\ Len(new) \in 0..MaxLen /\ MaxLen \in Nat
         /\ DefaultBlockSize \in Nat \ {0} /\ blockSize = DefaultBlockSize
         /\ pos \in 0..Len(new) /\ LastEnd(ends) \in 0..pos
         /\ pending = SubSeq(new, LastEnd(ends) + 1, pos)
         /\ Expected = new /\ sig = GenerateSignature(old)
<1>1. /\ new \in Seq(Byte) /\ Len(new) \in 0..MaxLen /\ MaxLen \in Nat
      /\ DefaultBlockSize \in Nat \ {0} /\ pos \in 0..Len(new)
  BY FileIsSeq, SizeAssumption DEF IInv, TypeOK
<1>2. sig = GenerateSignature(old) /\ blockSize = DefaultBlockSize
  BY <1>1 DEF IInv, Chosen, Scanning, GenerateSignature, blockSize
<1>3. LastEnd(ends) \in Nat
  BY <1>1 DEF IInv, TypeOK, LastEnd
<1> QED
  BY <1>1, <1>2, <1>3 DEF IInv, ScanInv, Scanning, Expected

\* A checksum computed from scratch changes nothing that has been sent.
LEMMA FreshWindowInv ==
  ASSUME IInv, FreshWindow
  PROVE  IInv'
<1>1. Scanning
  BY DEF FreshWindow
<1>2. /\ UNCHANGED <<inputs, phase, action, sig, pos, pending, ops, ends, out, applied>>
      /\ phase = "scan" /\ pos + DefaultBlockSize <= Len(new)
  BY <1>1, ScanFacts DEF FreshWindow, Scanning
<1> QED
  BY <1>2
  DEF IInv, TypeOK, Chosen, ScanInv, ApplyInv, Tiles, Expected, Meaning, ValidCopy,
      WritesPrefix, Reconstructs, OnlyDiminishedFails, inputs

\* A window that matches no block moves one byte into the pending literal.
LEMMA SlideByteInv ==
  ASSUME IInv, SlideByte
  PROVE  IInv'
<1>1. Scanning /\ weak # NoWeak /\ phase = "scan"
  BY DEF SlideByte, Scanning
<1>2. pos + DefaultBlockSize <= Len(new)
  BY <1>1 DEF IInv, ScanInv
<1>3. /\ UNCHANGED <<inputs, phase, action, sig, ops, ends, out, applied>>
      /\ pos' = pos + 1 /\ pending' = Append(pending, new[pos + 1])
      /\ weak' # NoWeak => pos + 1 + DefaultBlockSize <= Len(new)
  BY <1>1, <1>2, ScanFacts DEF SlideByte
<1>4. pos' \in 0..Len(new) /\ pending' = SubSeq(new, LastEnd(ends) + 1, pos')
  <2>1. /\ LastEnd(ends) \in Nat /\ pos \in Nat /\ LastEnd(ends) <= pos
        /\ pos < Len(new) /\ Len(new) \in Nat
    BY <1>1, <1>2, ScanFacts
  <2>2. SubSeq(new, LastEnd(ends) + 1, pos + 1)
          = Append(SubSeq(new, LastEnd(ends) + 1, pos), new[pos + 1])
    BY <1>1, <2>1, Grow, ScanFacts
  <2>3. pending = SubSeq(new, LastEnd(ends) + 1, pos)
    BY <1>1, ScanFacts
  <2>4. pos' = pos + 1 /\ pending' = Append(pending, new[pos + 1])
    BY <1>3
  <2>5. pos' \in 0..Len(new)
    BY <2>1, <2>4
  <2>6. pending' = SubSeq(new, LastEnd(ends) + 1, pos')
    BY <2>2, <2>3, <2>4, Zenon
  <2> QED
    BY <2>5, <2>6
<1>5. pending' \in Literal
  <2>1. new \in Seq(Byte) /\ pos' \in Nat /\ pos' <= Len(new) /\ LastEnd(ends) \in Nat
    BY <1>1, <1>4, ScanFacts
  <2> QED
    BY <1>4, <2>1, Piece DEF Literal
<1>6. TypeOK'
  BY <1>3, <1>4, <1>5 DEF IInv, TypeOK, inputs
<1>7. ScanInv'
  BY <1>1, <1>3, <1>4, ScanFacts DEF IInv, ScanInv, inputs, Scanning
<1> QED
  BY <1>1, <1>3, <1>6, <1>7
  DEF IInv, Chosen, ApplyInv, Tiles, Expected, Meaning, ValidCopy,
      WritesPrefix, Reconstructs, OnlyDiminishedFails, inputs

\* A matching block flushes the literal and adds a copy of exactly those bytes.
LEMMA MatchBlockInv ==
  ASSUME IInv, MatchBlock
  PROVE  IInv'
<1>1. Scanning /\ weak # NoWeak /\ phase = "scan" /\ action = "none"
  BY DEF MatchBlock, Scanning
<1>2. pos + DefaultBlockSize <= Len(new)
  BY <1>1 DEF IInv, ScanInv
<1> DEFINE last == pos + DefaultBlockSize
<1>3. PICK i \in Matches : ops' = Append(FlushedOps, CopyOp(i - 1))
  BY DEF MatchBlock
<1>4. /\ UNCHANGED <<inputs, phase, action, sig, out, applied>>
      /\ pos' = last /\ pending' = <<>> /\ weak' = NoWeak
      /\ ends' = Append(FlushedEnds, last)
  BY <1>1, ScanFacts DEF MatchBlock
<1>5. /\ i \in 1..Len(sig.blocks) /\ sig.blocks[i].strong = Strong(Window)
  BY <1>3 DEF Matches
<1>6. /\ BlockBytes(old, sig.blockSize, i - 1) = SubSeq(new, pos + 1, last)
      /\ ValidCopy(CopyOp(i - 1))
  BY <1>1, <1>2, <1>5, ScanFacts, BlockMatch DEF IInv
<1>7. /\ last \in 0..MaxLen /\ last <= Len(new) /\ pos <= last /\ Expected = new
  BY <1>1, <1>2, ScanFacts
<1>8. CopyOp(i - 1) \in Op
  <2>1. i - 1 \in Nat
    BY <1>5
  <2> QED
    BY <2>1, EmptySeq DEF CopyOp, Op, Literal
<1>9. Meaning(CopyOp(i - 1)) = SubSeq(Expected, LastEnd(FlushedEnds) + 1, last)
  BY <1>1, <1>6, <1>7, TileFlush DEF Meaning, CopyOp
<1> HIDE DEF last
<1>10. /\ Tiles(ops', ends') /\ LastEnd(ends') = last
       /\ ops' \in Seq(Op) /\ ends' \in Seq(0..MaxLen) /\ Len(ops') = Len(ends')
  BY <1>1, <1>3, <1>4, <1>6, <1>7, <1>8, <1>9, TileFlush, TileAppend
<1>11. TypeOK'
  <2>1. /\ phase' = "scan" /\ action' = "none" /\ pending' \in Literal
        /\ pos' \in 0..Len(new') /\ applied' = 0 /\ applied' \in 0..Len(ops')
    BY <1>1, <1>4, <1>7, <1>10, EmptySeq
    DEF IInv, Chosen, TypeOK, inputs, Literal
  <2>2. /\ ops' \in Seq([kind : {"copy", "data"}, block : Nat, bytes : Literal])
        /\ ends' \in Seq(0..MaxLen) /\ Len(ends') = Len(ops')
    BY <1>10 DEF Op
  <2>3. UNCHANGED <<old, new, existed, listedSize, append, sig, out>>
    BY <1>4 DEF inputs
  <2> QED
    BY <2>1, <2>2, <2>3 DEF IInv, TypeOK
<1>12. ScanInv'
  <2>1. SubSeq(new, last + 1, last) = <<>>
    BY <1>7, SubSeqEmpty
  <2>2. LastEnd(ends)' = last /\ last <= pos'
    BY <1>4, <1>7, <1>10 DEF LastEnd
  <2> QED
    BY <1>1, <1>4, <2>1, <2>2 DEF ScanInv, inputs
<1>13. Tiles(ops, ends)'
  BY <1>4, <1>10 DEF Tiles, Expected, Meaning, ValidCopy, inputs, StartOf, BlockBytes
<1>14. Chosen'
  BY <1>1, <1>4 DEF IInv, Chosen, inputs
<1> QED
  BY <1>1, <1>4, <1>11, <1>12, <1>13, <1>14
  DEF IInv, ApplyInv, WritesPrefix, Reconstructs, OnlyDiminishedFails

\* The bytes after the last full window complete the tiling.
LEMMA FinishScanInv ==
  ASSUME IInv, FinishScan
  PROVE  IInv'
<1> DEFINE rest == pending \o SubSeq(new, pos + 1, Len(new))
           first == LastEnd(ends)
<1>1. /\ Scanning /\ phase = "scan" /\ action = "none"
      /\ Tiles(ops, ends) /\ ops \in Seq(Op) /\ ends \in Seq(0..MaxLen)
      /\ Len(ends) = Len(ops) /\ applied = 0 /\ out = <<>>
  BY DEF FinishScan, Scanning, IInv, TypeOK, Op, Chosen
<1>2. /\ first \in Nat /\ pos \in Nat /\ Len(new) \in Nat /\ Len(new) \in 0..MaxLen
      /\ first <= pos /\ pos <= Len(new) /\ new \in Seq(Byte)
      /\ Expected = new /\ pending = SubSeq(new, first + 1, pos)
  BY <1>1, ScanFacts
<1>3. rest = SubSeq(new, first + 1, Len(new))
  <2> HIDE DEF first
  <2>1. SubSeq(new, first + 1, pos) \o SubSeq(new, pos + 1, Len(new))
          = SubSeq(new, first + 1, Len(new))
    <3>1. /\ first \in Nat /\ pos \in Nat /\ Len(new) \in Nat /\ new \in Seq(Byte)
          /\ first <= pos /\ pos <= Len(new) /\ Len(new) <= Len(new)
      BY <1>2
    <3> QED
      BY <3>1, Join
  <2>2. pending = SubSeq(new, first + 1, pos)
    BY <1>2
  <2> QED
    BY <2>1, <2>2, Zenon
<1>4. rest \in Seq(Byte) /\ Len(rest) = Len(new) - first
  <2> HIDE DEF first, rest
  <2> QED
    BY <1>2, <1>3, Piece
<1>5. /\ ops' = (IF rest = <<>> THEN ops ELSE Append(ops, DataOp(rest)))
      /\ ends' = (IF rest = <<>> THEN ends ELSE Append(ends, Len(new)))
      /\ pending' = <<>> /\ pos' = Len(new) /\ phase' = "apply"
      /\ UNCHANGED <<inputs, action, sig, weak, out, applied>>
  BY DEF FinishScan
<1> HIDE DEF rest
<1>6. /\ Tiles(ops', ends') /\ LastEnd(ends') = Len(new)
      /\ ops' \in Seq(Op) /\ ends' \in Seq(0..MaxLen) /\ Len(ops') = Len(ends')
  <2>1. CASE rest = <<>>
    <3>1. Len(rest) = 0
      BY <2>1, EmptySeq
    <3>2. first = Len(new)
      BY <3>1, <1>2, <1>4
    <3>3. ops' = ops /\ ends' = ends
      BY <2>1, <1>5
    <3> QED
      BY <1>1, <3>2, <3>3
  <2>2. CASE rest # <<>>
    <3>1. DataOp(rest) \in Op /\ DataOp(rest).kind # "copy"
      BY <1>4 DEF DataOp, Op, Literal
    <3>2. Meaning(DataOp(rest)) = SubSeq(Expected, LastEnd(ends) + 1, Len(new))
      BY <1>2, <1>3 DEF Meaning, DataOp
    <3>3. ops' = Append(ops, DataOp(rest)) /\ ends' = Append(ends, Len(new))
      BY <2>2, <1>5
    <3>4. LastEnd(ends) <= Len(new) /\ Len(new) <= Len(Expected)
      BY <1>2
    <3> QED
      BY <1>1, <1>2, <3>1, <3>2, <3>3, <3>4, TileAppend
  <2> QED
    BY <2>1, <2>2
<1>7. TypeOK'
  <2>1. /\ phase' = "apply" /\ action' = "none" /\ pending' \in Literal /\ out' \in Literal
        /\ pos' \in 0..Len(new') /\ applied' \in 0..Len(ops')
    BY <1>1, <1>2, <1>5, <1>6, EmptySeq DEF inputs, Literal
  <2>2. /\ ops' \in Seq([kind : {"copy", "data"}, block : Nat, bytes : Literal])
        /\ ends' \in Seq(0..MaxLen) /\ Len(ends') = Len(ops')
    BY <1>6 DEF Op
  <2>3. UNCHANGED <<old, new, existed, listedSize, append, sig>>
    BY <1>5 DEF inputs
  <2> QED
    BY <2>1, <2>2, <2>3 DEF IInv, TypeOK
<1>8. Expected' = new /\ applied' = 0 /\ out' = <<>> /\ action' = "none"
  BY <1>1, <1>5 DEF Expected, inputs
<1>9. Tiles(ops, ends)'
  BY <1>2, <1>5, <1>6, <1>8 DEF Tiles, Meaning, ValidCopy, inputs, StartOf, BlockBytes
<1>10. LastEnd(ends)' = Len(Expected)'
  BY <1>6, <1>8 DEF LastEnd
<1>11. Chosen'
  BY <1>1, <1>5 DEF IInv, Chosen, inputs
<1>12. SubSeq(new, 1, 0) = <<>>
  BY SubSeqEmpty
<1> QED
  BY <1>5, <1>7, <1>8, <1>9, <1>10, <1>11, <1>12
  DEF IInv, ScanInv, ApplyInv, WritesPrefix, Reconstructs, OnlyDiminishedFails

\* What ApplyDelta writes for operation applied+1 carries its output on to the
\* end of that operation.
LEMMA ApplyOne ==
  ASSUME IInv, Applying
  PROVE  /\ out \o Meaning(ops[applied + 1]) = SubSeq(Expected, 1, ends[applied + 1])
         /\ SubSeq(Expected, 1, ends[applied + 1]) \in Seq(Byte)
         /\ ops[applied + 1].kind = "copy" => ValidCopy(ops[applied + 1])
<1> DEFINE i == applied + 1
           start == StartOf(ends, i)
           end == ends[i]
<1>1. /\ Expected \in Seq(Byte) /\ i \in 1..Len(ops) /\ i \in 1..Len(ends)
      /\ ends \in Seq(0..MaxLen) /\ MaxLen \in Nat /\ applied \in Nat
  BY ExpectedType, SizeAssumption DEF IInv, TypeOK, Applying
<1>2. start \in Nat /\ end \in Nat
  BY <1>1, ElementOfSeq DEF StartOf
<1>3. /\ start <= end /\ end <= Len(Expected)
      /\ Meaning(ops[i]) = SubSeq(Expected, start + 1, end)
      /\ ops[i].kind = "copy" => ValidCopy(ops[i])
  BY <1>1 DEF IInv, Applying, Tiles
<1>4. out = SubSeq(Expected, 1, start)
  BY <1>1 DEF IInv, Applying, WritesPrefix, StartOf
<1> HIDE DEF start, end
<1>5. out \o Meaning(ops[i]) = SubSeq(Expected, 1, end)
  <2>2. SubSeq(Expected, 1, start) \o SubSeq(Expected, start + 1, end)
          = SubSeq(Expected, 1, end)
    BY <1>1, <1>2, <1>3, JoinFront
  <2>3. Meaning(ops[i]) = SubSeq(Expected, start + 1, end)
    BY <1>3
  <2> QED
    BY <1>4, <2>2, <2>3, Zenon
<1>6. SubSeq(Expected, 1, end) \in Seq(Byte)
  BY <1>1, <1>2, <1>3, JoinFront
<1>7. ops[i].kind = "copy" => ValidCopy(ops[i])
  BY <1>3
<1> QED
  BY <1>5, <1>6, <1>7, Zenon DEF end

\* One iteration of ApplyDelta, whatever the operation.
LEMMA ApplyStep ==
  ASSUME IInv, Applying,
         out' = out \o Meaning(ops[applied + 1]), applied' = applied + 1,
         phase' = phase,
         UNCHANGED <<inputs, action, sig, weak, pos, pending, ops, ends>>
  PROVE  IInv'
<1>1. out' = SubSeq(Expected, 1, ends[applied + 1]) /\ out' \in Literal
  BY ApplyOne DEF Literal
<1>2. applied' \in 0..Len(ops) /\ applied' # 0
  BY DEF IInv, TypeOK, Applying
<1>3. TypeOK'
  BY <1>1, <1>2 DEF IInv, TypeOK, inputs
<1>4. Expected' = Expected /\ phase = "apply"
  BY DEF Expected, inputs, Applying
<1>5. WritesPrefix'
  BY <1>1, <1>2, <1>4 DEF WritesPrefix
<1>6. Tiles(ops, ends)'
  BY <1>4 DEF IInv, Applying, Tiles, Meaning, ValidCopy, inputs
<1> QED
  BY <1>3, <1>4, <1>5, <1>6
  DEF IInv, Chosen, ScanInv, ApplyInv, Reconstructs, OnlyDiminishedFails, inputs

\* ApplyDelta accepts a copy and writes the bytes it stands for.
LEMMA ApplyCopyInv ==
  ASSUME IInv, ApplyCopy
  PROVE  IInv'
<1>1. Applying /\ ops[applied + 1].kind = "copy"
  BY DEF ApplyCopy
<1>2. ValidCopy(ops[applied + 1])
  BY <1>1, ApplyOne
<1>3. out' = out \o Meaning(ops[applied + 1])
  BY <1>1, <1>2 DEF ApplyCopy, Meaning
<1>4. /\ applied' = applied + 1 /\ phase' = phase
      /\ UNCHANGED <<inputs, action, sig, weak, pos, pending, ops, ends>>
  BY <1>2 DEF ApplyCopy
<1> QED
  BY <1>1, <1>3, <1>4, ApplyStep

\* ApplyDelta writes a literal at its place.
LEMMA ApplyDataInv ==
  ASSUME IInv, ApplyData
  PROVE  IInv'
<1>1. Applying /\ out' = out \o Meaning(ops[applied + 1])
  BY DEF ApplyData, Meaning
<1>2. /\ applied' = applied + 1 /\ phase' = phase
      /\ UNCHANGED <<inputs, action, sig, weak, pos, pending, ops, ends>>
  BY DEF ApplyData
<1> QED
  BY <1>1, <1>2, ApplyStep

\* All operations applied, or a file skipped: the receiver has the promised bytes.
LEMMA FinishApplyInv ==
  ASSUME IInv, FinishApply
  PROVE  IInv'
<1>1. /\ phase = "apply" /\ phase' = "done"
      /\ UNCHANGED <<inputs, action, sig, weak, pos, pending, ops, ends, applied>>
  BY DEF FinishApply
<1>2. Expected \in Seq(Byte) /\ old \in Seq(Byte)
  BY ExpectedType, FileIsSeq DEF IInv, TypeOK
<1>3. out' = Expected
  <2>1. CASE action = "skip"
    BY <2>1 DEF FinishApply, Expected
  <2>2. CASE action # "skip"
    <3>1. applied = Len(ops) /\ out' = out
      BY <2>2 DEF FinishApply
    <3>2. LastEnd(ends) = Len(Expected)
      BY <1>1, <2>2 DEF IInv, ApplyInv
    <3>3. (IF applied = 0 THEN 0 ELSE ends[applied]) = LastEnd(ends)
      BY <3>1, EmptySeq DEF IInv, TypeOK, LastEnd
    <3>4. out = SubSeq(Expected, 1, Len(Expected))
      BY <1>1, <2>2, <3>2, <3>3 DEF IInv, WritesPrefix
    <3> QED
      BY <1>2, <3>1, <3>4, SubSeqFull
  <2> QED
    BY <2>1, <2>2
<1>4. TypeOK'
  BY <1>1, <1>2, <1>3 DEF IInv, TypeOK, inputs, Literal
<1>5. Expected' = Expected
  BY <1>1 DEF Expected, inputs
<1> QED
  BY <1>1, <1>3, <1>4, <1>5
  DEF IInv, Chosen, ScanInv, ApplyInv, WritesPrefix, Reconstructs, OnlyDiminishedFails, inputs

-----------------------------------------------------------------------------
(* The theorems. *)

\* Every step preserves the inductive invariant.
LEMMA NextInv ==
  ASSUME IInv, [Next]_vars
  PROVE  IInv'
<1>1. CASE UNCHANGED vars
  <2>1. /\ phase' = phase /\ action' = action /\ sig' = sig
        /\ weak' = weak /\ pos' = pos /\ pending' = pending /\ ops' = ops
        /\ ends' = ends /\ out' = out /\ applied' = applied
    BY <1>1 DEF vars
  <2>2. /\ old' = old /\ existed' = existed /\ new' = new
        /\ listedSize' = listedSize /\ append' = append
    BY <1>1 DEF vars
  <2>3. Expected' = Expected
    BY ONLY <2>1, <2>2, Zenon DEF Expected
  <2>4. TypeOK'
    BY ONLY IInv, <2>1, <2>2, Zenon DEF IInv, TypeOK
  <2>5. Chosen'
    BY ONLY IInv, <2>1, <2>2, Zenon DEF IInv, Chosen
  <2>6. ScanInv'
    BY ONLY IInv, <2>1, <2>2, Zenon DEF IInv, ScanInv
  <2>7. ApplyInv' /\ WritesPrefix' /\ Reconstructs'
    BY ONLY IInv, <2>1, <2>2, <2>3, Zenon
    DEF IInv, ApplyInv, WritesPrefix, Reconstructs
  <2>8. (phase \in {"scan", "apply"} => Tiles(ops, ends))'
    BY ONLY IInv, <2>1, <2>2, <2>3, Zenon
    DEF IInv, Tiles, Meaning, ValidCopy
  <2>9. OnlyDiminishedFails'
    BY ONLY IInv, <2>1, <2>2, Zenon DEF IInv, OnlyDiminishedFails
  <2> QED
    BY ONLY <2>4, <2>5, <2>6, <2>7, <2>8, <2>9, Zenon DEF IInv
<1>2. CASE Next
  BY <1>2, SignInv, SkipFileInv, AppendTailInv, DiminishedInv, FreshWindowInv,
     MatchBlockInv, SlideByteInv, FinishScanInv, ApplyCopyInv, ApplyDataInv,
     FinishApplyInv
  DEF Next
<1> QED
  BY <1>1, <1>2

\* The inductive invariant holds of every behaviour.
THEOREM Invariant == Spec => []IInv
<1>1. Init => IInv
  BY InitInv
<1>2. IInv /\ [Next]_vars => IInv'
  BY NextInv
<1> QED
  BY <1>1, <1>2, PTL DEF Spec

\* Type correctness of the delta exchange.
THEOREM TypeCorrect == Spec => []TypeOK
<1>1. IInv => TypeOK
  BY DEF IInv
<1> QED
  BY <1>1, Invariant, PTL

\* Whatever the two files hold, whatever the block size and the weak checksum,
\* the finished exchange leaves the receiver with the promised bytes.
THEOREM ReconstructsCorrect == Spec => []Reconstructs
<1>1. IInv => Reconstructs
  BY DEF IInv
<1> QED
  BY <1>1, Invariant, PTL

\* ApplyDelta's output is a prefix of the promised bytes at every iteration.
THEOREM WritesPrefixCorrect == Spec => []WritesPrefix
<1>1. IInv => WritesPrefix
  BY DEF IInv
<1> QED
  BY <1>1, Invariant, PTL

\* ApplyDelta never rejects an operation: only a diminished source fails.
THEOREM OnlyDiminishedCorrect == Spec => []OnlyDiminishedFails
<1>1. IInv => OnlyDiminishedFails
  BY DEF IInv
<1> QED
  BY <1>1, Invariant, PTL

-----------------------------------------------------------------------------
(* Arithmetic of the rolling checksum. *)

\* What holds at 0 and passes from i to i + 1 holds up to n.
LEMMA Upwards ==
  ASSUME NEW n \in Nat, NEW S, 0 \in S, \A i \in 0..n - 1 : i \in S => i + 1 \in S
  PROVE  \A i \in 0..n : i \in S
<1> DEFINE T == {i \in 0..n : i \notin S}
<1> SUFFICES ASSUME T # {} PROVE FALSE
  OBVIOUS
<1>1. T \in SUBSET Nat
  OBVIOUS
<1>2. PICK m \in T : \A y \in T : ~(<<y, m>> \in OpToRel(<, Nat))
  BY <1>1, NatLessThanWellFounded, WFMin
<1>3. \A y \in T : ~(y < m)
  BY <1>1, <1>2 DEF OpToRel
<1>4. m \in 1..n /\ m - 1 \in 0..n - 1
  OBVIOUS
<1>5. m - 1 \notin T
  BY <1>3, <1>4
<1> QED
  BY <1>4, <1>5

\* The quotient and the remainder of an integer.
LEMMA Division ==
  ASSUME NEW x \in Int, NEW m \in Nat \ {0}
  PROVE  /\ x \div m \in Int /\ x % m \in 0..m - 1
         /\ x = m * (x \div m) + (x % m)
OBVIOUS

\* A remainder is unique.
LEMMA Remainder ==
  ASSUME NEW m \in Nat \ {0}, NEW q \in Int, NEW p \in Int, NEW r \in 0..m - 1, NEW s \in 0..m - 1,
         m * q + r = m * p + s
  PROVE  r = s
<1>1. ASSUME NEW k \in Int, k > 0 PROVE k * m >= m
  BY <1>1
<1>2. m * (q - p) = s - r
  OBVIOUS
<1>3. ~(q - p > 0)
  <2> SUFFICES ASSUME q - p > 0 PROVE FALSE
    OBVIOUS
  <2>1. (q - p) * m >= m
    BY <1>1
  <2> QED
    BY <1>2, <2>1
<1>4. ~(p - q > 0)
  <2> SUFFICES ASSUME p - q > 0 PROVE FALSE
    OBVIOUS
  <2>1. (p - q) * m >= m
    BY <1>1
  <2> QED
    BY <1>2, <2>1
<1> QED
  BY <1>2, <1>3, <1>4

\* x and y have the same remainder.
Same(x, y) == \E k \in Int : x = y + k * Modulus

\* Same is reflexive.
LEMMA SameRefl ==
  ASSUME NEW x \in Int
  PROVE  Same(x, x)
<1>1. x = x + 0 * Modulus
  BY WordAssumption
<1> QED
  BY <1>1 DEF Same

\* Same respects sums.
LEMMA SameSum ==
  ASSUME NEW x \in Int, NEW y \in Int, NEW u \in Int, NEW v \in Int, Same(x, y), Same(u, v)
  PROVE  Same(x + u, y + v)
<1>1. PICK k \in Int : x = y + k * Modulus
  BY DEF Same
<1>2. PICK l \in Int : u = v + l * Modulus
  BY DEF Same
<1>3. x + u = (y + v) + (k + l) * Modulus
  BY <1>1, <1>2, WordAssumption
<1> QED
  BY <1>3 DEF Same

\* Same is transitive.
LEMMA SameTrans ==
  ASSUME NEW x \in Int, NEW y \in Int, NEW z \in Int, Same(x, y), Same(y, z)
  PROVE  Same(x, z)
<1>1. PICK k \in Int : x = y + k * Modulus
  BY DEF Same
<1>2. PICK l \in Int : y = z + l * Modulus
  BY DEF Same
<1>3. x = z + (k + l) * Modulus
  BY <1>1, <1>2, WordAssumption
<1> QED
  BY <1>3 DEF Same

\* Same is symmetric.
LEMMA SameSym ==
  ASSUME NEW x \in Int, NEW y \in Int, Same(x, y)
  PROVE  Same(y, x)
<1>1. PICK k \in Int : x = y + k * Modulus
  BY DEF Same
<1>2. y = x + (-k) * Modulus
  BY <1>1, WordAssumption
<1> QED
  BY <1>2 DEF Same

\* uint32 wraps at a multiple of the modulus.
LEMMA SameMod ==
  ASSUME NEW x \in Int
  PROVE  /\ x % Modulus \in 0..Modulus - 1 /\ Same(x % Modulus, x)
         /\ x % Word \in 0..Word - 1 /\ Same(x % Word, x)
<1>1. Modulus \in Nat \ {0} /\ Word \in Nat \ {0} /\ Word % Modulus = 0
  BY WordAssumption
<1>2. /\ x % Modulus \in 0..Modulus - 1 /\ x \div Modulus \in Int
      /\ x = Modulus * (x \div Modulus) + (x % Modulus)
  BY <1>1, Division
<1>3. /\ x % Word \in 0..Word - 1 /\ x \div Word \in Int
      /\ x = Word * (x \div Word) + (x % Word)
  BY <1>1, Division
<1>4. /\ Word \div Modulus \in Int
      /\ Word = Modulus * (Word \div Modulus) + (Word % Modulus)
  BY <1>1, Division
<1> DEFINE q == x \div Modulus
           p == x \div Word
           c == Word \div Modulus
           r == x % Modulus
           s == x % Word
<1> HIDE DEF q, p, c, r, s
<1>5. r = x + (-q) * Modulus
  BY <1>1, <1>2 DEF q, r
<1>6. Word = Modulus * c
  BY <1>1, <1>4 DEF c
<1>7. s = x + (-(c * p)) * Modulus
  <2>1. p \in Int /\ c \in Int /\ s \in Int /\ x = Word * p + s
    BY <1>3, <1>4 DEF p, c, s
  <2>2. Word * p = (c * p) * Modulus
    BY <1>1, <1>6, <2>1
  <2> QED
    BY <1>1, <2>1, <2>2
<1>8. Same(r, x)
  BY <1>2, <1>5 DEF Same, q
<1>9. Same(s, x)
  <2>1. -(c * p) \in Int
    BY <1>3, <1>4 DEF p, c
  <2> QED
    BY <1>7, <2>1 DEF Same
<1> QED
  BY <1>2, <1>3, <1>8, <1>9 DEF r, s

\* Integers that are Same have one remainder.
LEMMA SameRemainder ==
  ASSUME NEW x \in Int, NEW y \in Int, Same(x, y)
  PROVE  x % Modulus = y % Modulus
<1>1. PICK k \in Int : x = y + k * Modulus
  BY DEF Same
<1>2. Modulus \in Nat \ {0}
  BY WordAssumption
<1>3. /\ x % Modulus \in 0..Modulus - 1 /\ x \div Modulus \in Int
      /\ x = Modulus * (x \div Modulus) + (x % Modulus)
  BY <1>2, Division
<1>4. /\ y % Modulus \in 0..Modulus - 1 /\ y \div Modulus \in Int
      /\ y = Modulus * (y \div Modulus) + (y % Modulus)
  BY <1>2, Division
<1> DEFINE q == x \div Modulus
           p == y \div Modulus
           r == x % Modulus
           s == y % Modulus
<1> HIDE DEF q, p, r, s
<1>5. Modulus * q + r = Modulus * (p + k) + s
  BY <1>1, <1>2, <1>3, <1>4 DEF q, p, r, s
<1>6. q \in Int /\ p + k \in Int /\ r \in 0..Modulus - 1 /\ s \in 0..Modulus - 1
  BY <1>3, <1>4 DEF q, p, r, s
<1>7. r = s
  BY ONLY <1>2, <1>5, <1>6, Remainder
<1> QED
  BY <1>7 DEF r, s

\* The accumulators of newWeakChecksum exist, and so are what their equations say.
LEMMA Accumulator ==
  ASSUME NEW n \in Nat, NEW g \in [1..n -> Int]
  PROVE  \E A \in [0..n -> Int] :
           A = [i \in 0..n |-> IF i = 0 THEN 0 ELSE (A[i - 1] + g[i]) % Word]
<1> DEFINE Sum(A, m) == A[0] = 0 /\ \A i \in 1..m : A[i] = (A[i - 1] + g[i]) % Word
           S == {m \in 0..n : \E A \in [0..m -> Int] : Sum(A, m)}
<1>1. 0 \in S
  <2> DEFINE A == [i \in 0..0 |-> 0]
  <2>1. A \in [0..0 -> Int] /\ A[0] = 0
    OBVIOUS
  <2> HIDE DEF A
  <2>2. Sum(A, 0)
    BY <2>1
  <2> QED
    BY <2>1, <2>2
<1>2. ASSUME NEW m \in 0..n - 1, m \in S
      PROVE  m + 1 \in S
  <2>1. PICK A \in [0..m -> Int] : Sum(A, m)
    BY <1>2
  <2> DEFINE e == (A[m] + g[m + 1]) % Word
             C == [i \in 0..m + 1 |-> IF i = m + 1 THEN e ELSE A[i]]
  <2>2. e \in Int
    <3>1. A[m] + g[m + 1] \in Int
      OBVIOUS
    <3> QED
      BY <3>1, SameMod
  <2> HIDE DEF e
  <2>3. C \in [0..m + 1 -> Int] /\ C[m + 1] = e /\ \A i \in 0..m : C[i] = A[i]
    BY <2>2
  <2> HIDE DEF C
  <2>4. \A i \in 1..m + 1 : C[i] = (C[i - 1] + g[i]) % Word
    <3> TAKE i \in 1..m + 1
    <3>1. CASE i = m + 1
      <4>1. i - 1 = m /\ C[i - 1] = A[m]
        BY <2>3, <3>1
      <4> QED
        BY <2>3, <3>1, <4>1 DEF e
    <3>2. CASE i \in 1..m
      <4>1. C[i] = A[i] /\ C[i - 1] = A[i - 1]
        BY <2>3, <3>2
      <4> QED
        BY <2>1, <3>2, <4>1
    <3> QED
      BY <3>1, <3>2
  <2>5. C[0] = 0
    BY <2>1, <2>3
  <2>6. Sum(C, m + 1) /\ m + 1 \in 0..n
    BY <2>4, <2>5
  <2> HIDE DEF Sum
  <2> QED
    BY <2>3, <2>6
<1>3. n \in S
  <2> HIDE DEF S
  <2>1. \A i \in 0..n : i \in S
    BY <1>1, <1>2, Upwards
  <2> QED
    BY <2>1
<1>4. PICK A \in [0..n -> Int] : Sum(A, n)
  BY <1>3
<1>5. A = [i \in 0..n |-> IF i = 0 THEN 0 ELSE (A[i - 1] + g[i]) % Word]
  <2>1. \A i \in 0..n : A[i] = IF i = 0 THEN 0 ELSE (A[i - 1] + g[i]) % Word
    BY <1>4
  <2> QED
    BY <2>1
<1> QED
  BY <1>5

\* An accumulator holds integers.
LEMMA AccumulatorFacts ==
  ASSUME NEW n \in Nat, NEW g \in [1..n -> Int],
         NEW A, A = [i \in 0..n |-> A[i]], A[0] = 0,
         \A i \in 1..n : A[i] = (A[i - 1] + g[i]) % Word
  PROVE  A \in [0..n -> Int]
<1> DEFINE S == {i \in 0..n : A[i] \in Int}
<1>2. 0 \in S
  OBVIOUS
<1>3. ASSUME NEW i \in 0..n - 1, i \in S
      PROVE  i + 1 \in S
  <2>1. A[i + 1] = (A[i] + g[i + 1]) % Word
    <3>1. i + 1 \in 1..n /\ (i + 1) - 1 = i
      OBVIOUS
    <3>2. A[i + 1] = (A[(i + 1) - 1] + g[i + 1]) % Word
      BY <3>1
    <3> QED
      BY ONLY <3>1, <3>2
  <2>2. A[i] + g[i + 1] \in Int
    BY <1>3
  <2>3. (A[i] + g[i + 1]) % Word \in Int
    BY <2>2, SameMod
  <2> QED
    BY <2>1, <2>3
<1>4. \A i \in 0..n : i \in S
  <2> HIDE DEF S
  <2> QED
    BY <1>2, <1>3, Upwards
<1> QED
  BY <1>4

\* newWeakChecksum, as the two accumulators of its loop.
LEMMA ChecksumFacts ==
  ASSUME NEW n \in Nat, NEW w \in [1..n -> Nat]
  PROVE  \E A, B \in [0..n -> Int] :
           /\ A[0] = 0 /\ \A i \in 1..n : A[i] = (A[i - 1] + w[i]) % Word
           /\ B[0] = 0 /\ \A i \in 1..n : B[i] = (B[i - 1] + (n - (i - 1)) * w[i]) % Word
           /\ newWeakChecksum(w) = [a |-> A[n] % Modulus, b |-> B[n] % Modulus, length |-> n]
<1> DEFINE A == CHOOSE A : A = [i \in 0..n |-> IF i = 0 THEN 0 ELSE (A[i - 1] + w[i]) % Word]
           B == CHOOSE B : B = [i \in 0..n |-> IF i = 0 THEN 0
                                              ELSE (B[i - 1] + (n - (i - 1)) * w[i]) % Word]
           g == [i \in 1..n |-> (n - (i - 1)) * w[i]]
<1>1. w \in [1..n -> Int] /\ g \in [1..n -> Int]
  OBVIOUS
<1>2. \E C \in [0..n -> Int] : C = [i \in 0..n |-> IF i = 0 THEN 0 ELSE (C[i - 1] + w[i]) % Word]
  BY <1>1, Accumulator
<1>3. \E C \in [0..n -> Int] :
        C = [i \in 0..n |-> IF i = 0 THEN 0 ELSE (C[i - 1] + (n - (i - 1)) * w[i]) % Word]
  <2>1. PICK C \in [0..n -> Int] : C = [i \in 0..n |-> IF i = 0 THEN 0 ELSE (C[i - 1] + g[i]) % Word]
    BY <1>1, Accumulator
  <2>2. \A i \in 0..n : (IF i = 0 THEN 0 ELSE (C[i - 1] + g[i]) % Word)
                          = IF i = 0 THEN 0 ELSE (C[i - 1] + (n - (i - 1)) * w[i]) % Word
    OBVIOUS
  <2>3. C = [i \in 0..n |-> IF i = 0 THEN 0 ELSE (C[i - 1] + (n - (i - 1)) * w[i]) % Word]
    BY <2>1, <2>2
  <2> QED
    BY <2>3
<1>4. A = [i \in 0..n |-> IF i = 0 THEN 0 ELSE (A[i - 1] + w[i]) % Word]
  BY <1>2
<1>5. B = [i \in 0..n |-> IF i = 0 THEN 0 ELSE (B[i - 1] + (n - (i - 1)) * w[i]) % Word]
  BY <1>3
<1>6. newWeakChecksum(w) = [a |-> A[n] % Modulus, b |-> B[n] % Modulus, length |-> n]
  <2>1. Len(w) = n
    OBVIOUS
  <2> QED
    BY <2>1 DEF newWeakChecksum
<1> HIDE DEF A, B
<1>7. /\ A = [i \in 0..n |-> A[i]] /\ A[0] = 0
      /\ \A i \in 1..n : A[i] = (A[i - 1] + w[i]) % Word
  BY <1>4
<1>8. /\ B = [i \in 0..n |-> B[i]] /\ B[0] = 0
      /\ \A i \in 1..n : B[i] = (B[i - 1] + (n - (i - 1)) * w[i]) % Word
  <2> DEFINE e(i) == (B[i - 1] + (n - (i - 1)) * w[i]) % Word
  <2>1. B = [i \in 0..n |-> IF i = 0 THEN 0 ELSE e(i)]
    BY <1>5
  <2> HIDE DEF e
  <2>2. B = [i \in 0..n |-> B[i]] /\ B[0] = 0 /\ \A i \in 1..n : B[i] = e(i)
    BY <2>1
  <2> QED
    BY <2>2 DEF e
<1>9. A \in [0..n -> Int]
  BY <1>1, <1>7, AccumulatorFacts
<1>10. B \in [0..n -> Int]
  <2>1. \A i \in 1..n : g[i] = (n - (i - 1)) * w[i]
    OBVIOUS
  <2>2. \A i \in 1..n : B[i] = (B[i - 1] + g[i]) % Word
    BY <1>8, <2>1
  <2> HIDE DEF g
  <2> QED
    BY <1>1, <1>8, <2>2, AccumulatorFacts
<1> QED
  BY <1>6, <1>7, <1>8, <1>9, <1>10

\* Multiples of the modulus add up.
LEMMA Combine ==
  ASSUME NEW x \in Int, NEW y \in Int, NEW k \in Int, NEW l \in Int, NEW m \in Int, NEW o \in Int,
         x = y + k * Modulus - l * Modulus + m * Modulus + o * Modulus
  PROVE  Same(x, y)
<1>1. x = y + (k - l + m + o) * Modulus
  BY WordAssumption
<1> QED
  BY <1>1 DEF Same

\* Adding y to both of two sums that differ by x.
LEMMA AddBoth ==
  ASSUME NEW c \in Int, NEW d \in Int, NEW a \in Int, NEW e \in Int, NEW x \in Int, NEW y \in Int,
         Same(d, c + y), Same(e, a + y), Same(c, a - x)
  PROVE  Same(d, e - x)
<1>1. PICK k \in Int : d = c + y + k * Modulus
  BY DEF Same
<1>2. PICK l \in Int : e = a + y + l * Modulus
  BY DEF Same
<1>3. PICK m \in Int : c = a - x + m * Modulus
  BY DEF Same
<1>4. Modulus \in Int
  BY WordAssumption
<1>5. d = (e - x) + k * Modulus - l * Modulus + m * Modulus + 0 * Modulus
  BY <1>1, <1>2, <1>3, <1>4
<1> QED
  BY <1>5, Combine

\* The same of the weighted sums: y has one weight more in one than in the other.
LEMMA AddWeighted ==
  ASSUME NEW d \in Int, NEW e \in Int, NEW b \in Int, NEW f \in Int, NEW c \in Int, NEW g \in Int,
         NEW x \in Int, NEW y \in Int, NEW n \in Int,
         Same(e, d + n * y), Same(f, b + (n - 1) * y), Same(g, c + y), Same(d, b - x + c)
  PROVE  Same(e, f - x + g)
<1>1. PICK k \in Int : e = d + n * y + k * Modulus
  BY DEF Same
<1>2. PICK l \in Int : f = b + (n - 1) * y + l * Modulus
  BY DEF Same
<1>3. PICK m \in Int : g = c + y + m * Modulus
  BY DEF Same
<1>4. PICK o \in Int : d = b - x + c + o * Modulus
  BY DEF Same
<1>5. Modulus \in Int /\ -m \in Int
  BY WordAssumption
<1>6. n * y = (n - 1) * y + y
  OBVIOUS
<1>7. e = (f - x + g) + k * Modulus - l * Modulus + (-m) * Modulus + o * Modulus
  BY <1>1, <1>2, <1>3, <1>4, <1>5, <1>6
<1> DEFINE r == f - x + g
<1>8. r \in Int
  OBVIOUS
<1> HIDE DEF r
<1>9. e = r + k * Modulus - l * Modulus + (-m) * Modulus + o * Modulus
  BY <1>7 DEF r
<1>10. Same(e, r)
  BY ONLY <1>5, <1>8, <1>9, Combine, k \in Int, l \in Int, o \in Int, e \in Int
<1> QED
  BY <1>10 DEF r

\* roll is right: it gives the checksum of the window one byte further on.
LEMMA RollFacts ==
  ASSUME NEW n \in Nat \ {0}, NEW w \in [1..n -> Nat], NEW v \in [1..n -> Nat],
         \A i \in 1..n - 1 : v[i] = w[i + 1]
  PROVE  newWeakChecksum(v) = roll(newWeakChecksum(w), w[1], v[n])
<1>1. PICK A \in [0..n -> Int], B \in [0..n -> Int] :
        /\ A[0] = 0 /\ \A i \in 1..n : A[i] = (A[i - 1] + w[i]) % Word
        /\ B[0] = 0 /\ \A i \in 1..n : B[i] = (B[i - 1] + (n - (i - 1)) * w[i]) % Word
        /\ newWeakChecksum(w) = [a |-> A[n] % Modulus, b |-> B[n] % Modulus, length |-> n]
  BY ChecksumFacts
<1>2. PICK C \in [0..n -> Int], D \in [0..n -> Int] :
        /\ C[0] = 0 /\ \A i \in 1..n : C[i] = (C[i - 1] + v[i]) % Word
        /\ D[0] = 0 /\ \A i \in 1..n : D[i] = (D[i - 1] + (n - (i - 1)) * v[i]) % Word
        /\ newWeakChecksum(v) = [a |-> C[n] % Modulus, b |-> D[n] % Modulus, length |-> n]
  BY ChecksumFacts
<1>3. /\ \A i \in 0..n : A[i] \in Int /\ B[i] \in Int /\ C[i] \in Int /\ D[i] \in Int
      /\ \A i \in 1..n : w[i] \in Int /\ v[i] \in Int
      /\ Modulus \in Int /\ n \in Int /\ n - 1 \in Nat
  BY WordAssumption
\* Each sum, one step up.
<1>4. ASSUME NEW i \in 0..n - 1
      PROVE  /\ Same(A[i + 1], A[i] + w[i + 1]) /\ Same(B[i + 1], B[i] + (n - i) * w[i + 1])
             /\ Same(C[i + 1], C[i] + v[i + 1]) /\ Same(D[i + 1], D[i] + (n - i) * v[i + 1])
  <2>1. i + 1 \in 1..n /\ (i + 1) - 1 = i /\ i \in 0..n
    OBVIOUS
  <2>2. /\ A[i] \in Int /\ B[i] \in Int /\ C[i] \in Int /\ D[i] \in Int
        /\ w[i + 1] \in Int /\ v[i + 1] \in Int /\ n - i \in Int
    BY <1>3, <2>1
  <2>3. \A a, b, c \in Int : a + b * c \in Int /\ a + b \in Int
    OBVIOUS
  <2>4. /\ A[i] + w[i + 1] \in Int /\ B[i] + (n - i) * w[i + 1] \in Int
        /\ C[i] + v[i + 1] \in Int /\ D[i] + (n - i) * v[i + 1] \in Int
    BY ONLY <2>2, <2>3
  <2>5. /\ A[i + 1] = (A[(i + 1) - 1] + w[i + 1]) % Word
        /\ C[i + 1] = (C[(i + 1) - 1] + v[i + 1]) % Word
    BY <1>1, <1>2, <2>1
  <2>6. /\ B[i + 1] = (B[(i + 1) - 1] + (n - ((i + 1) - 1)) * w[i + 1]) % Word
        /\ D[i + 1] = (D[(i + 1) - 1] + (n - ((i + 1) - 1)) * v[i + 1]) % Word
    BY <1>1, <1>2, <2>1
  <2>7. /\ A[i + 1] = (A[i] + w[i + 1]) % Word
        /\ B[i + 1] = (B[i] + (n - i) * w[i + 1]) % Word
        /\ C[i + 1] = (C[i] + v[i + 1]) % Word
        /\ D[i + 1] = (D[i] + (n - i) * v[i + 1]) % Word
    BY ONLY <2>1, <2>5, <2>6
  <2> QED
    BY ONLY <2>4, <2>7, SameMod
<1> DEFINE S == {i \in 0..n - 1 : Same(C[i], A[i + 1] - w[1])}
           T == {i \in 0..n - 1 : Same(D[i], B[i + 1] - n * w[1] + C[i])}
<1>5. \A x, y \in Int : Same(x, y) => Same(y, x)
  BY SameSym
<1>6. /\ A[0] = 0 /\ B[0] = 0 /\ C[0] = 0 /\ D[0] = 0 /\ w[1] \in Int /\ 0 \in 0..n - 1
      /\ 1 \in 0..n /\ n * w[1] \in Int /\ A[1] \in Int /\ B[1] \in Int
  <2>1. \A b \in Int : n * b \in Int
    OBVIOUS
  <2>2. w[1] \in Int /\ 1 \in 0..n /\ 0 \in 0..n - 1
    BY <1>3
  <2> QED
    BY <1>1, <1>2, <1>3, <2>1, <2>2
\* The first byte is what the window leaves behind.
<1>7. Same(0, A[1] - w[1]) /\ Same(0, B[1] - n * w[1] + 0)
  <2>1. Same(A[0 + 1], A[0] + w[0 + 1]) /\ Same(B[0 + 1], B[0] + (n - 0) * w[0 + 1])
    BY <1>4, <1>6
  <2>2. Same(A[1], w[1]) /\ Same(B[1], n * w[1])
    <3>1. 0 + 1 = 1 /\ n - 0 = n /\ \A x \in Int : 0 + x = x
      BY <1>3
    <3> QED
      BY ONLY <1>6, <2>1, <3>1
  <2>3. \A x, y \in Int : Same(x, y) => Same(0, x - y)
    <3> TAKE x \in Int, y \in Int
    <3> HAVE Same(x, y)
    <3>1. PICK k \in Int : x = y + k * Modulus
      BY DEF Same
    <3>2. 0 = (x - y) + (-k) * Modulus /\ -k \in Int
      BY <1>3, <3>1
    <3> QED
      BY <3>2 DEF Same
  <2>4. B[1] - n * w[1] + 0 = B[1] - n * w[1]
    BY <1>6
  <2> QED
    BY ONLY <1>6, <2>2, <2>3, <2>4
<1>8. ASSUME NEW i \in 0..(n - 1) - 1
      PROVE  /\ i \in 0..n - 1 /\ i + 1 \in 0..n - 1 /\ (i + 1) + 1 = i + 2
             /\ Same(A[i + 2], A[i + 1] + v[i + 1])
             /\ Same(B[i + 2], B[i + 1] + ((n - i) - 1) * v[i + 1])
             /\ Same(C[i + 1], C[i] + v[i + 1])
             /\ Same(D[i + 1], D[i] + (n - i) * v[i + 1])
             /\ A[i + 1] \in Int /\ A[i + 2] \in Int /\ B[i + 1] \in Int /\ B[i + 2] \in Int
             /\ C[i] \in Int /\ C[i + 1] \in Int /\ D[i] \in Int /\ D[i + 1] \in Int
             /\ v[i + 1] \in Int /\ n - i \in Int
  <2>1. /\ i \in 0..n - 1 /\ i + 1 \in 0..n - 1 /\ (i + 1) + 1 = i + 2 /\ i + 1 \in 1..n - 1
        /\ i + 1 \in 1..n /\ i \in 0..n /\ i + 1 \in 0..n /\ i + 2 \in 0..n
        /\ n - i \in Int /\ n - (i + 1) = (n - i) - 1
    OBVIOUS
  <2>2. v[i + 1] = w[i + 2] /\ v[i + 1] \in Int
    <3>1. v[i + 1] = w[(i + 1) + 1] /\ v[i + 1] \in Int
      BY <1>3, <2>1
    <3> QED
      BY ONLY <2>1, <3>1
  <2>3. /\ Same(A[(i + 1) + 1], A[i + 1] + w[(i + 1) + 1])
        /\ Same(B[(i + 1) + 1], B[i + 1] + (n - (i + 1)) * w[(i + 1) + 1])
        /\ Same(C[i + 1], C[i] + v[i + 1]) /\ Same(D[i + 1], D[i] + (n - i) * v[i + 1])
    BY <1>4, <2>1
  <2> QED
    BY ONLY <1>3, <2>1, <2>2, <2>3
<1>9. \A i \in 0..n - 1 : i \in S
  <2>1. 0 \in S
    BY ONLY <1>6, <1>7
  <2>2. ASSUME NEW i \in 0..(n - 1) - 1, i \in S
        PROVE  i + 1 \in S
    <3>1. Same(C[i], A[i + 1] - w[1])
      BY <2>2
    <3>2. /\ i + 1 \in 0..n - 1 /\ (i + 1) + 1 = i + 2 /\ w[1] \in Int /\ v[i + 1] \in Int
          /\ A[i + 1] \in Int /\ A[i + 2] \in Int /\ C[i] \in Int /\ C[i + 1] \in Int
          /\ Same(A[i + 2], A[i + 1] + v[i + 1]) /\ Same(C[i + 1], C[i] + v[i + 1])
      BY <1>6, <1>8
    <3> DEFINE c == C[i]
               d == C[i + 1]
               a == A[i + 1]
               e == A[i + 2]
               x == w[1]
               y == v[i + 1]
    <3>3. /\ c \in Int /\ d \in Int /\ a \in Int /\ e \in Int /\ x \in Int /\ y \in Int
          /\ Same(d, c + y) /\ Same(e, a + y) /\ Same(c, a - x)
      BY ONLY <3>1, <3>2
    <3> HIDE DEF c, d, a, e, x, y
    <3>4. Same(d, e - x)
      BY ONLY <3>3, AddBoth
    <3>5. Same(C[i + 1], A[i + 2] - w[1])
      BY ONLY <3>4 DEF d, e, x
    <3> QED
      BY ONLY <3>2, <3>5
  <2> HIDE DEF S
  <2> QED
    BY <1>3, <2>1, <2>2, Upwards
<1>10. \A i \in 0..n - 1 : i \in T
  <2>1. 0 \in T
    BY ONLY <1>6, <1>7
  <2>2. ASSUME NEW i \in 0..(n - 1) - 1, i \in T
        PROVE  i + 1 \in T
    <3>1. Same(D[i], B[i + 1] - n * w[1] + C[i])
      BY <2>2
    <3>2. /\ i + 1 \in 0..n - 1 /\ (i + 1) + 1 = i + 2 /\ n * w[1] \in Int /\ v[i + 1] \in Int
          /\ B[i + 1] \in Int /\ B[i + 2] \in Int /\ C[i] \in Int /\ C[i + 1] \in Int
          /\ D[i] \in Int /\ D[i + 1] \in Int /\ n - i \in Int
          /\ Same(B[i + 2], B[i + 1] + ((n - i) - 1) * v[i + 1])
          /\ Same(C[i + 1], C[i] + v[i + 1]) /\ Same(D[i + 1], D[i] + (n - i) * v[i + 1])
      BY <1>6, <1>8
    <3> DEFINE d == D[i]
               e == D[i + 1]
               b == B[i + 1]
               f == B[i + 2]
               c == C[i]
               g == C[i + 1]
               x == n * w[1]
               y == v[i + 1]
               k == n - i
    <3>3. /\ d \in Int /\ e \in Int /\ b \in Int /\ f \in Int /\ c \in Int /\ g \in Int
          /\ x \in Int /\ y \in Int /\ k \in Int
          /\ Same(e, d + k * y) /\ Same(f, b + (k - 1) * y) /\ Same(g, c + y) /\ Same(d, b - x + c)
      BY ONLY <3>1, <3>2
    <3> HIDE DEF d, e, b, f, c, g, x, y, k
    <3>4. Same(e, f - x + g)
      BY ONLY <3>3, AddWeighted
    <3>5. Same(D[i + 1], B[i + 2] - n * w[1] + C[i + 1])
      BY ONLY <3>4 DEF e, f, x, g
    <3> QED
      BY ONLY <3>2, <3>5
  <2> HIDE DEF T
  <2> QED
    BY <1>3, <2>1, <2>2, Upwards
\* The whole sums.
<1> DEFINE a == (((A[n] % Modulus) - w[1] + v[n]) % Word) % Modulus
           b == (((B[n] % Modulus) - n * w[1] + a) % Word) % Modulus
<1>11. /\ n - 1 \in 0..n - 1 /\ (n - 1) + 1 = n /\ n - (n - 1) = 1 /\ v[n] \in Int
       /\ A[n] \in Int /\ B[n] \in Int /\ C[n] \in Int /\ D[n] \in Int
       /\ C[n - 1] \in Int /\ D[n - 1] \in Int
  <2>1. n - 1 \in 0..n - 1 /\ (n - 1) + 1 = n /\ n - (n - 1) = 1 /\ n \in 0..n /\ n - 1 \in 0..n /\ n \in 1..n
    OBVIOUS
  <2> QED
    BY <1>3, <2>1
<1>12. /\ Same(C[n - 1], A[n] - w[1]) /\ Same(D[n - 1], B[n] - n * w[1] + C[n - 1])
       /\ Same(C[n], C[n - 1] + v[n]) /\ Same(D[n], D[n - 1] + v[n])
  <2>1. /\ Same(C[n - 1], A[(n - 1) + 1] - w[1])
        /\ Same(D[n - 1], B[(n - 1) + 1] - n * w[1] + C[n - 1])
    BY <1>9, <1>10, <1>11
  <2>2. /\ Same(C[(n - 1) + 1], C[n - 1] + v[(n - 1) + 1])
        /\ Same(D[(n - 1) + 1], D[n - 1] + (n - (n - 1)) * v[(n - 1) + 1])
    BY <1>4, <1>11
  <2>3. 1 * v[n] = v[n]
    BY <1>11
  <2> QED
    BY ONLY <1>11, <2>1, <2>2, <2>3
<1>13. Same(C[n], A[n] - w[1] + v[n])
  <2> DEFINE c == C[n - 1]
             d == C[n]
             e == A[n]
             x == w[1]
             y == v[n]
  <2>1. /\ c \in Int /\ d \in Int /\ e \in Int /\ x \in Int /\ y \in Int
        /\ Same(c, e - x) /\ Same(d, c + y)
    BY ONLY <1>6, <1>11, <1>12
  <2> HIDE DEF c, d, e, x, y
  <2>2. PICK k \in Int : d = c + y + k * Modulus
    BY ONLY <2>1 DEF Same
  <2>3. PICK l \in Int : c = e - x + l * Modulus
    BY ONLY <2>1 DEF Same
  <2>4. d = (e - x + y) + (k + l) * Modulus /\ k + l \in Int
    BY ONLY <1>3, <2>1, <2>2, <2>3
  <2>5. Same(d, e - x + y)
    BY ONLY <2>4 DEF Same
  <2> QED
    BY ONLY <2>5 DEF d, e, x, y
<1>14. Same(D[n], B[n] - n * w[1] + C[n])
  <2> DEFINE c == C[n - 1]
             g == C[n]
             d == D[n - 1]
             e == D[n]
             f == B[n]
             x == n * w[1]
             y == v[n]
  <2>1. /\ c \in Int /\ g \in Int /\ d \in Int /\ e \in Int /\ f \in Int /\ x \in Int /\ y \in Int
        /\ Same(d, f - x + c) /\ Same(e, d + y) /\ Same(g, c + y)
    BY ONLY <1>6, <1>11, <1>12
  <2> HIDE DEF c, g, d, e, f, x, y
  <2>2. PICK k \in Int : e = d + y + k * Modulus
    BY ONLY <2>1 DEF Same
  <2>3. PICK l \in Int : d = f - x + c + l * Modulus
    BY ONLY <2>1 DEF Same
  <2>4. PICK m \in Int : g = c + y + m * Modulus
    BY ONLY <2>1 DEF Same
  <2>5. e = (f - x + g) + (k + l - m) * Modulus /\ k + l - m \in Int
    BY ONLY <1>3, <2>1, <2>2, <2>3, <2>4
  <2>6. Same(e, f - x + g)
    BY ONLY <2>5 DEF Same
  <2> QED
    BY ONLY <2>6 DEF e, f, x, g
\* What is reduced on the way has the same remainder.
<1>15. ASSUME NEW x \in Int, NEW y \in Int, NEW z \in Int, Same(x, y + z)
       PROVE  x % Modulus = (((y % Modulus) + z) % Word) % Modulus
  <2> DEFINE r == y % Modulus
             s == (r + z) % Word
  <2>1. r \in Int /\ Same(r, y)
    <3>1. r \in 0..Modulus - 1 /\ Same(r, y)
      BY SameMod
    <3> HIDE DEF r
    <3> QED
      BY <1>3, <3>1
  <2> HIDE DEF r
  <2>2. r + z \in Int /\ y + z \in Int
    BY <2>1
  <2>3. s \in Int /\ Same(s, r + z)
    <3>1. s \in 0..Word - 1 /\ Same(s, r + z)
      BY <2>2, SameMod
    <3> HIDE DEF s
    <3> QED
      BY <3>1, WordAssumption
  <2> HIDE DEF s
  <2>4. Same(z, z)
    BY SameRefl
  <2>5. Same(r + z, y + z)
    BY ONLY <2>1, <2>4, SameSum, y \in Int, z \in Int
  <2>6. Same(s, y + z)
    BY ONLY <2>2, <2>3, <2>5, SameTrans
  <2>7. Same(y + z, s)
    BY <1>5, <2>2, <2>3, <2>6
  <2>8. Same(x, s)
    <3>1. x \in Int /\ Same(x, y + z)
      BY <1>15
    <3> QED
      BY ONLY <2>2, <2>3, <2>7, <3>1, SameTrans
  <2>9. x % Modulus = s % Modulus
    BY <2>3, <2>8, SameRemainder
  <2> QED
    BY <2>9 DEF r, s
<1>16. \A x \in Int : x % Modulus \in Int
  <2> TAKE x \in Int
  <2> DEFINE r == x % Modulus
  <2>1. r \in 0..Modulus - 1
    BY SameMod
  <2> HIDE DEF r
  <2>2. r \in Int
    BY <1>3, <2>1
  <2> QED
    BY <2>2 DEF r
<1>17. \A x, y, z \in Int : /\ -x \in Int /\ -x + z \in Int
                            /\ y - x + z = y + (-x + z)
  OBVIOUS
<1>18. C[n] % Modulus = a
  <2> DEFINE x == w[1]
             y == A[n]
             z == v[n]
             d == C[n]
             r == y % Modulus
  <2>1. x \in Int /\ y \in Int /\ z \in Int /\ d \in Int /\ Same(d, y - x + z) /\ r \in Int
    BY <1>6, <1>11, <1>13, <1>16
  <2> HIDE DEF x, y, z, d
  <2>2. -x + z \in Int /\ y - x + z = y + (-x + z)
    BY ONLY <1>17, <2>1
  <2>3. Same(d, y + (-x + z))
    BY ONLY <2>1, <2>2
  <2>4. d % Modulus = ((r + (-x + z)) % Word) % Modulus
    BY <1>15, <2>1, <2>2, <2>3
  <2> HIDE DEF r
  <2>5. r - x + z = r + (-x + z)
    BY ONLY <1>17, <2>1
  <2>6. d % Modulus = ((r - x + z) % Word) % Modulus
    BY ONLY <2>4, <2>5
  <2> QED
    BY ONLY <2>6 DEF d, r, y, x, z, a
<1>19. a \in Int /\ Same(C[n], a)
  <2>1. a \in Int /\ Same(C[n] % Modulus, C[n])
    <3>1. Same(C[n] % Modulus, C[n]) /\ C[n] % Modulus \in Int
      BY <1>11, <1>16, SameMod
    <3> QED
      BY ONLY <1>18, <3>1
  <2>2. Same(a, C[n])
    BY ONLY <1>18, <2>1
  <2> HIDE DEF a
  <2> QED
    BY <1>5, <1>11, <2>1, <2>2
<1>20. D[n] % Modulus = b
  <2> DEFINE x == n * w[1]
             y == B[n]
             z == C[n]
             d == D[n]
             r == y % Modulus
  <2>1. /\ x \in Int /\ y \in Int /\ z \in Int /\ d \in Int /\ r \in Int
        /\ Same(d, y - x + z) /\ a \in Int /\ Same(z, a)
    BY <1>6, <1>11, <1>14, <1>16, <1>19
  <2> HIDE DEF x, y, z, d, a
  <2>2. PICK k \in Int : d = y - x + z + k * Modulus
    BY ONLY <2>1 DEF Same
  <2>3. PICK l \in Int : z = a + l * Modulus
    BY ONLY <2>1 DEF Same
  <2>4. d = (y + (-x + a)) + (k + l) * Modulus /\ k + l \in Int /\ -x + a \in Int
    BY ONLY <1>3, <2>1, <2>2, <2>3
  <2>5. Same(d, y + (-x + a))
    BY ONLY <2>4 DEF Same
  <2>6. d % Modulus = ((r + (-x + a)) % Word) % Modulus
    BY <1>15, <2>1, <2>4, <2>5
  <2> HIDE DEF r
  <2>7. r - x + a = r + (-x + a)
    BY ONLY <1>17, <2>1
  <2>8. d % Modulus = ((r - x + a) % Word) % Modulus
    BY ONLY <2>6, <2>7
  <2> QED
    BY ONLY <2>8 DEF d, r, y, x, b
<1> QED
  <2> HIDE DEF a, b
  <2>1. roll(newWeakChecksum(w), w[1], v[n]) = [a |-> a, b |-> b, length |-> n]
    BY <1>1 DEF roll, a, b
  <2> QED
    BY <1>2, <1>18, <1>20, <2>1

-----------------------------------------------------------------------------
(* No block is sent as a literal. *)

\* The window is one byte sequence of the block size.
LEMMA WindowFacts ==
  ASSUME IInv, Scanning, NEW p \in Nat, p + DefaultBlockSize <= Len(new)
  PROVE  LET w == SubSeq(new, p + 1, p + DefaultBlockSize)
         IN /\ w \in [1..DefaultBlockSize -> Nat] /\ Len(w) = DefaultBlockSize
            /\ \A i \in 1..DefaultBlockSize : w[i] = new[p + i]
<1> DEFINE n == DefaultBlockSize
           w == SubSeq(new, p + 1, p + n)
<1>1. new \in Seq(Byte) /\ Len(new) \in Nat /\ n \in Nat \ {0}
  BY ScanFacts
<1>2. p + n <= Len(new)
  OBVIOUS
<1> HIDE DEF n
<1>3. p + 1 \in 1..Len(new) + 1 /\ p + n \in p + 1..Len(new) /\ (p + n) - (p + 1) + 1 = n
  BY <1>1, <1>2
<1>4. w \in Seq(Byte) /\ Len(w) = n
  BY <1>1, <1>2, Piece
<1>5. \A i \in 1..n : w[i] = new[p + i]
  <2> TAKE i \in 1..n
  <2>1. w[i] = new[(p + 1) + i - 1]
    <3> DEFINE a == p + 1
               b == p + n
    <3>1. /\ a \in 1..Len(new) + 1 /\ b \in a - 1..Len(new) /\ i \in 1..b - a + 1
          /\ new \in Seq(Byte) /\ w = SubSeq(new, a, b)
      BY <1>1, <1>3
    <3> HIDE DEF a, b, w
    <3>2. w[i] = new[a + i - 1]
      BY ONLY <3>1, SubSeqProperties
    <3> QED
      BY ONLY <3>2 DEF a
  <2>2. (p + 1) + i - 1 = p + i
    BY <1>1
  <2> QED
    BY <2>1, <2>2
<1> HIDE DEF w
<1>6. w \in [1..n -> Nat]
  <2>1. w \in [1..n -> Byte]
    BY <1>4, LenProperties
  <2> QED
    BY <2>1, ByteAssumption
<1> QED
  BY <1>4, <1>5, <1>6 DEF w, n

\* What roll() keeps is the checksum of the window it has moved to.
LEMMA RolledWindow ==
  ASSUME IInv, Scanning, pos + 1 + DefaultBlockSize <= Len(new)
  PROVE  newWeakChecksum(SubSeq(new, (pos + 1) + 1, (pos + 1) + DefaultBlockSize))
           = roll(newWeakChecksum(Window), new[pos + 1], new[pos + 1 + DefaultBlockSize])
<1> DEFINE n == DefaultBlockSize
           w == SubSeq(new, pos + 1, pos + n)
           v == SubSeq(new, (pos + 1) + 1, (pos + 1) + n)
<1>1. /\ pos \in Nat /\ pos + 1 \in Nat /\ n \in Nat \ {0} /\ Len(new) \in Nat
      /\ pos + n <= Len(new) /\ (pos + 1) + n <= Len(new) /\ Window = w
  <2>1. pos \in Nat /\ n \in Nat \ {0} /\ Len(new) \in Nat /\ blockSize = n
    BY ScanFacts
  <2>2. Window = w
    BY <2>1 DEF Window
  <2>3. pos + 1 + n <= Len(new)
    OBVIOUS
  <2> HIDE DEF n, w
  <2> QED
    BY <2>1, <2>2, <2>3
<1>2. w \in [1..n -> Nat] /\ \A i \in 1..n : w[i] = new[pos + i]
  BY <1>1, WindowFacts
<1>3. v \in [1..n -> Nat] /\ \A i \in 1..n : v[i] = new[(pos + 1) + i]
  BY <1>1, WindowFacts
<1> HIDE DEF n, w, v
<1>4. \A i \in 1..n - 1 : v[i] = w[i + 1]
  <2> TAKE i \in 1..n - 1
  <2>1. i \in 1..n /\ i + 1 \in 1..n /\ (pos + 1) + i = pos + (i + 1)
    BY <1>1
  <2> QED
    BY <1>2, <1>3, <2>1
<1>5. w[1] = new[pos + 1] /\ v[n] = new[(pos + 1) + n]
  <2>1. 1 \in 1..n /\ n \in 1..n
    BY <1>1
  <2> QED
    BY <1>2, <1>3, <2>1
<1>6. newWeakChecksum(v) = roll(newWeakChecksum(w), w[1], v[n])
  BY <1>1, <1>2, <1>3, <1>4, RollFacts
<1>7. newWeakChecksum(v) = roll(newWeakChecksum(w), new[pos + 1], new[(pos + 1) + n])
  BY ONLY <1>5, <1>6
<1> QED
  BY <1>1, <1>7 DEF v, n

\* A window without a match is no block: a block's window has its weak sum,
\* so the index of weak sums finds it.
LEMMA NoMatchNoBlock ==
  ASSUME IInv, Scanning, weak = newWeakChecksum(Window), Matches = {},
         NEW j \in 1..Len(sig.blocks)
  PROVE  SubSeq(new, pos + 1, pos + DefaultBlockSize) # BlockBytes(old, DefaultBlockSize, j - 1)
<1> DEFINE D == DefaultBlockSize
           block == BlockBytes(old, D, j - 1)
<1>1. /\ Len(old) \in Nat /\ D \in Nat \ {0} /\ blockSize = D /\ sig = GenerateSignature(old)
  BY ScanFacts, FileIsSeq DEF IInv, TypeOK
<1>2. sig.blocks[j] = [weak |-> sum(newWeakChecksum(block)), strong |-> Strong(block)]
  <2>1. (Len(old) + D - 1) \div D \in Nat
    BY ONLY <1>1, BlockCount
  <2> QED
    BY <1>1, <2>1 DEF GenerateSignature
<1> SUFFICES ASSUME SubSeq(new, pos + 1, pos + D) = block PROVE FALSE
  OBVIOUS
<1>3. Window = block
  BY <1>1 DEF Window
<1> HIDE DEF block, D
<1>4. sig.blocks[j].weak = sum(weak) /\ sig.blocks[j].strong = Strong(Window)
  BY <1>2, <1>3
<1>5. j \in Matches
  BY <1>4 DEF Matches
<1> QED
  BY <1>5

\* NoBlock of a range that is one offset longer.
LEMMA NoBlockGrow ==
  ASSUME NEW first \in Nat, NEW p \in Nat, NoBlock(first, p),
         \A j \in 1..Len(sig.blocks) :
           SubSeq(new, p + 1, p + DefaultBlockSize) # BlockBytes(old, DefaultBlockSize, j - 1)
  PROVE  NoBlock(first, p + 1)
<1> SUFFICES ASSUME NEW q \in first..(p + 1) - 1, q + DefaultBlockSize <= Len(new),
                    NEW j \in 1..Len(sig.blocks)
             PROVE  SubSeq(new, q + 1, q + DefaultBlockSize) # BlockBytes(old, DefaultBlockSize, j - 1)
  BY DEF NoBlock
<1>1. CASE q = p
  BY <1>1
<1>2. CASE q # p
  <2>1. q \in first..p - 1
    BY <1>2
  <2> QED
    BY <2>1 DEF NoBlock
<1> QED
  BY <1>1, <1>2

\* Appending an operation keeps the literals free of blocks when it is a copy or
\* a literal free of blocks.
LEMMA NoBlockAppend ==
  ASSUME NEW o \in Seq(Op), NEW e \in Seq(0..MaxLen), Len(e) = Len(o),
         NEW op \in Op, NEW last \in 0..MaxLen,
         \A i \in 1..Len(o) : o[i].kind = "data" => NoBlock(StartOf(e, i), e[i]),
         op.kind = "data" => NoBlock(LastEnd(e), last)
  PROVE  \A i \in 1..Len(Append(o, op)) : Append(o, op)[i].kind = "data" =>
           NoBlock(StartOf(Append(e, last), i), Append(e, last)[i])
<1> DEFINE o2 == Append(o, op)
           e2 == Append(e, last)
<1>1. /\ Len(o2) = Len(o) + 1 /\ o2[Len(o) + 1] = op /\ Len(o) \in Nat
      /\ \A i \in 1..Len(o) : o2[i] = o[i]
  BY AppendProperties
<1>2. /\ e2[Len(o) + 1] = last /\ \A i \in 1..Len(o) : e2[i] = e[i]
  BY AppendProperties
<1> HIDE DEF o2, e2
<1> SUFFICES ASSUME NEW i \in 1..Len(o2), o2[i].kind = "data"
             PROVE  NoBlock(StartOf(e2, i), e2[i])
  BY DEF o2, e2
<1>3. CASE i \in 1..Len(o)
  <2>1. o2[i] = o[i] /\ e2[i] = e[i]
    BY <1>1, <1>2, <1>3
  <2>2. StartOf(e2, i) = StartOf(e, i)
    <3>1. i # 1 => i - 1 \in 1..Len(o)
      BY <1>1, <1>3
    <3> QED
      BY <1>2, <3>1 DEF StartOf
  <2> QED
    BY <1>3, <2>1, <2>2
<1>4. CASE i = Len(o) + 1
  <2>1. StartOf(e2, i) = LastEnd(e)
    <3>1. CASE e = <<>>
      <4>1. Len(o) = 0
        BY <3>1
      <4> QED
        BY <1>4, <3>1, <4>1 DEF StartOf, LastEnd
    <3>2. CASE e # <<>>
      <4>1. Len(o) # 0 /\ Len(o) \in 1..Len(o) /\ i - 1 = Len(o) /\ i # 1
        BY <1>1, <1>4, <3>2, EmptySeq
      <4>2. e2[Len(o)] = e[Len(o)]
        BY <1>2, <4>1
      <4> QED
        BY <3>2, <4>1, <4>2 DEF StartOf, LastEnd
    <3> QED
      BY <3>1, <3>2
  <2> QED
    BY <1>1, <1>2, <1>4, <2>1
<1> QED
  BY <1>1, <1>3, <1>4

\* A step that sends nothing and stays where it is keeps the literals.
LEMMA LiteralFrame ==
  ASSUME MatchInv, UNCHANGED <<inputs, action, sig, pos, ops, ends>>,
         ~Scanning', phase \in {"scan", "apply", "done"}, phase' \in {"scan", "apply", "done", "failed"}, 
         phase' = "scan" => phase = "scan"
  PROVE  MatchInv'
<1>1. action' = "none" => \A i \in 1..Len(ops) : ops[i].kind = "data" => NoBlock(StartOf(ends, i), ends[i])'
  <2> SUFFICES ASSUME action' = "none", NEW i \in 1..Len(ops), ops[i].kind = "data"
               PROVE  NoBlock(StartOf(ends, i), ends[i])'
    OBVIOUS
  <2>1. NoBlock(StartOf(ends, i), ends[i])
    BY DEF MatchInv
  <2> QED
    BY <2>1 DEF NoBlock, BlockBytes, inputs, StartOf
<1> QED
  BY <1>1 DEF MatchInv, Scanning

\* A checksum computed from scratch is the window's.
LEMMA FreshWindowMatch ==
  ASSUME IInv, MatchInv, FreshWindow
  PROVE  MatchInv'
<1>1. /\ Scanning /\ weak' = newWeakChecksum(Window) /\ phase' = "scan" /\ phase = "scan"
      /\ action = "none" /\ action' = "none"
      /\ UNCHANGED <<inputs, action, sig, pos, ops, ends>>
  BY DEF FreshWindow, Scanning
<1>2. Window' = Window
  BY <1>1 DEF Window, blockSize, inputs
<1>3. \A i \in 1..Len(ops) : ops[i].kind = "data" => NoBlock(StartOf(ends, i), ends[i])'
  <2> SUFFICES ASSUME NEW i \in 1..Len(ops), ops[i].kind = "data"
               PROVE  NoBlock(StartOf(ends, i), ends[i])'
    OBVIOUS
  <2>1. NoBlock(StartOf(ends, i), ends[i])
    BY <1>1 DEF MatchInv
  <2> QED
    BY <1>1, <2>1 DEF NoBlock, BlockBytes, inputs, StartOf
<1>4. NoBlock(LastEnd(ends), pos)'
  <2>1. NoBlock(LastEnd(ends), pos)
    BY <1>1 DEF MatchInv
  <2> QED
    BY <1>1, <2>1 DEF NoBlock, BlockBytes, inputs, LastEnd
<1> QED
  BY <1>1, <1>2, <1>3, <1>4 DEF MatchInv

\* A window without a match is no block, and roll() moves its checksum on.
LEMMA SlideByteMatch ==
  ASSUME IInv, MatchInv, SlideByte
  PROVE  MatchInv'
<1>1. /\ Scanning /\ phase' = "scan" /\ phase = "scan" /\ weak # NoWeak /\ Matches = {}
      /\ action = "none" /\ action' = "none" /\ pos' = pos + 1
      /\ UNCHANGED <<inputs, action, sig, ops, ends>>
      /\ weak' = IF pos + 1 + blockSize > Len(new) THEN NoWeak
                 ELSE roll(weak, new[pos + 1], new[pos + 1 + blockSize])
  BY DEF SlideByte, Scanning
<1>2. /\ pos \in Nat /\ DefaultBlockSize \in Nat /\ blockSize = DefaultBlockSize /\ LastEnd(ends) \in Nat
      /\ Len(new) \in Nat
  <2>1. /\ pos \in 0..Len(new) /\ LastEnd(ends) \in 0..pos /\ Len(new) \in Nat
        /\ DefaultBlockSize \in Nat /\ blockSize = DefaultBlockSize
    BY <1>1, ScanFacts
  <2> QED
    BY <2>1
<1>3. weak = newWeakChecksum(Window)
  BY <1>1 DEF MatchInv
<1>4. weak' # NoWeak => weak' = newWeakChecksum(Window')
  <2> SUFFICES ASSUME weak' # NoWeak PROVE weak' = newWeakChecksum(Window')
    OBVIOUS
  <2>1. /\ ~(pos + 1 + DefaultBlockSize > Len(new))
        /\ weak' = roll(weak, new[pos + 1], new[pos + 1 + DefaultBlockSize])
    BY ONLY <1>1, <1>2, weak' # NoWeak
  <2>2. pos + 1 + DefaultBlockSize <= Len(new)
    BY ONLY <1>2, <2>1
  <2>3. Window' = SubSeq(new, (pos + 1) + 1, (pos + 1) + DefaultBlockSize)
    <3>1. new' = new /\ sig' = sig /\ blockSize' = blockSize
      BY <1>1 DEF inputs, blockSize
    <3>2. Window' = SubSeq(new', pos' + 1, pos' + blockSize')
      BY DEF Window
    <3> QED
      BY ONLY <1>1, <1>2, <3>1, <3>2
  <2>4. newWeakChecksum(SubSeq(new, (pos + 1) + 1, (pos + 1) + DefaultBlockSize))
          = roll(newWeakChecksum(Window), new[pos + 1], new[pos + 1 + DefaultBlockSize])
    BY <1>1, <2>2, RolledWindow
  <2> QED
    BY ONLY <1>3, <2>1, <2>3, <2>4
<1>5. NoBlock(LastEnd(ends), pos + 1)
  <2>1. NoBlock(LastEnd(ends), pos)
    BY <1>1 DEF MatchInv
  <2>2. \A j \in 1..Len(sig.blocks) :
          SubSeq(new, pos + 1, pos + DefaultBlockSize) # BlockBytes(old, DefaultBlockSize, j - 1)
    BY <1>1, <1>3, NoMatchNoBlock
  <2> QED
    BY <1>2, <2>1, <2>2, NoBlockGrow
<1>6. NoBlock(LastEnd(ends), pos)'
  BY <1>1, <1>5 DEF NoBlock, BlockBytes, inputs, LastEnd
<1>7. \A i \in 1..Len(ops) : ops[i].kind = "data" => NoBlock(StartOf(ends, i), ends[i])'
  <2> SUFFICES ASSUME NEW i \in 1..Len(ops), ops[i].kind = "data"
               PROVE  NoBlock(StartOf(ends, i), ends[i])'
    OBVIOUS
  <2>1. NoBlock(StartOf(ends, i), ends[i])
    BY <1>1 DEF MatchInv
  <2> QED
    BY <1>1, <2>1 DEF NoBlock, BlockBytes, inputs, StartOf
<1> QED
  BY <1>1, <1>4, <1>6, <1>7 DEF MatchInv

\* The literal in front of the copy is the pending one; the copy is none.
LEMMA MatchBlockMatch ==
  ASSUME IInv, MatchInv, MatchBlock
  PROVE  MatchInv'
<1>1. /\ Scanning /\ phase' = "scan" /\ phase = "scan"
      /\ action = "none" /\ action' = "none" /\ pos' = pos + blockSize /\ weak' = NoWeak
      /\ UNCHANGED <<inputs, action, sig>> /\ ends' = Append(FlushedEnds, pos + blockSize)
  BY DEF MatchBlock, Scanning
<1>2. PICK i \in Matches : ops' = Append(FlushedOps, CopyOp(i - 1))
  BY DEF MatchBlock
<1>3. /\ pos \in 0..MaxLen /\ DefaultBlockSize \in Nat /\ blockSize = DefaultBlockSize
      /\ pos + DefaultBlockSize \in 0..MaxLen /\ new \in Seq(Byte)
      /\ pending = SubSeq(new, LastEnd(ends) + 1, pos) /\ pending \in Literal
  <2>1. /\ pos \in 0..Len(new) /\ LastEnd(ends) \in 0..pos /\ Len(new) \in 0..MaxLen
        /\ DefaultBlockSize \in Nat /\ blockSize = DefaultBlockSize /\ MaxLen \in Nat
        /\ pending = SubSeq(new, LastEnd(ends) + 1, pos) /\ new \in Seq(Byte)
    BY <1>1, ScanFacts
  <2>2. pos + DefaultBlockSize <= Len(new) /\ pending \in Literal
    BY <1>1 DEF IInv, ScanInv, TypeOK, MatchBlock
  <2> QED
    BY <2>1, <2>2
<1>4. /\ ops \in Seq(Op) /\ ends \in Seq(0..MaxLen) /\ Len(ends) = Len(ops)
      /\ \A k \in 1..Len(ops) : ops[k].kind = "data" => NoBlock(StartOf(ends, k), ends[k])
      /\ NoBlock(LastEnd(ends), pos)
  BY <1>1 DEF IInv, TypeOK, MatchInv, Op
<1> DEFINE o == FlushedOps
           e == FlushedEnds
<1>5. /\ o \in Seq(Op) /\ e \in Seq(0..MaxLen) /\ Len(e) = Len(o)
      /\ \A k \in 1..Len(o) : o[k].kind = "data" => NoBlock(StartOf(e, k), e[k])
  <2>1. CASE pending = <<>>
    BY <1>4, <2>1 DEF FlushedOps, FlushedEnds
  <2>2. CASE pending # <<>>
    <3>1. DataOp(pending) \in Op
      BY <1>3 DEF DataOp, Op, Literal
    <3>2. o = Append(ops, DataOp(pending)) /\ e = Append(ends, pos)
      BY <2>2 DEF FlushedOps, FlushedEnds
    <3>3. \A k \in 1..Len(Append(ops, DataOp(pending))) : Append(ops, DataOp(pending))[k].kind = "data" =>
            NoBlock(StartOf(Append(ends, pos), k), Append(ends, pos)[k])
      BY <1>3, <1>4, <3>1, NoBlockAppend
    <3>4. /\ Append(ops, DataOp(pending)) \in Seq(Op) /\ Append(ends, pos) \in Seq(0..MaxLen)
          /\ Len(Append(ends, pos)) = Len(Append(ops, DataOp(pending)))
      BY <1>3, <1>4, <3>1, AppendProperties
    <3> HIDE DEF o, e
    <3> QED
      BY ONLY <3>2, <3>3, <3>4
  <2> QED
    BY <2>1, <2>2
<1> HIDE DEF o, e
<1>6. CopyOp(i - 1) \in Op /\ CopyOp(i - 1).kind # "data"
  <2>1. i - 1 \in Nat
    BY <1>2 DEF Matches
  <2> QED
    BY <2>1, EmptySeq DEF CopyOp, Op, Literal
<1>7. \A k \in 1..Len(ops') : ops'[k].kind = "data" => NoBlock(StartOf(ends', k), ends'[k])
  <2> DEFINE last == pos + DefaultBlockSize
             op == CopyOp(i - 1)
  <2>1. ops' = Append(o, op) /\ ends' = Append(e, last)
    BY <1>1, <1>2, <1>3 DEF o, e
  <2>2. last \in 0..MaxLen /\ op \in Op /\ op.kind # "data"
    BY <1>3, <1>6
  <2> HIDE DEF last, op
  <2>3. \A k \in 1..Len(Append(o, op)) : Append(o, op)[k].kind = "data" =>
          NoBlock(StartOf(Append(e, last), k), Append(e, last)[k])
    BY ONLY <1>5, <2>2, NoBlockAppend
  <2> QED
    BY ONLY <2>1, <2>3
<1>8. \A k \in 1..Len(ops') : ops'[k].kind = "data" => NoBlock(StartOf(ends, k), ends[k])'
  BY <1>1, <1>7 DEF NoBlock, BlockBytes, inputs, StartOf
<1>9. NoBlock(LastEnd(ends), pos)'
  <2> DEFINE last == pos + DefaultBlockSize
  <2>1. LastEnd(ends)' = last /\ pos' = last /\ last \in Int
    <3>1. ends' = Append(e, last) /\ pos' = last /\ last \in 0..MaxLen
      BY <1>1, <1>3 DEF e
    <3> HIDE DEF last
    <3>2. /\ Len(Append(e, last)) = Len(e) + 1 /\ Append(e, last)[Len(e) + 1] = last
          /\ Append(e, last) \in Seq(0..MaxLen) /\ Len(e) \in Nat
      BY <1>5, <3>1, AppendProperties
    <3>3. Append(e, last) # <<>>
      BY <3>2, EmptySeq
    <3> QED
      BY <3>1, <3>2, <3>3 DEF LastEnd
  <2> HIDE DEF last
  <2>2. last..last - 1 = {}
    BY <2>1
  <2> QED
    BY <2>1, <2>2 DEF NoBlock
<1> QED
  BY <1>1, <1>8, <1>9 DEF MatchInv

\* What is left after the last full window holds no window.
LEMMA FinishScanMatch ==
  ASSUME IInv, MatchInv, FinishScan
  PROVE  MatchInv'
<1> DEFINE rest == pending \o SubSeq(new, pos + 1, Len(new))
<1>1. /\ Scanning /\ phase = "scan" /\ action = "none" /\ phase' = "apply" /\ NoFullWindow
      /\ ops' = (IF rest = <<>> THEN ops ELSE Append(ops, DataOp(rest)))
      /\ ends' = (IF rest = <<>> THEN ends ELSE Append(ends, Len(new)))
      /\ UNCHANGED <<inputs, action, sig>>
  BY DEF FinishScan, Scanning
<1>2. /\ ops \in Seq(Op) /\ ends \in Seq(0..MaxLen) /\ Len(ends) = Len(ops)
      /\ \A k \in 1..Len(ops) : ops[k].kind = "data" => NoBlock(StartOf(ends, k), ends[k])
      /\ NoBlock(LastEnd(ends), pos) /\ pending \in Literal
  BY <1>1 DEF IInv, TypeOK, MatchInv, Op
<1>3. /\ pos \in Nat /\ Len(new) \in 0..MaxLen /\ DefaultBlockSize \in Nat /\ MaxLen \in Nat
      /\ pos + DefaultBlockSize > Len(new) /\ new \in Seq(Byte)
      /\ LastEnd(ends) \in Nat /\ pos <= Len(new)
  <2>1. /\ pos \in 0..Len(new) /\ LastEnd(ends) \in 0..pos /\ Len(new) \in 0..MaxLen /\ MaxLen \in Nat
        /\ DefaultBlockSize \in Nat /\ blockSize = DefaultBlockSize /\ new \in Seq(Byte)
    BY <1>1, ScanFacts
  <2>2. pos + DefaultBlockSize > Len(new)
    BY <1>1, <2>1 DEF NoFullWindow
  <2> QED
    BY <2>1, <2>2
<1>4. NoBlock(LastEnd(ends), Len(new))
  <2> SUFFICES ASSUME NEW q \in LastEnd(ends)..Len(new) - 1, q + DefaultBlockSize <= Len(new),
                      NEW j \in 1..Len(sig.blocks)
               PROVE  SubSeq(new, q + 1, q + DefaultBlockSize) # BlockBytes(old, DefaultBlockSize, j - 1)
    BY DEF NoBlock
  <2>1. q \in LastEnd(ends)..pos - 1
    BY <1>3
  <2> QED
    BY <1>2, <2>1 DEF NoBlock
<1>5. \A k \in 1..Len(ops') : ops'[k].kind = "data" => NoBlock(StartOf(ends', k), ends'[k])
  <2>1. CASE rest = <<>>
    BY <1>1, <1>2, <2>1
  <2>2. CASE rest # <<>>
    <3>1. SubSeq(new, pos + 1, Len(new)) \in Seq(Byte)
      BY <1>3, Piece
    <3>2. rest \in Seq(Byte)
      BY <1>2, <3>1, ConcatProperties DEF Literal
    <3> DEFINE op == DataOp(rest)
               last == Len(new)
    <3>3. op \in Op
      BY <3>2 DEF DataOp, Op, Literal
    <3>4. ops' = Append(ops, op) /\ ends' = Append(ends, last) /\ last \in 0..MaxLen /\ NoBlock(LastEnd(ends), last)
      BY <1>1, <1>3, <1>4, <2>2
    <3> HIDE DEF op, last, rest
    <3>5. \A k \in 1..Len(Append(ops, op)) : Append(ops, op)[k].kind = "data" =>
            NoBlock(StartOf(Append(ends, last), k), Append(ends, last)[k])
      BY ONLY <1>2, <3>3, <3>4, NoBlockAppend
    <3> QED
      BY ONLY <3>4, <3>5
  <2> QED
    BY <2>1, <2>2
<1>6. \A k \in 1..Len(ops') : ops'[k].kind = "data" => NoBlock(StartOf(ends, k), ends[k])'
  <2>1. UNCHANGED <<inputs, sig>>
    BY <1>1
  <2> QED
    BY ONLY <1>5, <2>1 DEF NoBlock, BlockBytes, inputs, StartOf
<1> QED
  BY <1>1, <1>6 DEF MatchInv, Scanning

\* The steps of the other phases touch neither a checksum nor a literal.
LEMMA OtherMatch ==
  ASSUME IInv, MatchInv,
         Sign \/ SkipFile \/ AppendTail \/ Diminished \/ ApplyCopy \/ ApplyData \/ FinishApply
  PROVE  MatchInv'
<1>1. CASE Sign
  <2>1. /\ ops' = <<>> /\ pos' = 0 /\ weak' = NoWeak /\ phase' = "scan"
    BY <1>1 DEF Sign, IInv, Chosen
  <2>2. ends' = <<>>
    <3>1. ops = <<>> /\ ends' = ends /\ Len(ends) = Len(ops) /\ ends \in Seq(0..MaxLen)
      BY <1>1 DEF Sign, IInv, Chosen, TypeOK
    <3> QED
      BY <3>1, EmptySeq
  <2>3. LastEnd(ends)' = 0
    BY <2>2 DEF LastEnd
  <2>4. NoBlock(LastEnd(ends), pos)'
    BY <2>1, <2>3 DEF NoBlock
  <2> QED
    BY <2>1, <2>4 DEF MatchInv
<1>2. CASE SkipFile \/ AppendTail
  <2>1. action' # "none" /\ phase' = "apply"
    BY <1>2 DEF SkipFile, AppendTail
  <2> QED
    BY <2>1 DEF MatchInv, Scanning
<1>3. CASE Diminished
  <2>1. phase' = "failed"
    BY <1>3 DEF Diminished
  <2> QED
    BY <2>1 DEF MatchInv, Scanning
<1>4. CASE ApplyCopy \/ ApplyData \/ FinishApply
  <2>1. /\ phase = "apply" /\ phase' \in {"apply", "done", "failed"}
        /\ UNCHANGED <<inputs, action, sig, pos, ops, ends>>
    BY <1>4 DEF ApplyCopy, ApplyData, FinishApply, Applying
  <2> QED
    BY <2>1, LiteralFrame DEF Scanning
<1> QED
  BY <1>1, <1>2, <1>3, <1>4

\* A stutter keeps the invariant.
LEMMA StutterMatch ==
  ASSUME MatchInv, UNCHANGED vars
  PROVE  MatchInv'
<1>1. /\ old' = old /\ new' = new /\ phase' = phase /\ action' = action /\ sig' = sig
      /\ weak' = weak /\ pos' = pos /\ ops' = ops /\ ends' = ends
  BY DEF vars
<1>2. Scanning' = Scanning /\ Window' = Window
  BY ONLY <1>1, Zenon DEF Scanning, Window, blockSize
<1>3. (Scanning /\ weak # NoWeak => weak = newWeakChecksum(Window))'
  BY ONLY MatchInv, <1>1, <1>2 DEF MatchInv
<1>4. ASSUME action = "none", phase \in {"scan", "apply", "done"}
      PROVE  (\A i \in 1..Len(ops) : ops[i].kind = "data" => NoBlock(StartOf(ends, i), ends[i]))'
  <2>1. \A i \in 1..Len(ops) : ops[i].kind = "data" => NoBlock(StartOf(ends, i), ends[i])
    BY <1>4 DEF MatchInv
  <2>2. \A i \in 1..Len(ops) : ops[i].kind = "data" => NoBlock(StartOf(ends, i), ends[i])'
    <3> SUFFICES ASSUME NEW i \in 1..Len(ops), ops[i].kind = "data"
                 PROVE  NoBlock(StartOf(ends, i), ends[i])'
      OBVIOUS
    <3>1. NoBlock(StartOf(ends, i), ends[i])
      BY <2>1
    <3> QED
      BY ONLY <1>1, <3>1 DEF NoBlock, BlockBytes, StartOf
  <2>3. ops' = ops
    BY <1>1
  <2> QED
    BY ONLY <2>2, <2>3, Zenon
<1>5. ASSUME action = "none", phase = "scan"
      PROVE  NoBlock(LastEnd(ends), pos)'
  <2>1. NoBlock(LastEnd(ends), pos)
    BY <1>5 DEF MatchInv
  <2> QED
    BY ONLY <1>1, <2>1 DEF NoBlock, BlockBytes
<1>6. action' = action /\ phase' = phase
  BY <1>1
<1> QED
  BY ONLY <1>3, <1>4, <1>5, <1>6, Zenon DEF MatchInv

\* What every scan keeps of checksums and literals.
THEOREM MatchInvariant == Spec => []MatchInv
<1>1. Init => MatchInv
  BY DEF Init, MatchInv, Scanning
<1>2. IInv /\ MatchInv /\ [Next]_vars => MatchInv'
  BY FreshWindowMatch, SlideByteMatch, MatchBlockMatch, FinishScanMatch, OtherMatch, StutterMatch
  DEF Next
<1> QED
  BY <1>1, <1>2, Invariant, PTL DEF Spec

\* For every modulus and every multiple of it the accumulators wrap at, roll()
\* gives the checksum a fresh computation over the window gives.
THEOREM RollingIsFreshCorrect == Spec => []RollingIsFresh
<1>1. MatchInv => RollingIsFresh
  BY DEF MatchInv, RollingIsFresh
<1> QED
  BY <1>1, MatchInvariant, PTL

\* No literal covers a window that is one of the old file's blocks.
THEOREM NoMissedMatchCorrect == Spec => []NoMissedMatch
<1>1. MatchInv => NoMissedMatch
  BY DEF MatchInv, NoMissedMatch, NoBlock, StartOf
<1> QED
  BY <1>1, MatchInvariant, PTL

-----------------------------------------------------------------------------
(* The exchange is one step of what it promises. *)

ModeFacts == Exchange!Mode \in {"copy", "keep", "extend"}

\* There is no mode but the three, each with its action.
LEMMA Modes ==
  /\ ModeFacts
  /\ Asked <=> phase # "sign" =>
       /\ Exchange!Mode = "copy" => action = "none"
       /\ Exchange!Mode = "keep" => action = "skip"
       /\ Exchange!Mode = "extend" => action = "tail"
<1>1. ModeFacts
  BY DEF ModeFacts, Exchange!Mode
<1> QED
  BY <1>1 DEF ModeFacts, Asked

\* What a step may touch: the inputs never, the action only at first.
LEMMA StepFrame ==
  ASSUME Next
  PROVE  /\ UNCHANGED inputs /\ phase \in {"sign", "scan", "apply"} /\ phase' # "sign"
         /\ Sign \/ (phase # "sign" /\ action' = action)
  BY DEF Next, Sign, SkipFile, AppendTail, Diminished, FreshWindow, MatchBlock, SlideByte,
         FinishScan, ApplyCopy, ApplyData, FinishApply, Applying, Scanning

\* So the mode stays what it was.
LEMMA InputsKept ==
  ASSUME UNCHANGED inputs
  PROVE  /\ UNCHANGED <<old, existed, new, listedSize, append>>
         /\ Exchange!Mode' = Exchange!Mode
<1>1. UNCHANGED <<old, existed, new, listedSize, append>>
  BY DEF inputs
<1> QED
  BY <1>1 DEF Exchange!Mode

\* receiveRegularFile asks for what the options call for, once and for all.
LEMMA AskedStep ==
  ASSUME IInv, Asked, [Next]_vars
  PROVE  Asked'
<1>1. CASE UNCHANGED vars
  <2>1. UNCHANGED <<phase, action, old, existed, new, listedSize, append>>
    BY <1>1 DEF vars
  <2> QED
    BY <2>1 DEF Asked, Exchange!Mode
<1>2. CASE Next
  <2>1. /\ phase' # "sign" /\ Exchange!Mode' = Exchange!Mode
        /\ Sign \/ (phase # "sign" /\ action' = action)
    BY <1>2, StepFrame, InputsKept
  <2>2. CASE Sign
    <3>1. Len(old) \in Nat /\ listedSize \in Nat /\ append \in {"off", "append", "verify"}
      BY FileIsSeq, SizeAssumption DEF IInv, TypeOK
    <3>2. /\ Exchange!Mode = "copy" => action' = "none"
          /\ Exchange!Mode = "keep" => action' = "skip"
          /\ Exchange!Mode = "extend" => action' = "tail"
      BY <2>2, <3>1 DEF Sign, Exchange!Mode
    <3> QED
      BY <2>1, <3>2, Modes DEF Asked, ModeFacts
  <2>3. CASE phase # "sign" /\ action' = action
    BY <2>1, <2>3 DEF Asked
  <2> QED
    BY <2>1, <2>2, <2>3
<1> QED
  BY <1>1, <1>2

\* A step ends the exchange as promised, or its caller sees nothing of it.
LEMMA ExchangeStep ==
  ASSUME IInv, IInv', Asked', [Next]_vars
  PROVE  [Exchange!Deliver \/ Exchange!Refuse]_(Exchange!vars)
<1>1. CASE UNCHANGED vars
  <2>1. UNCHANGED <<phase, out, old, existed, new, listedSize, append>>
    BY <1>1 DEF vars
  <2> QED
    BY <2>1 DEF Exchange!vars, Exchange!inputs
<1>2. CASE Next
  <2>1. /\ UNCHANGED inputs /\ phase \in {"sign", "scan", "apply"} /\ phase' # "sign"
    BY <1>2, StepFrame
  <2>2. UNCHANGED Exchange!inputs /\ UNCHANGED <<old, new>>
    BY <2>1, InputsKept DEF Exchange!inputs
  <2>3. Len(old) \in Nat /\ Len(new) \in Nat
    BY FileIsSeq DEF IInv, TypeOK
  <2>4. ModeFacts /\ Exchange!Mode' = Exchange!Mode
    BY <2>1, InputsKept, Modes
  <2>5. action' = CASE Exchange!Mode = "copy" -> "none"
                    [] Exchange!Mode = "keep" -> "skip"
                    [] Exchange!Mode = "extend" -> "tail"
    BY <2>1, <2>4 DEF Asked
  <2>6. CASE phase' = "done"
    <3>1. out' = Expected' /\ (action' = "tail" => Len(old) <= Len(new))
      BY <2>2, <2>6 DEF IInv, Reconstructs, Chosen
    <3>2. ~Exchange!Diminished
      BY <2>3, <2>5, <3>1 DEF Exchange!Diminished
    <3>3. Expected' = Exchange!Promised
      BY <2>2, <2>4, <2>5 DEF Expected, Exchange!Promised, ModeFacts
    <3>4. Exchange!Deliver
      BY <2>1, <2>2, <2>6, <3>1, <3>2, <3>3 DEF Exchange!Deliver
    <3> QED
      BY <3>4
  <2>7. CASE phase' = "failed"
    <3>1. action' = "tail" /\ Len(new) < Len(old)
      BY <2>2, <2>7 DEF IInv, OnlyDiminishedFails
    <3>2. Exchange!Diminished
      BY <2>4, <2>5, <3>1 DEF Exchange!Diminished, ModeFacts
    <3>3. Exchange!Refuse
      BY <2>1, <2>2, <2>7, <3>2 DEF Exchange!Refuse
    <3> QED
      BY <3>3
  <2>8. CASE phase' \notin {"done", "failed"}
    BY <2>1, <2>2, <2>8 DEF Exchange!vars
  <2> QED
    BY <2>6, <2>7, <2>8
<1> QED
  BY <1>1, <1>2

\* The delta exchange implements FileExchange for all files, block sizes and weak
\* checksums: seen by its caller it is one step, whose bytes follow from the options
\* and the two files, and which only a source that shrank can make fail.
THEOREM ExchangeImplements == Spec => ImplementsExchange
<1>1. Init => Asked
  BY DEF Init, Asked
<1>2. Init => Exchange!Init
  BY DEF Init, Exchange!Init
<1>3. IInv /\ Asked /\ [Next]_vars => Asked'
  BY AskedStep
<1>4. IInv /\ IInv' /\ Asked' /\ [Next]_vars => [Exchange!Deliver \/ Exchange!Refuse]_(Exchange!vars)
  BY ExchangeStep
<1> QED
  BY <1>1, <1>2, <1>3, <1>4, Invariant, PTL DEF Spec, ImplementsExchange, Exchange!Spec
=============================================================================
