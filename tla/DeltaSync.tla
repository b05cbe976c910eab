------------------------------ MODULE DeltaSync ------------------------------
(***************************************************************************)
(* The delta exchange for one regular file.  The receiver signs the bytes   *)
(* it holds (GenerateSignature), the sender slides a window over its own    *)
(* bytes and emits copy and data operations (GenerateDelta, appendTailOps), *)
(* the receiver rebuilds the file from them (ApplyDelta).                   *)
(*                                                                          *)
(* A file is a sequence of bytes, block indices and pos are 0-based as in   *)
(* the code.  Every loop iteration of GenerateDelta and of ApplyDelta is a  *)
(* step.  ends is an auxiliary variable: ends[i] is the number of bytes of  *)
(* the new file that ops[1] .. ops[i] account for.                          *)
(***************************************************************************)
EXTENDS Integers, Sequences

CONSTANTS Byte,               \* byte values
          MaxLen,             \* bound on the length of a file
          DefaultBlockSize,   \* block size of every signature
          Modulus,            \* rollingChecksumModulus
          Word,               \* number of uint32 values
          Strong(_)           \* strongChecksum

File == UNION {[1..n -> Byte] : n \in 0..MaxLen}

ASSUME ByteAssumption == Byte \subseteq Nat
ASSUME SizeAssumption == /\ MaxLen \in Nat
                         /\ DefaultBlockSize \in Nat \ {0}
ASSUME WordAssumption == /\ Modulus \in Nat \ {0}
                         /\ Word \in Nat \ {0}
                         /\ Word % Modulus = 0
\* MD5 collisions are left out: equal strong checksums mean equal blocks.
ASSUME StrongAssumption == \A b, c \in File : Strong(b) = Strong(c) => b = c

VARIABLES old, existed,   \* the receiver's bytes, and whether the file was there
          new, listedSize,\* the sender's bytes, and the size its walk listed
          append,         \* the --append/--append-verify option
          phase, action, sig, weak, pos, pending, ops, ends, out, applied

vars == <<old, existed, new, listedSize, append, phase, action, sig, weak,
          pos, pending, ops, ends, out, applied>>
inputs == <<old, existed, new, listedSize, append>>

-----------------------------------------------------------------------------
(* Checksums. *)

NoWeak == [a |-> 0, b |-> 0, length |-> 0]

newWeakChecksum(w) ==
  LET n == Len(w)
      A[i \in 0..n] == IF i = 0 THEN 0 ELSE (A[i-1] + w[i]) % Word
      B[i \in 0..n] == IF i = 0 THEN 0
                       ELSE (B[i-1] + (n - (i-1)) * w[i]) % Word
  IN [a |-> A[n] % Modulus, b |-> B[n] % Modulus, length |-> n]

sum(w) == (w.a + w.b * Modulus) % Word

\* Mutants: b updated with the old a; b scaled by one byte too few.
roll_StaleA(w, leaving, entering) ==
  [a |-> ((w.a - leaving + entering) % Word) % Modulus,
   b |-> ((w.b - w.length * leaving + w.a) % Word) % Modulus,
   length |-> w.length]
roll_ShortB(w, leaving, entering) ==
  LET a == ((w.a - leaving + entering) % Word) % Modulus
  IN [a |-> a,
      b |-> ((w.b - (w.length - 1) * leaving + a) % Word) % Modulus,
      length |-> w.length]

roll(w, leaving, entering) ==
  LET a == ((w.a - leaving + entering) % Word) % Modulus
  IN [a |-> a,
      b |-> ((w.b - w.length * leaving + a) % Word) % Modulus,
      length |-> w.length]

(* Blocks and signatures. *)

BlockBytes(data, size, i) ==
  SubSeq(data, i * size + 1,
         IF i * size + size > Len(data) THEN Len(data) ELSE i * size + size)

GenerateSignature(data) ==
  [blockSize |-> DefaultBlockSize,
   blocks |-> [i \in 1..((Len(data) + DefaultBlockSize - 1) \div DefaultBlockSize) |->
      LET b == BlockBytes(data, DefaultBlockSize, i - 1)
      IN [weak |-> sum(newWeakChecksum(b)), strong |-> Strong(b)]]]

AppendSignature(data) == [blockSize |-> Len(data), blocks |-> <<>>]
NoSignature == [blockSize |-> 0, blocks |-> <<>>]

blockSize == IF sig.blockSize <= 0 THEN DefaultBlockSize ELSE sig.blockSize

\* Mutant: block indices counted from one.
CopyOp_OneBased(i) == [kind |-> "copy", block |-> i + 1, bytes |-> <<>>]

CopyOp(i) == [kind |-> "copy", block |-> i, bytes |-> <<>>]
DataOp(b) == [kind |-> "data", block |-> 0, bytes |-> b]

-----------------------------------------------------------------------------
Init ==
  /\ old \in File /\ new \in File
  /\ existed \in BOOLEAN /\ (~existed => old = <<>>)
  /\ listedSize \in 0..MaxLen
  /\ append \in {"off", "append", "verify"}
  /\ phase = "sign" /\ action = "none" /\ sig = NoSignature
  /\ weak = NoWeak /\ pos = 0 /\ pending = <<>>
  /\ ops = <<>> /\ ends = <<>> /\ out = <<>> /\ applied = 0

\* Mutant: --append-verify trusts the bytes it has, as --append does.
Sign_VerifyTrusts ==
  /\ phase = "sign"
  /\ \/ /\ append = "off" \/ ~existed
        /\ action' = "none" /\ sig' = GenerateSignature(old)
     \/ /\ append # "off" /\ existed /\ Len(old) >= listedSize
        /\ action' = "skip" /\ sig' = NoSignature
     \/ /\ append # "off" /\ existed /\ Len(old) < listedSize
        /\ action' = "tail" /\ sig' = AppendSignature(old)
  /\ phase' = "scan"
  /\ UNCHANGED <<inputs, weak, pos, pending, ops, ends, out, applied>>

\* receiveRegularFile picks the signature and what the sender shall do with it.
\* The size compared is the one the sender's walk listed, not Len(new).
Sign ==
  /\ phase = "sign"
  /\ \/ /\ append = "off" \/ ~existed
        /\ action' = "none" /\ sig' = GenerateSignature(old)
     \/ /\ append # "off" /\ existed /\ Len(old) >= listedSize
        /\ action' = "skip" /\ sig' = NoSignature
     \/ /\ append = "verify" /\ existed /\ Len(old) < listedSize
        /\ action' = "none" /\ sig' = GenerateSignature(old)
     \/ /\ append = "append" /\ existed /\ Len(old) < listedSize
        /\ action' = "tail" /\ sig' = AppendSignature(old)
  /\ phase' = "scan"
  /\ UNCHANGED <<inputs, weak, pos, pending, ops, ends, out, applied>>

\* appendSkip: an empty delta, the source is not opened.
SkipFile ==
  /\ phase = "scan" /\ action = "skip"
  /\ phase' = "apply"
  /\ UNCHANGED <<inputs, action, sig, weak, pos, pending, ops, ends, out, applied>>

\* appendTailOps, the source still reaching past the trusted bytes.
AppendTail ==
  LET trusted == sig.blockSize
      tail == SubSeq(new, trusted + 1, Len(new))
  IN /\ phase = "scan" /\ action = "tail"
     /\ trusted <= Len(new)
     /\ ops' = (IF trusted > 0 THEN <<CopyOp(0)>> ELSE <<>>)
                 \o (IF tail # <<>> THEN <<DataOp(tail)>> ELSE <<>>)
     /\ ends' = (IF trusted > 0 THEN <<trusted>> ELSE <<>>)
                 \o (IF tail # <<>> THEN <<Len(new)>> ELSE <<>>)
     /\ phase' = "apply"
     /\ UNCHANGED <<inputs, action, sig, weak, pos, pending, out, applied>>

\* appendTailOps, the source diminished since it was listed: a hard error.
Diminished ==
  /\ phase = "scan" /\ action = "tail"
  /\ sig.blockSize > Len(new)
  /\ phase' = "failed"
  /\ UNCHANGED <<inputs, action, sig, weak, pos, pending, ops, ends, out, applied>>

-----------------------------------------------------------------------------
(* GenerateDelta. *)

Window == SubSeq(new, pos + 1, pos + blockSize)

\* Mutant: the weak checksum alone decides.
Matches_WeakOnly == {i \in 1..Len(sig.blocks) : sig.blocks[i].weak = sum(weak)}

\* weakIndex holds every index of a weak sum; the first whose strong
\* checksum agrees is taken.
Matches == {i \in 1..Len(sig.blocks) :
              /\ sig.blocks[i].weak = sum(weak)
              /\ sig.blocks[i].strong = Strong(Window)}

\* Mutants: an empty literal is emitted too; a short tail does not leave the loop.
FlushedOps_Always == Append(ops, DataOp(pending))
NoFullWindow_AtEnd == pos >= Len(new)

FlushedOps == IF pending = <<>> THEN ops ELSE Append(ops, DataOp(pending))
FlushedEnds == IF pending = <<>> THEN ends ELSE Append(ends, pos)

NoFullWindow == pos + blockSize > Len(new)

Scanning == phase = "scan" /\ action = "none"

\* The outer loop computes the checksum of a window from scratch.
FreshWindow ==
  /\ Scanning /\ weak = NoWeak
  /\ pos + blockSize <= Len(new)
  /\ weak' = newWeakChecksum(Window)
  /\ UNCHANGED <<inputs, phase, action, sig, pos, pending, ops, ends, out, applied>>

MatchBlock ==
  /\ Scanning /\ weak # NoWeak
  /\ \E i \in Matches :
       /\ \A j \in Matches : i <= j
       /\ ops' = Append(FlushedOps, CopyOp(i - 1))
  /\ ends' = Append(FlushedEnds, pos + blockSize)
  /\ pending' = <<>>
  /\ pos' = pos + blockSize
  /\ weak' = NoWeak
  /\ UNCHANGED <<inputs, phase, action, sig, out, applied>>

SlideByte ==
  /\ Scanning /\ weak # NoWeak
  /\ Matches = {}
  /\ pending' = Append(pending, new[pos + 1])
  /\ pos' = pos + 1
  /\ weak' = IF pos + 1 + blockSize > Len(new) THEN NoWeak
             ELSE roll(weak, new[pos + 1], new[pos + 1 + blockSize])
  /\ UNCHANGED <<inputs, phase, action, sig, ops, ends, out, applied>>

\* No full window is left: the rest is literal, pending is flushed, the
\* delta is complete.
FinishScan ==
  LET rest == pending \o SubSeq(new, pos + 1, Len(new))
  IN /\ Scanning /\ weak = NoWeak
     /\ NoFullWindow
     /\ ops' = (IF rest = <<>> THEN ops ELSE Append(ops, DataOp(rest)))
     /\ ends' = (IF rest = <<>> THEN ends ELSE Append(ends, Len(new)))
     /\ pending' = <<>>
     /\ pos' = Len(new)
     /\ phase' = "apply"
     /\ UNCHANGED <<inputs, action, sig, weak, out, applied>>

-----------------------------------------------------------------------------
(* ApplyDelta, over the bytes that were signed. *)

Applying == phase = "apply" /\ action # "skip" /\ applied < Len(ops)

\* ApplyDelta's checks on a copy operation; the block size is only looked at here.
ValidCopy(op) == sig.blockSize > 0 /\ op.block * sig.blockSize < Len(old)

ApplyCopy ==
  LET op == ops[applied + 1]
  IN /\ Applying /\ op.kind = "copy"
     /\ IF ValidCopy(op)
        THEN /\ out' = out \o BlockBytes(old, sig.blockSize, op.block)
             /\ applied' = applied + 1
             /\ phase' = phase
        ELSE phase' = "failed" /\ UNCHANGED <<out, applied>>
     /\ UNCHANGED <<inputs, action, sig, weak, pos, pending, ops, ends>>

ApplyData ==
  LET op == ops[applied + 1]
  IN /\ Applying /\ op.kind = "data"
     /\ out' = out \o op.bytes
     /\ applied' = applied + 1
     /\ UNCHANGED <<inputs, phase, action, sig, weak, pos, pending, ops, ends>>

\* A skipped file keeps its bytes verbatim.
FinishApply ==
  /\ phase = "apply"
  /\ action = "skip" \/ applied = Len(ops)
  /\ out' = IF action = "skip" THEN old ELSE out
  /\ phase' = "done"
  /\ UNCHANGED <<inputs, action, sig, weak, pos, pending, ops, ends, applied>>

-----------------------------------------------------------------------------
Next == \/ Sign \/ SkipFile \/ AppendTail \/ Diminished
        \/ FreshWindow \/ MatchBlock \/ SlideByte \/ FinishScan
        \/ ApplyCopy \/ ApplyData \/ FinishApply

Spec == Init /\ [][Next]_vars
\* Both loops run to their end: the code has no wait inside them.
FairSpec == Spec /\ WF_vars(Next)

-----------------------------------------------------------------------------
(* Properties. *)

Literal == Seq(Byte)

\* Every variable keeps its type.
TypeOK ==
  /\ old \in File /\ new \in File
  /\ existed \in BOOLEAN /\ listedSize \in 0..MaxLen
  /\ append \in {"off", "append", "verify"}
  /\ phase \in {"sign", "scan", "apply", "done", "failed"}
  /\ action \in {"none", "tail", "skip"}
  /\ sig.blockSize \in Nat
  /\ pos \in 0..Len(new)
  /\ pending \in Literal /\ out \in Literal
  /\ ops \in Seq([kind : {"copy", "data"}, block : Nat, bytes : Literal])
  /\ ends \in Seq(0..MaxLen) /\ Len(ends) = Len(ops)
  /\ applied \in 0..Len(ops)

Exchange == INSTANCE FileExchange WITH
              status <- IF phase \in {"done", "failed"} THEN phase ELSE "running",
              data <- IF phase = "done" THEN out ELSE <<>>

\* The whole of it, signature, delta and application, is one step of the exchange
\* as its caller sees it: the bytes follow from the options and the two files alone,
\* not from any state in between.  Blocks that share a weak sum, a short last block
\* and an empty file must not show in them, and ApplyDelta may reject nothing.
ImplementsExchange == Exchange!Spec

\* The rolling checksum of the current window equals the one computed from
\* scratch, across any run of roll() calls and every wrap of uint32.
RollingIsFresh ==
  Scanning /\ weak # NoWeak => sum(weak) = sum(newWeakChecksum(Window))

\* No literal covers a window that is one of the old file's blocks: a wrong
\* weak checksum would still rebuild the file but send bytes it need not.
NoMissedMatch ==
  action = "none" /\ phase \in {"apply", "done"} =>
    \A i \in 1..Len(ops) : ops[i].kind = "data" =>
      \A p \in (IF i = 1 THEN 0 ELSE ends[i-1])..(ends[i] - 1) :
        p + DefaultBlockSize <= Len(new) =>
          \A j \in 1..Len(sig.blocks) :
            SubSeq(new, p + 1, p + DefaultBlockSize)
              # BlockBytes(old, DefaultBlockSize, j - 1)

(* The inductive invariant behind ImplementsExchange: Reconstructs, WritesPrefix *)
(* and OnlyDiminishedFails are what it says relative to the action chosen.       *)

\* What the receiver is promised, by the action it asked for: the sender's
\* bytes; its own bytes and the sender's tail; or its own bytes untouched.
Expected ==
  IF action = "none" THEN new
  ELSE IF action = "tail" THEN old \o SubSeq(new, Len(old) + 1, Len(new))
  ELSE old

\* A finished exchange leaves the receiver with exactly the promised bytes,
\* whatever the two files hold (GenerateDelta followed by ApplyDelta).
Reconstructs == phase = "done" => out = Expected

\* While ApplyDelta runs, what it has written is a prefix of the promised
\* bytes: no operation lands at a wrong offset even for a moment.
WritesPrefix ==
  phase = "apply" /\ action # "skip"
    => out = SubSeq(Expected, 1, IF applied = 0 THEN 0 ELSE ends[applied])

\* ApplyDelta never rejects what the sender built: the only failure is a
\* source that shrank below the bytes already trusted.
OnlyDiminishedFails ==
  phase = "failed" => action = "tail" /\ Len(new) < Len(old)

StartOf(e, i) == IF i = 1 THEN 0 ELSE e[i - 1]
LastEnd(e) == IF e = <<>> THEN 0 ELSE e[Len(e)]

\* The bytes ApplyDelta writes for an operation.
Meaning(op) == IF op.kind = "copy" THEN BlockBytes(old, sig.blockSize, op.block)
               ELSE op.bytes

\* Operations o ending at e tile the front of the promised bytes.
Tiles(o, e) ==
  \A i \in 1..Len(o) :
    /\ StartOf(e, i) <= e[i] /\ e[i] <= Len(Expected)
    /\ Meaning(o[i]) = SubSeq(Expected, StartOf(e, i) + 1, e[i])
    /\ o[i].kind = "copy" => ValidCopy(o[i])

\* The receiver's choice, and the signature that goes with it.
Chosen ==
  /\ phase = "sign" => action = "none" /\ ops = <<>> /\ pending = <<>> /\ pos = 0
                       /\ weak = NoWeak
  /\ phase \in {"sign", "scan"} => applied = 0 /\ out = <<>>
  /\ phase # "sign" /\ action = "none" => sig = GenerateSignature(old)
  /\ phase # "sign" /\ action = "tail" => sig = AppendSignature(old)
  /\ phase \in {"apply", "done"} /\ action = "tail" => Len(old) <= Len(new)

\* pending holds exactly the bytes between the last operation and pos, and a
\* window being rolled lies inside the file.
ScanInv ==
  phase = "scan" =>
    /\ action # "none" => ops = <<>>
    /\ LastEnd(ends) <= pos
    /\ action = "none" => pending = SubSeq(new, LastEnd(ends) + 1, pos)
    /\ weak # NoWeak => pos + DefaultBlockSize <= Len(new)

\* The action is the one the options ask for.
Asked == phase # "sign" =>
           action = CASE Exchange!Mode = "copy" -> "none"
                      [] Exchange!Mode = "keep" -> "skip"
                      [] Exchange!Mode = "extend" -> "tail"

ApplyInv == phase = "apply" /\ action # "skip" => LastEnd(ends) = Len(Expected)

IInv == /\ TypeOK /\ Chosen /\ ScanInv /\ ApplyInv
        /\ phase \in {"scan", "apply"} => Tiles(ops, ends)
        /\ WritesPrefix /\ Reconstructs /\ OnlyDiminishedFails

(* The inductive invariant behind RollingIsFresh and NoMissedMatch. *)

\* No window that starts at an offset from first up to last is a block of old.
NoBlock(first, last) ==
  \A p \in first..(last - 1) : p + DefaultBlockSize <= Len(new) =>
    \A j \in 1..Len(sig.blocks) :
      SubSeq(new, p + 1, p + DefaultBlockSize) # BlockBytes(old, DefaultBlockSize, j - 1)

\* roll() keeps the checksum itself, not only its sum, and every literal, the
\* pending one too, is free of blocks.
MatchInv ==
  /\ Scanning /\ weak # NoWeak => weak = newWeakChecksum(Window)
  /\ action = "none" /\ phase \in {"scan", "apply", "done"} =>
       /\ \A i \in 1..Len(ops) : ops[i].kind = "data" => NoBlock(StartOf(ends, i), ends[i])
       /\ phase = "scan" => NoBlock(LastEnd(ends), pos)

\* The exchange ends: every iteration of GenerateDelta moves pos on.
Terminates == <>(phase \in {"done", "failed"})
=============================================================================
