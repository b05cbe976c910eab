---------------------------- MODULE LocalSyncProofs ----------------------------
(* Two goroutines and two pipes, proved for all jobs: Sender and Receiver stay  *)
(* in step, errors keep their cause, a batch file is whole or gone, and a local *)
(* sync implements a sync command.                                              *)
EXTENDS LocalSync, FiniteSetTheorems, SequenceTheorems, TLAPS

Src == job.sources[k]
Last == Len(Entries) + 1

SenderEnds == {"closeWrite", "closeRead", "sent"}
ReceiverEnds == {"closeWrite", "closeRead", "join"}
Running == sPc # "off"

-----------------------------------------------------------------------------
(* The inductive invariant. *)

\* The caller has a Sender goroutine while it is in Receiver or waits for it.
CallerAt ==
  /\ job \in Jobs /\ k \in 1..Len(job.sources) + 1
  /\ pc \in {"create", "start", "end"} <=> ~Running
  /\ result = "running" <=> pc # "end"
  /\ pc = "create" => k = 1
  /\ Running => k <= Len(job.sources)

\* Where Sender is in the list; an error, or the end of the list, ends it, and
\* it closes its ends of the pipes.
SenderAt ==
  Running =>
    /\ j \in Nat
    /\ sPc \in {"walk", "writeHead", "tapHead", "writeBody", "tapBody", "load",
                "readHead", "readBody"} \cup SenderEnds
    /\ sPc = "walk" => j = 0
    /\ sPc \in {"writeHead", "tapHead", "writeBody", "tapBody"} => j = 0 \/ j \in Files(Src)
    /\ sPc \in {"tapHead", "tapBody"} => job.batch
    /\ sPc \in {"load", "readHead", "readBody"} => j \in Files(Src)
    /\ sPc \notin SenderEnds => sErr = "none"
    /\ sPc \in SenderEnds /\ sErr = "none" => j = Last
    /\ toReceiver.w = IF sPc \in {"closeRead", "sent"} THEN CloseCause(sErr) ELSE "open"
    /\ toSender.r = IF sPc = "sent" THEN "closed" ELSE "open"

\* Where Receiver is, likewise.
ReceiverAt ==
  Running =>
    /\ i \in Nat
    /\ pc \in {"readHead", "readBody", "entry", "writeHead", "writeBody", "apply"}
              \cup ReceiverEnds
    /\ pc \in {"readHead", "readBody"} => i = 0 \/ i \in Files(Src)
    /\ pc \in {"writeHead", "writeBody", "apply"} => i \in Files(Src)
    /\ pc = "entry" => i \in 1..Last
    /\ pc \notin ReceiverEnds => rErr = "none"
    /\ pc \in ReceiverEnds /\ rErr = "none" => i = Last
    /\ toSender.w = IF pc \in {"closeRead", "join"} THEN CloseCause(rErr) ELSE "open"
    /\ toReceiver.r = IF pc = "join" THEN "closed" ELSE "open"

\* No file to exchange from position a up to b.
Gap(src, a, b) == \A m \in a..b - 1 : m \notin Files(src)

\* Receiver has passed position a, and no other file since.
Passed(a) == \/ pc \in {"entry", "writeHead"} /\ i >= a /\ Gap(Src, a, i)
             \/ pc \in ReceiverEnds /\ Gap(Src, a, i)

\* Where one goroutine is tells where the other can be, while none has failed.
Together ==
  Running /\ sErr = "none" /\ rErr = "none" =>
    /\ sPc \in {"walk", "load", "writeHead"} => pc = "readHead" /\ i = j
    /\ sPc \in {"tapHead", "writeBody"} => pc = "readBody" /\ i = j
    /\ sPc = "tapBody" => (pc = "apply" /\ i = j) \/ Passed(j + 1)
    /\ sPc = "readHead" \/ sPc \in SenderEnds =>
         \/ pc = "apply" /\ i < j /\ Gap(Src, i + 1, j)
         \/ pc = "entry" /\ i <= j /\ Gap(Src, i, j)
         \/ pc = "writeHead" /\ i = j
         \/ pc \in ReceiverEnds /\ j = Last
    /\ sPc = "readBody" => pc = "writeBody" /\ i = j

\* The first error is never the echo of another: if Sender's is, Receiver has one.
Causes ==
  Running =>
    /\ rErr \in {"eof", "closed"} => tapFailed
    /\ rErr = "none" /\ sErr # "none" =>
         sErr = "sender" /\ (tapFailed \/ pc \in {"readHead", "readBody"})

\* The files of a job's s-th source, those of all sources before it, and those of
\* the source before position m.
FilesOf(jb, s) == {<<s, jb.sources[s].entries[n].path>> : n \in Files(jb.sources[s])}
Earlier(jb, s) == UNION {FilesOf(jb, t) : t \in 1..s - 1}
Before(jb, s, m) ==
  {<<s, jb.sources[s].entries[n].path>> : n \in {x \in Files(jb.sources[s]) : x < m}}

\* What is applied is what comes before Receiver's position.
AppliedAt ==
  /\ pc \in {"create", "start"} => applied = Earlier(job, k)
  /\ Running /\ rErr = "none" => applied = Earlier(job, k) \cup Before(job, k, i)

\* The parts of Sender's frames before position n.
PartsBefore(src, n) ==
  IF n = 0 THEN 0 ELSE 2 + 2 * Cardinality({m \in Files(src) : m < n})

\* The batch file holds the parts Sender has written.
BatchAt ==
  /\ batchFile <=> job.batch /\ pc \notin {"create", "end"}
  /\ batch.exists => job.batch
  /\ pc = "create" => batch = NoBatch
  /\ batchFile => batch.exists
  /\ batchFile /\ (pc = "start" => k = 1) /\ (Running => sErr = "none") =>
       /\ ~batch.torn
       /\ batch.parts = IF pc = "start" THEN 0
                        ELSE PartsBefore(Src, j)
                             + IF sPc \in {"writeBody", "tapBody"} THEN 1 ELSE 0
  /\ batchFile /\ pc = "start" /\ k # 1 => Whole
  /\ result = "ok" /\ job.batch => batch.exists
  /\ result \notin {"running", "batch"} /\ batch.exists => Whole

LocalInv == /\ TypeOK /\ CallerAt /\ SenderAt /\ ReceiverAt /\ Together
            /\ Causes /\ InStep /\ CauseReported /\ AppliedAt /\ BatchAt
-----------------------------------------------------------------------------
(* Jobs. *)

\* The source being synced, its list, and which of its entries are skipped.
LEMMA SourceFacts ==
  ASSUME CallerAt, Running
  PROVE  /\ job \in Jobs /\ k \in 1..Len(job.sources) /\ Src \in Source
         /\ Entries = Src.entries /\ Len(Entries) \in Nat /\ Last \in Nat
         /\ Files(Src) \subseteq 1..Len(Entries)
         /\ \A n \in 1..Len(Entries) : /\ SenderSkips(n) <=> n \notin Files(Src)
                                       /\ ReceiverSkips(n) <=> n \notin Files(Src)
                                       /\ Entries[n].path \in Path
<1>1. job \in Jobs /\ job.sources \in Seq(Source)
  BY JobAssumption DEF CallerAt
<1>2. Len(job.sources) \in Nat /\ k \in 1..Len(job.sources)
  BY <1>1 DEF CallerAt
<1>3. Src \in Source /\ Entries = Src.entries /\ Groups = Src.groups
  BY <1>1, <1>2 DEF Src, Entries, Groups
<1>4. /\ Entries \in Seq([path : Path, kind : Kind]) /\ Len(Entries) \in Nat
      /\ \A n \in 1..Len(Entries) : Entries[n].path \in Path
  <2>1. Entries \in Seq([path : Path, kind : Kind]) /\ Len(Entries) \in Nat
    BY <1>3 DEF Source
  <2>2. \A n \in 1..Len(Entries) : Entries[n] \in [path : Path, kind : Kind]
    BY <2>1, ElementOfSeq
  <2> QED
    BY <2>1, <2>2
<1>5. \A x : x \in Secondary <=> \E m \in 1..Len(Groups) : \E n \in 2..Len(Groups[m]) :
                                   x = Groups[m][n]
  BY DEF Secondary
<1>6. Files(Src) \subseteq 1..Len(Entries)
  BY <1>3 DEF Files
<1>7. ASSUME NEW n \in 1..Len(Entries)
      PROVE  /\ SenderSkips(n) <=> n \notin Files(Src)
             /\ ReceiverSkips(n) <=> n \notin Files(Src)
  BY <1>3, <1>5 DEF SenderSkips, ReceiverSkips, Files
<1> QED
  BY <1>1, <1>2, <1>3, <1>4, <1>6, <1>7 DEF Last

\* Sender's turn goes to the next file of the list, or to its end.
LEMMA TurnFacts ==
  ASSUME CallerAt, Running, j \in Nat, NextTurn
  PROVE  /\ j' \in Nat /\ j' > j /\ j' <= Last /\ Gap(Src, j + 1, j') /\ sErr' = sErr
         /\ \/ sPc' = "readHead" /\ j' \in Files(Src)
            \/ sPc' = "closeWrite" /\ j' = Last
<1>1. PICK n \in j + 1..Len(Entries) + 1 :
        /\ \A m \in j + 1..n - 1 : SenderSkips(m)
        /\ n <= Len(Entries) => ~SenderSkips(n)
        /\ j' = n /\ sErr' = sErr
        /\ sPc' = IF n <= Len(Entries) THEN "readHead" ELSE "closeWrite"
  BY DEF NextTurn
<1>2. Len(Entries) \in Nat
  BY SourceFacts
<1>3. \A m \in j + 1..n - 1 : m \in 1..Len(Entries)
  BY <1>2
<1>4. Gap(Src, j + 1, n)
  BY <1>1, <1>3, SourceFacts DEF Gap
<1>5. n <= Len(Entries) => n \in Files(Src)
  BY <1>1, <1>2, SourceFacts
<1> QED
  BY <1>1, <1>2, <1>4, <1>5 DEF Last

\* A gap's end, a gap made longer, and a gap with a file after its start.
LEMMA GapFacts ==
  ASSUME NEW src, NEW a \in Nat, NEW b \in Nat, Gap(src, a, b)
  PROVE  /\ \A m \in Nat : m >= a => Gap(src, m, b)
         /\ b \notin Files(src) => Gap(src, a, b + 1)
         /\ \A m \in Nat : m >= a /\ m \in Files(src) => m >= b
BY DEF Gap

\* Two more parts take Sender from a file to the next.
LEMMA PartsNext ==
  ASSUME NEW src \in Source, NEW n \in Nat, NEW m \in Nat, n < m, Gap(src, n + 1, m),
         n = 0 \/ n \in Files(src)
  PROVE  /\ PartsBefore(src, m) = PartsBefore(src, n) + 2
         /\ PartsBefore(src, n) \in Nat
<1> DEFINE A == {x \in Files(src) : x < n}
           B == {x \in Files(src) : x < m}
<1>1. Len(src.entries) \in Nat /\ Files(src) \subseteq 1..Len(src.entries)
  BY DEF Source, Files
<1>2. IsFiniteSet(Files(src))
  <2>1. IsFiniteSet(1..Len(src.entries))
    BY <1>1, FS_Interval
  <2> QED
    BY <1>1, <2>1, FS_Subset
<1>3. IsFiniteSet(A) /\ IsFiniteSet(B)
  BY <1>2, FS_Subset
<1>4. Cardinality(A) \in Nat /\ Cardinality(B) \in Nat
  BY <1>3, FS_CardinalityType
<1>5. CASE n = 0
  <2>1. B = {}
    BY <1>1, <1>5 DEF Gap
  <2>2. Cardinality(B) = 0
    BY <2>1, FS_EmptySet
  <2> QED
    BY <1>5, <2>2 DEF PartsBefore
<1>6. CASE n # 0
  <2>1. B = A \cup {n} /\ n \notin A
    BY <1>1, <1>6 DEF Gap
  <2> HIDE DEF A, B
  <2>2. Cardinality(B) = Cardinality(A) + 1
    BY <1>3, <2>1, FS_AddElement
  <2>3. /\ PartsBefore(src, m) = 2 + 2 * Cardinality(B)
        /\ PartsBefore(src, n) = 2 + 2 * Cardinality(A)
    BY <1>6 DEF PartsBefore, A, B
  <2> QED
    BY <1>4, <2>2, <2>3
<1> QED
  BY <1>5, <1>6

\* At the end of the list every part of the source is written.
LEMMA PartsLast ==
  ASSUME NEW src \in Source
  PROVE  PartsBefore(src, Len(src.entries) + 1) = 2 + 2 * Cardinality(Files(src))
<1>1. Len(src.entries) \in Nat /\ Files(src) \subseteq 1..Len(src.entries)
  BY DEF Source, Files
<1>2. {m \in Files(src) : m < Len(src.entries) + 1} = Files(src)
  BY <1>1
<1>3. Len(src.entries) + 1 # 0
  BY <1>1
<1> QED
  BY <1>2, <1>3 DEF PartsBefore

-----------------------------------------------------------------------------
(* Sender's steps. *)

\* What a step of Sender alone leaves as it was.
LEMMA SenderFrame ==
  ASSUME LocalInv, Running, Running', UNCHANGED <<job, k, batchFile, result, pc, i, rErr, applied>>,
         toReceiver'.r = toReceiver.r, toSender'.w = toSender.w
  PROVE  CallerAt' /\ ReceiverAt' /\ AppliedAt' /\ CauseReported'
<1>1. pc \notin {"create", "start", "end"} /\ result = "running"
  BY DEF LocalInv, CallerAt
<1>2. CallerAt' /\ CauseReported'
  BY <1>1 DEF LocalInv, CallerAt, CauseReported
<1>3. ReceiverAt'
  BY DEF LocalInv, ReceiverAt, Src, Last, Entries
<1>4. AppliedAt'
  BY <1>1 DEF LocalInv, AppliedAt
<1> QED
  BY <1>2, <1>3, <1>4

\* The types that Sender's step can change.
LEMMA SenderTypes ==
  ASSUME TypeOK, SenderStep \/ LoadFifo, j' \in Nat
  PROVE  TypeOK'
<1>1. UNCHANGED <<job, k, batchFile, result, pc, i, rErr, applied>>
  BY DEF SenderStep, LoadFifo, Walk, Load, Loaded, FrameTooLarge, Tap, SenderCut,
         SenderCloseWrite, SenderCloseRead, command, caller
<1>2. sPc' \in {"off", "walk", "load", "writeHead", "tapHead", "writeBody", "tapBody",
                "readHead", "readBody", "closeWrite", "closeRead", "sent"}
  BY DEF SenderStep, LoadFifo, Walk, Load, Loaded, FrameTooLarge, Tap, SenderCut,
         SenderCloseWrite, SenderCloseRead, SenderFails, NextTurn
<1>3. sErr' \in Cause \cup {"none"}
  BY DEF TypeOK, Cause, SenderStep, LoadFifo, Walk, Load, Loaded, FrameTooLarge, Tap,
         SenderCut, SenderCloseWrite, SenderCloseRead, SenderFails, NextTurn
<1>4. /\ toReceiver' \in [w : Cause \cup {"open"}, r : {"open", "closed"}]
      /\ toSender' \in [w : Cause \cup {"open"}, r : {"open", "closed"}]
  BY DEF TypeOK, Cause, SenderStep, LoadFifo, Walk, Load, Loaded, FrameTooLarge, Tap,
         SenderCut, SenderCloseWrite, SenderCloseRead, CloseCause
<1>5. batch' \in [exists : BOOLEAN, parts : Nat, torn : BOOLEAN] /\ tapFailed' \in BOOLEAN
  <2>1. CASE Tap
    <3>1. /\ \/ batch' = [batch EXCEPT !.parts = @ + 1]
             \/ batch' = [batch EXCEPT !.torn = TRUE]
          /\ tapFailed' = tapFailed \/ tapFailed' = TRUE
      BY <2>1 DEF Tap
    <3>2. batch \in [exists : BOOLEAN, parts : Nat, torn : BOOLEAN] /\ tapFailed \in BOOLEAN
      BY DEF TypeOK
    <3>3. [batch EXCEPT !.parts = @ + 1] \in [exists : BOOLEAN, parts : Nat, torn : BOOLEAN]
      BY <3>2
    <3>4. [batch EXCEPT !.torn = TRUE] \in [exists : BOOLEAN, parts : Nat, torn : BOOLEAN]
      BY <3>2
    <3> QED
      BY <3>1, <3>2, <3>3, <3>4, Zenon
  <2>2. CASE ~Tap
    BY <2>2 DEF TypeOK, SenderStep, LoadFifo, Walk, Load, Loaded, FrameTooLarge,
                SenderCut, SenderCloseWrite, SenderCloseRead
  <2> QED
    BY <2>1, <2>2
<1> QED
  BY <1>1, <1>2, <1>3, <1>4, <1>5 DEF TypeOK

\* A file is read, or Sender fails before a frame.
LEMMA LoadInv ==
  ASSUME LocalInv, Walk \/ Load \/ LoadFifo \/ FrameTooLarge
  PROVE  LocalInv'
<1>1. /\ sPc \in {"walk", "load", "writeHead"} /\ sPc' \in {"writeHead", "closeWrite"}
      /\ sPc = "writeHead" => sPc' = "closeWrite" /\ sErr' = "sender"
      /\ j' = j /\ sErr' = IF sPc' = "closeWrite" THEN "sender" ELSE sErr
      /\ UNCHANGED <<job, k, batchFile, result, pc, i, rErr, applied, toReceiver, toSender,
                     batch, tapFailed>>
  BY DEF Walk, Load, LoadFifo, AtFifo, Loaded, FrameTooLarge, SenderFails, command, caller
<1>2. Running /\ Running'
  BY <1>1 DEF Running
<1>3. CallerAt' /\ ReceiverAt' /\ AppliedAt' /\ CauseReported'
  BY <1>1, <1>2, SenderFrame
<1>4. TypeOK'
  BY <1>1, SenderTypes DEF LocalInv, TypeOK, SenderStep
<1>5. SenderAt'
  BY <1>1, <1>2 DEF LocalInv, SenderAt, SenderEnds, Src, Last, Entries
<1>6. Together'
  BY <1>1, <1>2 DEF LocalInv, Together, SenderAt, SenderEnds
<1>7. Causes' /\ InStep'
  BY <1>1, <1>2 DEF LocalInv, Causes, InStep, Together, SenderAt, SenderEnds
<1>8. BatchAt'
  BY <1>1, <1>2 DEF LocalInv, CallerAt, BatchAt, Whole, Parts, Src
<1> QED
  BY <1>3, <1>4, <1>5, <1>6, <1>7, <1>8 DEF LocalInv

\* Sender's end: a cut, and the closing of its ends of the pipes.
LEMMA SenderEndInv ==
  ASSUME LocalInv, SenderCut \/ SenderCloseWrite \/ SenderCloseRead
  PROVE  LocalInv'
<1>1. /\ UNCHANGED <<job, k, batchFile, result, pc, i, rErr, applied, j, batch, tapFailed>>
      /\ sPc' \in SenderEnds /\ sPc # "off"
      /\ toReceiver'.r = toReceiver.r /\ toSender'.w = toSender.w
  BY DEF SenderCut, SenderCloseWrite, SenderCloseRead, SenderFails, SenderEnds, command, caller,
         LocalInv, TypeOK
<1>2. Running /\ Running'
  BY <1>1 DEF Running, SenderEnds
<1>3. CallerAt' /\ ReceiverAt' /\ AppliedAt' /\ CauseReported'
  BY <1>1, <1>2, SenderFrame
<1>4. TypeOK'
  BY <1>1, SenderTypes DEF LocalInv, TypeOK, SenderStep
<1>5. CASE SenderCut
  <2>1. /\ sPc \in {"writeHead", "writeBody", "readHead", "readBody"} /\ sPc' = "closeWrite"
        /\ UNCHANGED <<toReceiver, toSender>> /\ sErr = "none"
        /\ \/ sPc \in {"writeHead", "writeBody"} /\ toReceiver.r # "open" /\ sErr' = "closed"
           \/ sPc \in {"readHead", "readBody"} /\ toSender.w # "open" /\ sErr' = toSender.w
    BY <1>2, <1>5 DEF SenderCut, SenderFails, LocalInv, SenderAt, SenderEnds
  <2>2. pc \in ReceiverEnds /\ (toSender.w # "open" => toSender.w = CloseCause(rErr))
    BY <1>2, <2>1 DEF LocalInv, ReceiverAt, ReceiverEnds
  <2>3. rErr # "none"
    <3> SUFFICES ASSUME rErr = "none"
                 PROVE  FALSE
      OBVIOUS
    <3>1. sPc = "readHead" /\ j = Last
      BY <1>2, <2>1, <2>2 DEF LocalInv, Together, ReceiverEnds
    <3>2. j \in Files(Src) /\ Files(Src) \subseteq 1..Len(Entries) /\ Len(Entries) \in Nat
      BY <1>2, <3>1, SourceFacts DEF LocalInv, SenderAt
    <3> QED
      BY <3>1, <3>2 DEF Last
  <2>4. sErr' # "order" /\ sErr' # "none"
    BY <2>1, <2>2, <2>3 DEF LocalInv, InStep, CloseCause
  <2>5. SenderAt'
    BY <1>1, <1>2, <2>1, <2>4 DEF LocalInv, SenderAt, SenderEnds
  <2>6. Together' /\ Causes' /\ InStep'
    BY <1>1, <1>2, <2>1, <2>3, <2>4 DEF LocalInv, Together, Causes, InStep
  <2>7. BatchAt'
    BY <1>1, <1>2, <2>4 DEF LocalInv, CallerAt, BatchAt, Whole, Parts
  <2> QED
    BY <1>3, <1>4, <2>5, <2>6, <2>7 DEF LocalInv
<1>6. CASE SenderCloseWrite \/ SenderCloseRead
  <2>1. /\ sPc \in SenderEnds /\ sErr' = sErr
        /\ \/ sPc = "closeWrite" /\ sPc' = "closeRead" /\ toReceiver'.w = CloseCause(sErr)
              /\ toSender' = toSender
           \/ sPc = "closeRead" /\ sPc' = "sent" /\ toSender'.r = "closed"
              /\ toReceiver' = toReceiver
    BY <1>6 DEF SenderCloseWrite, SenderCloseRead, SenderEnds, LocalInv, TypeOK
  <2>2. SenderAt'
    BY <1>1, <1>2, <2>1 DEF LocalInv, SenderAt, SenderEnds, Src, Last, Entries, CloseCause
  <2>3. Together'
    BY <1>1, <1>2, <2>1
    DEF LocalInv, Together, SenderEnds, Src, Last, Entries
  <2>4. Causes' /\ InStep'
    BY <1>1, <1>2, <2>1 DEF LocalInv, Causes, InStep
  <2>5. BatchAt'
    BY <1>1, <1>2, <2>1 DEF LocalInv, CallerAt, BatchAt, SenderEnds, Whole, Parts, Src
  <2> QED
    BY <1>3, <1>4, <2>2, <2>3, <2>4, <2>5 DEF LocalInv
<1> QED
  BY <1>5, <1>6

\* The batch file takes a part, or fails to.
LEMMA TapInv ==
  ASSUME LocalInv, Tap
  PROVE  LocalInv'
<1>1. /\ UNCHANGED <<job, k, batchFile, result, pc, i, rErr, applied, toReceiver, toSender>>
      /\ sPc \in {"tapHead", "tapBody"}
  BY DEF Tap, command, caller
<1>2. /\ Running /\ j \in Nat /\ sErr = "none" /\ (j = 0 \/ j \in Files(Src)) /\ job.batch
      /\ toReceiver.w = "open" /\ toSender.r = "open"
  BY <1>1 DEF Running, LocalInv, SenderAt, SenderEnds
<1>3. /\ job \in Jobs /\ Src \in Source /\ Entries = Src.entries /\ Len(Entries) \in Nat
      /\ Files(Src) \subseteq 1..Len(Entries)
  BY <1>2, SourceFacts DEF LocalInv
<1>4. CASE batch' = [batch EXCEPT !.torn = TRUE] /\ SenderFails("sender") /\ tapFailed' = TRUE
  <2>1. Running' /\ j' = j /\ sErr' = "sender" /\ sPc' = "closeWrite"
    BY <1>4 DEF Running, SenderFails
  <2>2. CallerAt' /\ ReceiverAt' /\ AppliedAt' /\ CauseReported'
    BY <1>1, <1>2, <2>1, SenderFrame
  <2>3. TypeOK'
    BY <1>2, <2>1, SenderTypes DEF LocalInv, SenderStep
  <2>4. SenderAt'
    BY <1>1, <1>2, <2>1 DEF SenderAt, SenderEnds
  <2>5. Together' /\ Causes' /\ InStep'
    BY <1>1, <1>4, <2>1 DEF LocalInv, Together, Causes, InStep
  <2>6. BatchAt'
    BY <1>1, <1>2, <1>4, <2>1 DEF LocalInv, TypeOK, CallerAt, BatchAt, Whole, Parts
  <2> QED
    BY <2>2, <2>3, <2>4, <2>5, <2>6 DEF LocalInv
<1>5. CASE /\ batch' = [batch EXCEPT !.parts = @ + 1] /\ tapFailed' = tapFailed
           /\ sPc = "tapHead" /\ sPc' = "writeBody" /\ UNCHANGED <<j, sErr>>
  <2>1. Running'
    BY <1>5 DEF Running
  <2>2. CallerAt' /\ ReceiverAt' /\ AppliedAt' /\ CauseReported'
    BY <1>1, <1>2, <2>1, SenderFrame
  <2>3. TypeOK'
    BY <1>2, <1>5, SenderTypes DEF LocalInv, SenderStep
  <2>4. SenderAt'
    BY <1>1, <1>2, <1>5 DEF SenderAt, SenderEnds, Src
  <2>5. Together'
    BY <1>1, <1>2, <1>5 DEF LocalInv, Together, SenderEnds
  <2>6. Causes' /\ InStep'
    BY <1>1, <1>2, <1>5 DEF LocalInv, Causes, InStep
  <2>7. BatchAt'
    <3>1. /\ ~batch.torn /\ batch.parts = PartsBefore(Src, j) + 0 /\ batchFile /\ batch.exists
          /\ pc \notin {"create", "start", "end"} /\ result = "running"
      BY <1>1, <1>2, <1>5 DEF LocalInv, CallerAt, BatchAt
    <3>2. /\ batch'.parts = PartsBefore(Src, j) + 1 /\ ~batch'.torn /\ batch'.exists
      <4>1. PartsBefore(Src, j) \in Nat
        <5>1. Gap(Src, j + 1, j + 1) /\ j + 1 \in Nat /\ j < j + 1
          BY <1>2 DEF Gap
        <5> QED
          BY <1>2, <1>3, <5>1, PartsNext
      <4> QED
        BY <1>5, <3>1, <4>1 DEF LocalInv, TypeOK
    <3>3. Src' = Src
      BY <1>1 DEF Src
    <3> QED
      BY <1>1, <1>2, <1>5, <3>1, <3>2, <3>3 DEF BatchAt
  <2> QED
    BY <2>2, <2>3, <2>4, <2>5, <2>6, <2>7 DEF LocalInv
<1>6. CASE /\ batch' = [batch EXCEPT !.parts = @ + 1] /\ tapFailed' = tapFailed
           /\ sPc = "tapBody" /\ NextTurn
  <2>1. /\ j' \in Nat /\ j' > j /\ j' <= Last /\ Gap(Src, j + 1, j') /\ sErr' = "none"
        /\ \/ sPc' = "readHead" /\ j' \in Files(Src)
           \/ sPc' = "closeWrite" /\ j' = Last
    BY <1>2, <1>6, TurnFacts DEF LocalInv
  <2>2. Running' /\ Src' = Src /\ Last' = Last /\ Last = Len(Entries) + 1
    BY <1>1, <2>1 DEF Running, Src, Last, Entries
  <2>3. CallerAt' /\ ReceiverAt' /\ AppliedAt' /\ CauseReported'
    BY <1>1, <1>2, <2>2, SenderFrame
  <2>4. TypeOK'
    BY <1>6, <2>1, SenderTypes DEF LocalInv, SenderStep
  <2>5. SenderAt'
    BY <1>1, <1>2, <2>1, <2>2 DEF SenderAt, SenderEnds
  <2>6. Together'
    <3> SUFFICES ASSUME rErr = "none"
                 PROVE  \/ pc = "apply" /\ i < j' /\ Gap(Src, i + 1, j')
                        \/ pc = "entry" /\ i <= j' /\ Gap(Src, i, j')
                        \/ pc = "writeHead" /\ i = j'
                        \/ pc \in ReceiverEnds /\ j' = Last
      BY <1>1, <2>1, <2>2 DEF Together, SenderEnds, ReceiverEnds
    <3>1. (pc = "apply" /\ i = j) \/ Passed(j + 1)
      BY <1>2, <1>6 DEF LocalInv, Together
    <3>2. /\ i \in Nat /\ (pc = "entry" => i <= Last) /\ (pc = "writeHead" => i \in Files(Src))
          /\ pc \in ReceiverEnds => i = Last
      BY <1>2, <1>3 DEF LocalInv, ReceiverAt, ReceiverEnds, Last
    <3>3. CASE pc = "apply" /\ i = j
      BY <2>1, <3>3
    <3>4. CASE pc \in {"entry", "writeHead"} /\ i >= j + 1 /\ Gap(Src, j + 1, i)
      <4>1. j' \in Files(Src) => j' >= i
        BY <1>2, <2>1, <3>2, <3>4, GapFacts
      <4>2. j' = Last => j' >= i
        BY <1>3, <3>2, <3>4 DEF Last
      <4>3. Gap(Src, i, j')
        BY <1>2, <2>1, <3>2, <3>4, GapFacts
      <4>4. i \in Files(Src) => i >= j'
        BY <1>2, <2>1, <3>2, <3>4, GapFacts
      <4> QED
        BY <2>1, <3>2, <3>4, <4>1, <4>2, <4>3, <4>4
    <3>5. CASE pc \in ReceiverEnds /\ Gap(Src, j + 1, i)
      <4>1. j' = Last
        <5>1. j' \in Files(Src) => j' >= i
          BY <1>2, <2>1, <3>2, <3>5, GapFacts
        <5>2. i = Len(Entries) + 1 /\ (j' \in Files(Src) => j' <= Len(Entries))
          BY <1>3, <2>2, <3>2, <3>5
        <5> QED
          BY <1>3, <2>1, <5>1, <5>2
      <4> QED
        BY <3>5, <4>1
    <3> QED
      BY <3>1, <3>3, <3>4, <3>5 DEF Passed
  <2>7. Causes' /\ InStep'
    BY <1>1, <1>2, <1>6, <2>1 DEF LocalInv, Causes, InStep
  <2>8. BatchAt'
    <3>1. /\ ~batch.torn /\ batch.parts = PartsBefore(Src, j) + 1 /\ batchFile /\ batch.exists
          /\ pc \notin {"create", "start", "end"} /\ result = "running"
      BY <1>1, <1>2, <1>6 DEF LocalInv, CallerAt, BatchAt
    <3>2. PartsBefore(Src, j') = PartsBefore(Src, j) + 2 /\ PartsBefore(Src, j) \in Nat
      BY <1>2, <1>3, <2>1, PartsNext
    <3>3. /\ batch'.parts = PartsBefore(Src, j') + 0 /\ ~batch'.torn /\ batch'.exists
      BY <1>6, <3>1, <3>2 DEF LocalInv, TypeOK
    <3> QED
      BY <1>1, <1>2, <2>1, <2>2, <3>1, <3>3 DEF BatchAt
  <2> QED
    BY <2>3, <2>4, <2>5, <2>6, <2>7, <2>8 DEF LocalInv
<1> QED
  BY <1>1, <1>4, <1>5, <1>6 DEF Tap

-----------------------------------------------------------------------------
(* Frames handed over. *)

\* Both goroutines are at the same file when a frame crosses.
LEMMA HandoverFacts ==
  ASSUME LocalInv, Handover
  PROVE  /\ Running /\ sErr = "none" /\ rErr = "none" /\ i = j /\ i \in Nat
         /\ i = 0 \/ i \in Files(Src)
         /\ pc \notin {"create", "start", "end"} /\ result = "running"
         /\ UNCHANGED <<job, k, batchFile, result, toReceiver, toSender, batch, applied, tapFailed>>
<1>1. /\ sPc \in {"writeHead", "writeBody", "readHead", "readBody"}
      /\ pc \in {"writeHead", "writeBody", "readHead", "readBody"}
      /\ sPc = "writeHead" => pc = "readHead"
      /\ sPc = "writeBody" => pc = "readBody"
      /\ sPc = "readHead" => pc = "writeHead"
      /\ sPc = "readBody" => pc = "writeBody"
      /\ UNCHANGED <<job, k, batchFile, result, toReceiver, toSender, batch, applied, tapFailed>>
  BY DEF Handover, SendHead, SendBody, SignatureHead, SignatureBody, command
<1>2. Running /\ sErr = "none" /\ rErr = "none" /\ i \in Nat
  BY <1>1 DEF Running, LocalInv, SenderAt, ReceiverAt, SenderEnds, ReceiverEnds
<1>3. i = j
  BY <1>1, <1>2 DEF LocalInv, Together, ReceiverEnds
<1>4. i = 0 \/ i \in Files(Src)
  BY <1>1, <1>2 DEF LocalInv, ReceiverAt
<1> QED
  BY <1>1, <1>2, <1>3, <1>4 DEF LocalInv, CallerAt

\* A header crosses, or a signature's payload.
LEMMA HeadInv ==
  ASSUME LocalInv, SendHead \/ SignatureHead \/ SignatureBody
  PROVE  LocalInv'
<1>1. /\ Running /\ sErr = "none" /\ rErr = "none" /\ i = j /\ i \in Nat
      /\ i = 0 \/ i \in Files(Src)
      /\ pc \notin {"create", "start", "end"} /\ result = "running"
      /\ UNCHANGED <<job, k, batchFile, result, toReceiver, toSender, batch, applied, tapFailed>>
  BY HandoverFacts DEF Handover
<1>2. /\ UNCHANGED <<i, rErr, j, sErr>>
      /\ \/ /\ sPc = "writeHead" /\ pc = "readHead" /\ pc' = "readBody"
            /\ sPc' = (IF job.batch THEN "tapHead" ELSE "writeBody")
         \/ sPc = "readHead" /\ pc = "writeHead" /\ pc' = "writeBody" /\ sPc' = "readBody"
         \/ sPc = "readBody" /\ pc = "writeBody" /\ pc' = "readHead" /\ sPc' = "load"
  BY <1>1 DEF SendHead, SignatureHead, SignatureBody
<1>3. Running' /\ Src' = Src
  BY <1>1, <1>2 DEF Running, Src
<1>4. TypeOK'
  BY <1>1, <1>2 DEF LocalInv, TypeOK
<1>5. CallerAt' /\ CauseReported' /\ InStep'
  BY <1>1, <1>2, <1>3 DEF LocalInv, CallerAt, CauseReported, InStep
<1>6. SenderAt'
  BY <1>1, <1>2, <1>3 DEF LocalInv, SenderAt, SenderEnds
<1>7. ReceiverAt'
  BY <1>1, <1>2, <1>3 DEF LocalInv, ReceiverAt, ReceiverEnds
<1>8. Together' /\ Causes'
  BY <1>1, <1>2, <1>3 DEF LocalInv, Together, Causes, SenderEnds
<1>9. AppliedAt'
  BY <1>1, <1>2, <1>3 DEF LocalInv, AppliedAt
<1>10. BatchAt'
  <2>1. batchFile => job.batch
    BY DEF LocalInv, BatchAt
  <2> QED
    BY <1>1, <1>2, <1>3, <2>1 DEF LocalInv, BatchAt, Whole, Parts
<1> QED
  BY <1>4, <1>5, <1>6, <1>7, <1>8, <1>9, <1>10 DEF LocalInv

\* The file list or a delta crosses; without a batch file Sender goes on at once.
LEMMA BodyInv ==
  ASSUME LocalInv, SendBody
  PROVE  LocalInv'
<1>1. /\ Running /\ sErr = "none" /\ rErr = "none" /\ i = j /\ i \in Nat
      /\ i = 0 \/ i \in Files(Src)
      /\ pc \notin {"create", "start", "end"} /\ result = "running"
      /\ UNCHANGED <<job, k, batchFile, result, toReceiver, toSender, batch, applied, tapFailed>>
  BY HandoverFacts DEF Handover
<1>2. /\ rErr' = rErr /\ sPc = "writeBody" /\ pc = "readBody"
      /\ \/ i = 0 /\ pc' = "entry" /\ i' = 1
         \/ i > 0 /\ i \in Files(Src) /\ pc' = "apply" /\ i' = i
  <2>1. i > 0 \/ i = 0
    BY <1>1
  <2>2. sPc = "writeBody" /\ pc = "readBody"
    BY DEF SendBody
  <2>3. \/ i = 0 /\ pc' = "entry" /\ i' = 1 /\ rErr' = rErr
        \/ i > 0 /\ pc' = "apply" /\ UNCHANGED <<i, rErr>>
    BY <1>1, <2>1 DEF SendBody
  <2> QED
    BY <1>1, <2>2, <2>3
<1>3. /\ job \in Jobs /\ Src \in Source /\ Entries = Src.entries /\ Len(Entries) \in Nat
      /\ Files(Src) \subseteq 1..Len(Entries) /\ Last \in Nat /\ Last = Len(Entries) + 1
  BY <1>1, SourceFacts DEF LocalInv, Last
<1>4. /\ sErr' = "none" /\ j' \in Nat
      /\ \/ sPc' = "tapBody" /\ j' = j /\ job.batch
         \/ /\ j' > j /\ j' <= Last /\ Gap(Src, j + 1, j') /\ ~job.batch
            /\ \/ sPc' = "readHead" /\ j' \in Files(Src)
               \/ sPc' = "closeWrite" /\ j' = Last
  <2>1. CASE job.batch
    BY <1>1, <2>1 DEF SendBody
  <2>2. CASE ~job.batch
    <3>1. NextTurn
      BY <2>2 DEF SendBody
    <3> QED
      BY <1>1, <2>2, <3>1, TurnFacts DEF LocalInv
  <2> QED
    BY <2>1, <2>2
<1>5. /\ Running' /\ Src' = Src /\ Last' = Last /\ i' \in Nat
      /\ pc' \in {"entry", "apply"}
      /\ sPc' \in {"tapBody", "readHead", "closeWrite"}
  BY <1>1, <1>2, <1>4 DEF Running, Src, Last, Entries
<1>6. TypeOK'
  BY <1>1, <1>2, <1>4, <1>5 DEF LocalInv, TypeOK
<1>7. CallerAt' /\ CauseReported' /\ InStep'
  BY <1>1, <1>2, <1>4, <1>5 DEF LocalInv, CallerAt, CauseReported, InStep
<1>8. SenderAt'
  <2>1. toReceiver.w = "open" /\ toSender.r = "open" /\ (j = 0 \/ j \in Files(Src))
    BY <1>1, <1>2 DEF LocalInv, SenderAt
  <2> QED
    BY <1>1, <1>4, <1>5, <2>1 DEF SenderAt, SenderEnds
<1>9. ReceiverAt'
  <2>1. toSender.w = "open" /\ toReceiver.r = "open"
    BY <1>1, <1>2 DEF LocalInv, ReceiverAt
  <2>2. 1 \in 1..Last
    BY <1>3
  <2> QED
    BY <1>1, <1>2, <1>5, <2>1, <2>2 DEF ReceiverAt, ReceiverEnds
<1>10. Together'
  <2>1. CASE sPc' = "tapBody"
    <3>1. pc' = "entry" => i' >= j' + 1 /\ Gap(Src, j' + 1, i')
      BY <1>1, <1>2, <1>4, <2>1 DEF Gap
    <3> QED
      BY <1>1, <1>2, <1>4, <1>5, <2>1, <3>1 DEF Together, Passed, SenderEnds
  <2>2. CASE sPc' # "tapBody"
    <3>1. CASE pc' = "apply"
      <4>1. i' < j' /\ Gap(Src, i' + 1, j')
        BY <1>1, <1>2, <1>4, <2>2, <3>1
      <4> QED
        BY <1>5, <2>2, <3>1, <4>1 DEF Together, SenderEnds
    <3>2. CASE pc' = "entry"
      <4>1. i' <= j' /\ Gap(Src, i', j')
        BY <1>1, <1>2, <1>4, <2>2, <3>2
      <4> QED
        BY <1>5, <2>2, <3>2, <4>1 DEF Together, SenderEnds
    <3> QED
      BY <1>5, <3>1, <3>2
  <2> QED
    BY <2>1, <2>2
<1>11. Causes'
  BY <1>1, <1>2, <1>4 DEF LocalInv, Causes
<1>12. AppliedAt'
  <2>1. Before(job, k, i') = Before(job, k, i)
    <3>1. CASE i = 0
      <4>1. {x \in Files(job.sources[k]) : x < 0} = {x \in Files(job.sources[k]) : x < 1}
        BY <1>3 DEF Src
      <4> QED
        BY <1>2, <3>1, <4>1 DEF Before
    <3>2. CASE i # 0
      BY <1>2, <3>2
    <3> QED
      BY <3>1, <3>2
  <2> QED
    BY <1>1, <1>2, <1>5, <2>1 DEF LocalInv, AppliedAt
<1>13. BatchAt'
  <2>1. batchFile => job.batch
    BY DEF LocalInv, BatchAt
  <2> QED
    BY <1>1, <1>2, <1>4, <1>5, <2>1 DEF LocalInv, BatchAt, Whole, Parts
<1> QED
  BY <1>6, <1>7, <1>8, <1>9, <1>10, <1>11, <1>12, <1>13 DEF LocalInv

-----------------------------------------------------------------------------
(* Receiver's steps. *)

\* What is applied after one position more.
LEMMA BeforeNext ==
  ASSUME CallerAt, Running, i \in Nat
  PROVE  /\ i \notin Files(Src) => Before(job, k, i + 1) = Before(job, k, i)
         /\ i \in Files(Src) => Before(job, k, i + 1) = Before(job, k, i) \cup {<<k, Entries[i].path>>}
<1>1. /\ Files(Src) \subseteq Nat /\ Src = job.sources[k] /\ Entries = Src.entries
  BY SourceFacts DEF Src
<1>2. CASE i \notin Files(Src)
  <2>1. {x \in Files(Src) : x < i + 1} = {x \in Files(Src) : x < i}
    BY <1>1, <1>2
  <2> QED
    BY <1>1, <1>2, <2>1 DEF Before
<1>3. CASE i \in Files(Src)
  <2>1. {x \in Files(Src) : x < i + 1} = {x \in Files(Src) : x < i} \cup {i}
    BY <1>1, <1>3
  <2> QED
    BY <1>1, <1>3, <2>1 DEF Before
<1> QED
  BY <1>2, <1>3

\* What a step of Receiver alone leaves as it was.
LEMMA ReceiverFrame ==
  ASSUME LocalInv, Running, pc' \notin {"create", "start", "end"},
         UNCHANGED <<job, k, batchFile, result, sPc, j, sErr, batch, tapFailed>>,
         toReceiver'.w = toReceiver.w, toSender'.r = toSender.r
  PROVE  CallerAt' /\ SenderAt' /\ BatchAt' /\ CauseReported' /\ Running'
<1>1. pc \notin {"create", "start", "end"} /\ result = "running" /\ Running'
  BY DEF LocalInv, CallerAt, Running
<1>2. CallerAt' /\ CauseReported'
  BY <1>1 DEF LocalInv, CallerAt, CauseReported
<1>3. SenderAt'
  BY <1>1 DEF LocalInv, SenderAt, Src, Last, Entries
<1>4. BatchAt'
  BY <1>1 DEF LocalInv, BatchAt, Src, Whole, Parts
<1> QED
  BY <1>1, <1>2, <1>3, <1>4

\* Receiver deals with an entry, or with the passes after them, or fails.
LEMMA EntryInv ==
  ASSUME LocalInv, LocalEntry \/ Sign \/ ApplyEntry \/ FinalPasses
  PROVE  LocalInv'
<1>1. /\ UNCHANGED <<job, k, batchFile, result, sPc, j, sErr, toReceiver, toSender,
                     batch, tapFailed>>
      /\ pc \in {"entry", "apply"} /\ pc' \in {"entry", "writeHead", "closeWrite"}
      /\ applied' = applied \/ ApplyEntry
  BY DEF LocalEntry, Sign, ApplyEntry, FinalPasses, ReceiverFails, command, sender
<1>2. Running /\ rErr = "none" /\ i \in Nat
  BY <1>1 DEF LocalInv, CallerAt, ReceiverAt, ReceiverEnds
<1>3. CallerAt' /\ SenderAt' /\ BatchAt' /\ CauseReported' /\ Running'
  BY <1>1, <1>2, ReceiverFrame
<1>4. /\ job \in Jobs /\ k \in 1..Len(job.sources) /\ Src \in Source
      /\ Entries = Src.entries /\ Len(Entries) \in Nat
      /\ Files(Src) \subseteq 1..Len(Entries) /\ Last \in Nat /\ Last = Len(Entries) + 1
      /\ \A n \in 1..Len(Entries) : /\ ReceiverSkips(n) <=> n \notin Files(Src)
                                    /\ Entries[n].path \in Path
  BY <1>2, SourceFacts DEF LocalInv, Last
<1>5. Src' = Src /\ Last' = Last
  BY <1>1 DEF Src, Last, Entries
<1>6. toSender.w = "open" /\ toReceiver.r = "open" /\ (pc = "entry" => i \in 1..Last)
      /\ (pc = "apply" => i \in Files(Src))
  BY <1>1, <1>2 DEF LocalInv, ReceiverAt
<1>7. CASE ReceiverFails("receiver") /\ applied' = applied
  <2>1. rErr' = "receiver" /\ pc' = "closeWrite" /\ i' = i
    BY <1>7 DEF ReceiverFails
  <2>2. TypeOK'
    BY <1>1, <1>7, <2>1 DEF LocalInv, TypeOK, Cause
  <2>3. ReceiverAt'
    BY <1>1, <1>2, <1>6, <2>1 DEF ReceiverAt, ReceiverEnds
  <2>4. Together' /\ Causes' /\ InStep' /\ AppliedAt'
    BY <1>1, <1>3, <2>1 DEF LocalInv, Together, Causes, InStep, AppliedAt
  <2> QED
    BY <1>3, <2>2, <2>3, <2>4 DEF LocalInv
<1>8. CASE rErr' = rErr
  <2>1. \/ /\ pc = "entry" /\ pc' = "entry" /\ i' = i + 1 /\ i \in 1..Len(Entries)
           /\ i \notin Files(Src) /\ applied' = applied
        \/ /\ pc = "entry" /\ pc' = "writeHead" /\ i' = i /\ i \in Files(Src)
           /\ applied' = applied
        \/ /\ pc = "apply" /\ pc' = "entry" /\ i' = i + 1 /\ i \in Files(Src)
           /\ applied' = applied \cup {<<k, Entries[i].path>>}
        \/ pc = "entry" /\ pc' = "closeWrite" /\ i' = i /\ i = Last /\ applied' = applied
    <3>1. CASE LocalEntry
      <4>1. i \in 1..Len(Entries) /\ pc = "entry" /\ ReceiverSkips(i)
        BY <1>2, <1>4, <1>6, <3>1 DEF LocalEntry
      <4> QED
        BY <1>2, <1>4, <1>8, <3>1, <4>1 DEF LocalEntry, ReceiverFails
    <3>2. CASE Sign
      <4>1. i \in 1..Len(Entries) /\ pc = "entry" /\ ~ReceiverSkips(i)
        BY <1>2, <1>4, <1>6, <3>2 DEF Sign
      <4> QED
        BY <1>2, <1>4, <1>8, <3>2, <4>1 DEF Sign, ReceiverFails
    <3>3. CASE ApplyEntry
      BY <1>2, <1>6, <1>8, <3>3 DEF ApplyEntry, ReceiverFails
    <3>4. CASE FinalPasses
      <4>1. i = Last
        BY <1>4, <1>6, <3>4 DEF FinalPasses
      <4> QED
        BY <1>2, <1>8, <3>4, <4>1 DEF FinalPasses, ReceiverFails
    <3> QED
      BY <3>1, <3>2, <3>3, <3>4
  <2>2. i' \in Nat /\ (pc' = "entry" => i' \in 1..Last)
    BY <1>2, <1>4, <1>6, <2>1
  <2>3. TypeOK'
    <3>1. applied' \subseteq Nat \X Path
      <4>1. i \in Files(Src) => <<k, Entries[i].path>> \in Nat \X Path
        BY <1>4
      <4> QED
        BY <2>1, <4>1 DEF LocalInv, TypeOK
    <3> QED
      BY <1>1, <1>8, <2>2, <3>1 DEF LocalInv, TypeOK
  <2>4. ReceiverAt'
    BY <1>1, <1>2, <1>5, <1>6, <1>8, <2>1, <2>2 DEF ReceiverAt, ReceiverEnds
  <2>5. Together'
    <3> SUFFICES ASSUME sErr = "none"
                 PROVE  Together'
      BY <1>1 DEF Together
    <3>1. /\ j \in Nat /\ sPc \in {"tapBody", "readHead"} \cup SenderEnds
          /\ sPc = "readHead" => j \in Files(Src)
          /\ sPc \in SenderEnds => j = Last
      BY <1>1, <1>2 DEF LocalInv, Together, SenderAt
    <3>2. CASE sPc = "tapBody"
      <4>1. (pc = "apply" /\ i = j) \/ (pc = "entry" /\ i >= j + 1 /\ Gap(Src, j + 1, i))
        BY <1>1, <1>2, <3>2 DEF LocalInv, Together, Passed, ReceiverEnds
      <4>2. CASE pc = "apply"
        <5>1. pc' = "entry" /\ i' = j + 1 /\ Gap(Src, j + 1, j + 1)
          BY <2>1, <3>1, <4>1, <4>2 DEF Gap
        <5> QED
          BY <1>1, <1>5, <3>1, <3>2, <5>1 DEF Together, Passed, SenderEnds
      <4>3. CASE pc = "entry"
        <5>1. i' >= j + 1 /\ Gap(Src, j + 1, i')
          BY <1>2, <2>1, <3>1, <4>1, <4>3, GapFacts
        <5> QED
          BY <1>1, <1>5, <2>1, <3>1, <3>2, <4>3, <5>1 DEF Together, Passed, SenderEnds, ReceiverEnds
      <4> QED
        BY <1>1, <4>2, <4>3
    <3>3. CASE sPc = "readHead" \/ sPc \in SenderEnds
      <4>1. \/ pc = "apply" /\ i < j /\ Gap(Src, i + 1, j)
            \/ pc = "entry" /\ i <= j /\ Gap(Src, i, j)
        BY <1>1, <1>2, <3>3 DEF LocalInv, Together, SenderEnds, ReceiverEnds
      <4>2. j \in Files(Src) \/ j = Last
        BY <3>1, <3>3
      <4>3. \/ pc' = "entry" /\ i' <= j /\ Gap(Src, i', j)
            \/ pc' = "writeHead" /\ i' = j
            \/ pc' = "closeWrite" /\ j = Last
        <5>1. CASE pc = "apply"
          BY <1>2, <2>1, <3>1, <4>1, <5>1
        <5>2. CASE pc' = "entry" /\ pc = "entry"
          <6>1. i # j
            BY <1>2, <1>4, <2>1, <4>2, <5>2
          <6>2. i + 1 <= j /\ i + 1 \in Nat /\ i + 1 >= i
            BY <1>2, <3>1, <4>1, <5>2, <6>1
          <6> QED
            BY <1>2, <2>1, <3>1, <4>1, <5>2, <6>2, GapFacts
        <5>3. CASE pc' = "writeHead"
          <6>1. i >= j
            BY <1>2, <2>1, <3>1, <4>1, <5>3, GapFacts
          <6> QED
            BY <1>2, <2>1, <3>1, <4>1, <5>3, <6>1
        <5>4. CASE pc' = "closeWrite"
          <6>1. i = Last /\ i <= j
            BY <2>1, <4>1, <5>4
          <6>2. j \in Files(Src) => j < Last
            BY <1>4
          <6> QED
            BY <1>4, <3>1, <4>2, <5>4, <6>1, <6>2
        <5> QED
          BY <1>1, <5>1, <5>2, <5>3, <5>4
      <4> QED
        BY <1>1, <1>5, <3>3, <4>3 DEF Together, SenderEnds, ReceiverEnds
    <3> QED
      BY <3>1, <3>2, <3>3
  <2>6. Causes' /\ InStep'
    BY <1>1, <1>2, <1>8, <2>1 DEF LocalInv, Causes, InStep
  <2>7. AppliedAt'
    <3>1. /\ i \notin Files(Src) => Before(job, k, i + 1) = Before(job, k, i)
          /\ i \in Files(Src) => Before(job, k, i + 1) =
                                   Before(job, k, i) \cup {<<k, Entries[i].path>>}
      BY <1>2, BeforeNext DEF LocalInv
    <3>2. applied = Earlier(job, k) \cup Before(job, k, i)
      BY <1>2 DEF LocalInv, AppliedAt
    <3>3. applied' = Earlier(job, k) \cup Before(job, k, i')
      BY <2>1, <3>1, <3>2
    <3> QED
      BY <1>1, <1>3, <3>3 DEF AppliedAt
  <2> QED
    BY <1>3, <2>3, <2>4, <2>5, <2>6, <2>7 DEF LocalInv
<1>9. rErr' = rErr \/ (ReceiverFails("receiver") /\ applied' = applied)
  BY DEF LocalEntry, Sign, ApplyEntry, FinalPasses
<1> QED
  BY <1>7, <1>8, <1>9

\* Receiver is cut off: Sender has failed with a cause of its own.
LEMMA ReceiverCutInv ==
  ASSUME LocalInv, ReceiverCut
  PROVE  LocalInv'
<1>1. /\ UNCHANGED <<job, k, batchFile, result, sPc, j, sErr, toReceiver, toSender,
                     batch, tapFailed, applied, i>>
      /\ pc' = "closeWrite"
      /\ \/ pc \in {"readHead", "readBody"} /\ toReceiver.w # "open" /\ rErr' = toReceiver.w
         \/ pc \in {"writeHead", "writeBody"} /\ toSender.r # "open" /\ rErr' = "closed"
  BY DEF ReceiverCut, ReceiverFails, command, sender
<1>2. Running /\ rErr = "none" /\ i \in Nat /\ toSender.w = "open" /\ toReceiver.r = "open"
  BY <1>1 DEF LocalInv, CallerAt, ReceiverAt, ReceiverEnds
<1>3. CallerAt' /\ SenderAt' /\ BatchAt' /\ CauseReported' /\ Running'
  BY <1>1, <1>2, ReceiverFrame
<1>4. sPc \in SenderEnds /\ (toReceiver.w # "open" => toReceiver.w = CloseCause(sErr))
  BY <1>1, <1>2 DEF LocalInv, SenderAt, SenderEnds
<1>5. sErr # "none"
  <2> SUFFICES ASSUME sErr = "none"
               PROVE  FALSE
    OBVIOUS
  <2>1. pc = "writeHead" /\ i = j /\ j = Last
    BY <1>1, <1>2, <1>4 DEF LocalInv, Together, SenderAt, ReceiverEnds, SenderEnds
  <2>2. i \in Files(Src) /\ Files(Src) \subseteq 1..Len(Entries) /\ Len(Entries) \in Nat
    BY <1>2, <2>1, SourceFacts DEF LocalInv, ReceiverAt
  <2> QED
    BY <2>1, <2>2 DEF Last
<1>6. sErr = "sender" /\ (tapFailed \/ pc \in {"readHead", "readBody"})
  BY <1>2, <1>5 DEF LocalInv, Causes
<1>7. \/ rErr' = "sender"
      \/ rErr' = "closed" /\ tapFailed
  BY <1>1, <1>4, <1>6 DEF CloseCause
<1>8. TypeOK'
  BY <1>1, <1>7 DEF LocalInv, TypeOK, Cause
<1>9. ReceiverAt'
  BY <1>1, <1>2, <1>7 DEF ReceiverAt, ReceiverEnds
<1>10. Together' /\ AppliedAt' /\ Causes' /\ InStep'
  BY <1>1, <1>3, <1>7 DEF LocalInv, Together, AppliedAt, Causes, InStep
<1> QED
  BY <1>3, <1>8, <1>9, <1>10 DEF LocalInv

\* The caller closes its ends of the pipes.
LEMMA CallerCloseInv ==
  ASSUME LocalInv, CallerCloseWrite \/ CallerCloseRead
  PROVE  LocalInv'
<1>1. /\ UNCHANGED <<job, k, batchFile, result, sPc, j, sErr, batch, tapFailed, applied, i, rErr>>
      /\ pc \in ReceiverEnds /\ pc' \in ReceiverEnds
      /\ \/ /\ pc = "closeWrite" /\ pc' = "closeRead" /\ toReceiver' = toReceiver
            /\ toSender' = [toSender EXCEPT !.w = CloseCause(rErr)]
         \/ /\ pc = "closeRead" /\ pc' = "join" /\ toSender' = toSender
            /\ toReceiver' = [toReceiver EXCEPT !.r = "closed"]
  BY DEF CallerCloseWrite, CallerCloseRead, command, sender, ReceiverEnds
<1>2. Running /\ Src' = Src /\ Last' = Last
  BY <1>1 DEF LocalInv, CallerAt, ReceiverEnds, Src, Last, Entries
<1>3. /\ toReceiver \in [w : Cause \cup {"open"}, r : {"open", "closed"}]
      /\ toSender \in [w : Cause \cup {"open"}, r : {"open", "closed"}]
      /\ CloseCause(rErr) \in Cause
  BY DEF LocalInv, TypeOK, CloseCause, Cause
<1>4. CallerAt' /\ SenderAt' /\ BatchAt' /\ CauseReported' /\ Running'
  <2>1. toReceiver'.w = toReceiver.w /\ toSender'.r = toSender.r
    BY <1>1, <1>3
  <2>2. pc' \notin {"create", "start", "end"}
    BY <1>1
  <2> QED
    BY <1>1, <1>2, <2>1, <2>2, ReceiverFrame
<1>5. TypeOK'
  <2>1. /\ toReceiver' \in [w : Cause \cup {"open"}, r : {"open", "closed"}]
        /\ toSender' \in [w : Cause \cup {"open"}, r : {"open", "closed"}]
    BY <1>1, <1>3
  <2> QED
    BY <1>1, <2>1 DEF LocalInv, TypeOK, ReceiverEnds
<1>6. ReceiverAt'
  BY <1>1, <1>2, <1>3, <1>4 DEF LocalInv, ReceiverAt, ReceiverEnds
<1>7. Together'
  BY <1>1, <1>2, <1>4 DEF LocalInv, Together, Passed, ReceiverEnds
<1>8. Causes' /\ InStep' /\ AppliedAt'
  BY <1>1, <1>2, <1>4 DEF LocalInv, Causes, InStep, AppliedAt, ReceiverEnds
<1> QED
  BY <1>4, <1>5, <1>6, <1>7, <1>8 DEF LocalInv

-----------------------------------------------------------------------------
(* runSync's steps. *)

\* The initial states.
LEMMA LocalInit ==
  ASSUME Init
  PROVE  LocalInv
<1>1. Len(job.sources) \in Nat
  BY JobAssumption DEF Init
<1>2. TypeOK
  <2>1. batch \in [exists : BOOLEAN, parts : Nat, torn : BOOLEAN]
    BY DEF Init, NoBatch
  <2>2. /\ toReceiver \in [w : Cause \cup {"open"}, r : {"open", "closed"}]
        /\ toSender \in [w : Cause \cup {"open"}, r : {"open", "closed"}]
    BY DEF Init, Open
  <2>3. applied \subseteq Nat \X Path /\ k \in 1..Len(job.sources) + 1
    BY <1>1 DEF Init
  <2> QED
    BY <2>1, <2>2, <2>3 DEF Init, TypeOK
<1>3. Earlier(job, k) = {}
  BY DEF Init, Earlier
<1> QED
  BY <1>1, <1>2, <1>3
  DEF Init, LocalInv, CallerAt, Running, SenderAt, ReceiverAt, Together, Causes, InStep,
      CauseReported, AppliedAt, BatchAt, NoBatch

\* The batch file is created, or cannot be.
LEMMA CreateInv ==
  ASSUME LocalInv, CreateBatch
  PROVE  LocalInv'
<1>1. /\ UNCHANGED <<job, k, i, rErr, sPc, j, sErr, toReceiver, toSender, applied, tapFailed>>
      /\ pc = "create" /\ k = 1 /\ ~Running /\ ~Running' /\ result = "running" /\ batch = NoBatch
      /\ ~batchFile
      /\ \/ ~job.batch /\ pc' = "start" /\ UNCHANGED <<batch, batchFile, result>>
         \/ /\ job.batch /\ pc' = "start"
            /\ batch' = [exists |-> TRUE, parts |-> 0, torn |-> FALSE] /\ batchFile' = TRUE
            /\ result' = result
         \/ job.batch /\ pc' = "end" /\ result' = "batch" /\ UNCHANGED <<batch, batchFile>>
  BY DEF CreateBatch, LocalInv, CallerAt, Running, BatchAt, NoBatch, sender
<1>2. TypeOK'
  <2>1. batch' \in [exists : BOOLEAN, parts : Nat, torn : BOOLEAN]
    <3>1. batch \in [exists : BOOLEAN, parts : Nat, torn : BOOLEAN]
      BY DEF LocalInv, TypeOK
    <3>2. [exists |-> TRUE, parts |-> 0, torn |-> FALSE]
             \in [exists : BOOLEAN, parts : Nat, torn : BOOLEAN]
      OBVIOUS
    <3> QED
      BY <1>1, <3>1, <3>2, Zenon
  <2>2. batchFile' \in BOOLEAN /\ result' \in Cause \cup {"running", "ok", "batch", "output"}
    BY <1>1 DEF LocalInv, TypeOK
  <2> QED
    BY <1>1, <2>1, <2>2 DEF LocalInv, TypeOK
<1>3. CallerAt'
  BY <1>1 DEF LocalInv, CallerAt
<1>4. BatchAt'
  BY <1>1 DEF LocalInv, BatchAt, NoBatch
<1>5. AppliedAt' /\ CauseReported' /\ InStep'
  BY <1>1 DEF LocalInv, AppliedAt, CauseReported, InStep
<1> QED
  BY <1>1, <1>2, <1>3, <1>4, <1>5 DEF LocalInv, SenderAt, ReceiverAt, Together, Causes

\* The next source's two goroutines start.
LEMMA StartInv ==
  ASSUME LocalInv, StartSource
  PROVE  LocalInv'
<1>1. /\ UNCHANGED <<job, k, batchFile, result, batch, applied, tapFailed>>
      /\ pc = "start" /\ k <= Len(job.sources) /\ ~Running /\ Running' /\ result = "running"
      /\ pc' = "readHead" /\ i' = 0 /\ rErr' = "none"
      /\ sPc' = "walk" /\ j' = 0 /\ sErr' = "none"
      /\ toReceiver' = Open /\ toSender' = Open
  BY DEF StartSource, LocalInv, CallerAt, Running, command
<1>2. job \in Jobs /\ Len(job.sources) \in Nat /\ k \in 1..Len(job.sources) + 1
      /\ (job.batch => Len(job.sources) = 1)
  BY JobAssumption DEF LocalInv, CallerAt
<1>3. TypeOK'
  BY <1>1 DEF LocalInv, TypeOK, Open
<1>4. CallerAt' /\ CauseReported' /\ InStep'
  BY <1>1 DEF LocalInv, CallerAt, CauseReported, InStep
<1>5. SenderAt' /\ ReceiverAt' /\ Together' /\ Causes'
  BY <1>1 DEF SenderAt, ReceiverAt, Together, Causes, Open, SenderEnds, ReceiverEnds
<1>6. AppliedAt'
  <2>1. Files(job.sources[k]) \subseteq Nat \ {0}
    BY DEF Files
  <2>2. {x \in Files(job.sources[k]) : x < 0} = {}
    BY <2>1
  <2>3. Before(job, k, 0) = {}
    BY <2>2 DEF Before
  <2> QED
    BY <1>1, <2>3 DEF LocalInv, AppliedAt
<1>7. BatchAt'
  <2>1. PartsBefore(Src, 0)' = 0
    BY DEF PartsBefore
  <2>2. batchFile => job.batch
    BY DEF LocalInv, BatchAt
  <2>3. batchFile => k = 1
    <3> SUFFICES ASSUME batchFile
                 PROVE  k = 1
      OBVIOUS
    <3>1. Len(job.sources) = 1
      BY <1>2, <2>2
    <3>2. k \in 1..2 /\ k <= 1
      BY <1>1, <1>2, <3>1
    <3> QED
      BY <3>2
  <2> QED
    BY <1>1, <2>1, <2>3 DEF LocalInv, BatchAt, PartsBefore
<1> QED
  BY <1>3, <1>4, <1>5, <1>6, <1>7 DEF LocalInv

\* Every source is synced.
LEMMA SucceedInv ==
  ASSUME LocalInv, Succeed
  PROVE  LocalInv'
<1>1. /\ UNCHANGED <<job, k, i, rErr, sPc, j, sErr, toReceiver, toSender, applied, tapFailed>>
      /\ pc = "start" /\ k > Len(job.sources) /\ ~Running /\ ~Running' /\ result = "running"
      /\ batchFile' = FALSE /\ pc' = "end"
      /\ \/ result' \in {"ok", "output"} /\ batch' = batch
         \/ result' = "batch" /\ \E t \in BOOLEAN : batch' = [batch EXCEPT !.torn = t]
  BY DEF Succeed, LocalInv, CallerAt, Running, sender
<1>2. job \in Jobs /\ (job.batch => k # 1)
  <2>1. job \in Jobs /\ (job.batch => Len(job.sources) = 1)
    BY JobAssumption DEF LocalInv, CallerAt
  <2> QED
    BY <1>1, <2>1
<1>3. TypeOK'
  <2>1. batch \in [exists : BOOLEAN, parts : Nat, torn : BOOLEAN]
    BY DEF LocalInv, TypeOK
  <2>2. batch' \in [exists : BOOLEAN, parts : Nat, torn : BOOLEAN]
    BY <1>1, <2>1
  <2>3. batchFile' \in BOOLEAN /\ result' \in Cause \cup {"running", "ok", "batch", "output"}
    BY <1>1
  <2> QED
    BY <1>1, <2>2, <2>3 DEF LocalInv, TypeOK
<1>4. CallerAt' /\ CauseReported' /\ InStep' /\ AppliedAt'
  BY <1>1 DEF LocalInv, CallerAt, CauseReported, InStep, AppliedAt
<1>5. BatchAt'
  <2>1. /\ batchFile <=> job.batch
        /\ batchFile => batch.exists /\ Whole
        /\ batch.exists => job.batch
    BY <1>1, <1>2 DEF LocalInv, BatchAt
  <2>2. batch'.exists = batch.exists
    <3>1. batch \in [exists : BOOLEAN, parts : Nat, torn : BOOLEAN]
      BY DEF LocalInv, TypeOK
    <3> QED
      BY <1>1, <3>1
  <2>3. result' \in {"ok", "output"} /\ batch'.exists => Whole'
    BY <1>1, <2>1 DEF Whole, Parts
  <2> QED
    BY <1>1, <2>1, <2>2, <2>3 DEF BatchAt
<1> QED
  BY <1>1, <1>3, <1>4, <1>5 DEF LocalInv, SenderAt, ReceiverAt, Together, Causes

\* A source is synced when both goroutines have ended without an error.
LEMMA JoinInv ==
  ASSUME LocalInv, Join
  PROVE  LocalInv'
<1>1. /\ UNCHANGED <<job, i, rErr, j, sErr, toReceiver, toSender, applied, tapFailed>>
      /\ pc = "join" /\ sPc = "sent" /\ sPc' = "off"
  BY DEF Join
<1>2. Running /\ ~Running' /\ result = "running"
  BY <1>1 DEF Running, LocalInv, CallerAt
<1>3. /\ job \in Jobs /\ k \in 1..Len(job.sources) /\ Src \in Source
      /\ Entries = Src.entries /\ Len(Entries) \in Nat /\ Len(job.sources) \in Nat
      /\ Files(Src) \subseteq 1..Len(Entries) /\ Last = Len(Entries) + 1
      /\ (job.batch => Len(job.sources) = 1)
  BY <1>2, SourceFacts, JobAssumption DEF LocalInv, Last
<1>4. /\ batchFile <=> job.batch
      /\ batchFile => batch.exists
      /\ batch.exists => job.batch
      /\ batchFile /\ sErr = "none" => ~batch.torn /\ batch.parts = PartsBefore(Src, j) + 0
  BY <1>1, <1>2 DEF LocalInv, BatchAt
<1>5. CASE SyncError = "none"
  <2>1. /\ rErr = "none" /\ sErr = "none" /\ i = Last /\ j = Last
        /\ pc' = "start" /\ k' = k + 1 /\ UNCHANGED <<batch, batchFile, result>>
    BY <1>1, <1>2, <1>5
    DEF Join, SyncError, LocalInv, SenderAt, ReceiverAt, SenderEnds, ReceiverEnds
  <2>2. TypeOK'
    <3>1. k' \in 1..Len(job'.sources) + 1
      BY <1>1, <1>3, <2>1
    <3> QED
      BY <1>1, <2>1, <3>1 DEF LocalInv, TypeOK
  <2>3. CallerAt' /\ CauseReported' /\ InStep'
    BY <1>1, <1>2, <1>3, <2>1 DEF LocalInv, CallerAt, CauseReported, InStep
  <2>4. AppliedAt'
    <3>1. applied = Earlier(job, k) \cup Before(job, k, Last)
      BY <1>2, <2>1 DEF LocalInv, AppliedAt
    <3>2. {x \in Files(job.sources[k]) : x < Last} = Files(job.sources[k])
      BY <1>3 DEF Src
    <3>3. Before(job, k, Last) = FilesOf(job, k)
      BY <3>2 DEF Before, FilesOf
    <3>4. 1..(k + 1) - 1 = (1..k - 1) \cup {k}
      BY <1>3
    <3>5. Earlier(job, k + 1) = Earlier(job, k) \cup FilesOf(job, k)
      BY <3>4 DEF Earlier
    <3> QED
      BY <1>1, <1>2, <2>1, <3>1, <3>3, <3>5 DEF AppliedAt
  <2>5. BatchAt'
    <3>1. ASSUME batchFile
          PROVE  Whole
      <4>1. k = 1
        <5>1. Len(job.sources) = 1
          BY <1>3, <1>4, <3>1
        <5>2. k \in 1..Len(job.sources)
          BY <1>3
        <5> QED
          BY <5>1, <5>2
      <4>2. PartsBefore(Src, Last) = 2 + 2 * Cardinality(Files(Src)) /\ Src = job.sources[1]
        BY <1>3, <4>1, PartsLast DEF Src
      <4>3. batch.parts = PartsBefore(Src, Last) + 0 /\ ~batch.torn
        BY <1>4, <2>1, <3>1
      <4>4. Cardinality(Files(Src)) \in Nat
        <5>1. IsFiniteSet(1..Len(Entries))
          BY <1>3, FS_Interval
        <5> QED
          BY <1>3, <5>1, FS_Subset, FS_CardinalityType
      <4> QED
        BY <4>2, <4>3, <4>4 DEF Whole, Parts
    <3>2. k' # 1
      BY <1>3, <2>1
    <3>3. batchFile => Whole'
      BY <1>1, <2>1, <3>1 DEF Whole, Parts
    <3> QED
      BY <1>1, <1>2, <1>4, <2>1, <3>2, <3>3 DEF LocalInv, BatchAt
  <2> QED
    BY <1>2, <2>2, <2>3, <2>4, <2>5 DEF LocalInv, SenderAt, ReceiverAt, Together, Causes
<1>6. CASE SyncError # "none"
  <2>1. /\ pc' = "end" /\ k' = k /\ result' = SyncError
        /\ batch' = FailBatch /\ batchFile' = FALSE
    BY <1>6 DEF Join
  <2>2. SyncError \in Cause
    BY <1>6 DEF SyncError, LocalInv, TypeOK
  <2>3. SyncError \in {"eof", "closed"} => tapFailed
    BY <1>2 DEF SyncError, LocalInv, Causes
  <2>4. batch' = IF batchFile THEN NoBatch ELSE batch
    BY <2>1 DEF FailBatch
  <2>5. ~batch'.exists
    BY <1>4, <2>4 DEF NoBatch
  <2>6. TypeOK'
    <3>1. NoBatch \in [exists : BOOLEAN, parts : Nat, torn : BOOLEAN]
      BY DEF NoBatch
    <3> QED
      BY <1>1, <2>1, <2>2, <2>4, <3>1 DEF LocalInv, TypeOK
  <2>7. CallerAt' /\ CauseReported' /\ InStep' /\ AppliedAt'
    BY <1>1, <1>2, <2>1, <2>2, <2>3
    DEF LocalInv, CallerAt, CauseReported, InStep, AppliedAt, Cause
  <2>8. BatchAt'
    BY <1>1, <1>2, <2>1, <2>2, <2>5 DEF BatchAt, Cause
  <2> QED
    BY <1>2, <2>6, <2>7, <2>8 DEF LocalInv, SenderAt, ReceiverAt, Together, Causes
<1> QED
  BY <1>5, <1>6

\* A step that changes nothing.
LEMMA StutterInv ==
  ASSUME LocalInv, UNCHANGED vars
  PROVE  LocalInv'
BY DEF vars, LocalInv, TypeOK, CallerAt, Running, SenderAt, ReceiverAt, Together, Passed, Causes,
       InStep, CauseReported, AppliedAt, BatchAt, Whole, Parts, Src, Last, Entries

-----------------------------------------------------------------------------
(* The theorems. *)

\* The inductive invariant holds of every behaviour.
THEOREM LocalInvariant == Spec => []LocalInv
<1>1. Init => LocalInv
  BY LocalInit
<1>2. LocalInv /\ [Next]_vars => LocalInv'
  BY LoadInv, TapInv, SenderEndInv, HeadInv, BodyInv, EntryInv, ReceiverCutInv,
     CallerCloseInv, CreateInv, StartInv, SucceedInv, JoinInv, StutterInv
  DEF Next, SenderStep, Handover, CallerStep
<1> QED
  BY <1>1, <1>2, PTL DEF Spec

\* Type correctness of the local sync.
THEOREM LocalTypeCorrect == Spec => []TypeOK
<1>1. LocalInv => TypeOK
  BY DEF LocalInv
<1> QED
  BY <1>1, LocalInvariant, PTL

\* Neither goroutine ever holds a frame for another file than the one it is at.
THEOREM InStepCorrect == Spec => []InStep
<1>1. LocalInv => InStep
  BY DEF LocalInv
<1> QED
  BY <1>1, LocalInvariant, PTL

\* A batch file on disk after the command is whole.
THEOREM BatchCorrect == Spec => []BatchWholeOrGone
<1>1. LocalInv => BatchWholeOrGone
  BY DEF LocalInv, BatchAt, BatchWholeOrGone
<1> QED
  BY <1>1, LocalInvariant, PTL

\* A failed command reports where the failure arose, not its echo in a pipe.
THEOREM CauseCorrect == Spec => []CauseReported
<1>1. LocalInv => CauseReported
  BY DEF LocalInv
<1> QED
  BY <1>1, LocalInvariant, PTL

-----------------------------------------------------------------------------
(* The refinement. *)

\* The abstract command's work.
LEMMA WorkFacts ==
  ASSUME CallerAt
  PROVE  /\ Len(Work) = Len(job.sources) /\ Len(job.sources) \in Nat
         /\ \A s \in 1..Len(job.sources) :
              /\ DOMAIN Work[s] = Files(job.sources[s])
              /\ \A n \in Files(job.sources[s]) : Work[s][n] = job.sources[s].entries[n].path
              /\ Command!Files(s) = FilesOf(job, s)
<1>1. job.sources \in Seq(Source) /\ Len(job.sources) \in Nat
  BY JobAssumption DEF CallerAt
<1>2. Work = [s \in 1..Len(job.sources) |->
                [n \in Files(job.sources[s]) |-> job.sources[s].entries[n].path]]
  BY DEF Work
<1>3. Len(Work) = Len(job.sources)
  BY <1>1, <1>2
<1>4. ASSUME NEW s \in 1..Len(job.sources)
      PROVE  /\ DOMAIN Work[s] = Files(job.sources[s])
             /\ \A n \in Files(job.sources[s]) : Work[s][n] = job.sources[s].entries[n].path
  BY <1>2
<1>5. ASSUME NEW s \in 1..Len(job.sources)
      PROVE  Command!Files(s) = FilesOf(job, s)
  BY <1>4 DEF Command!Files, FilesOf
<1> QED
  BY <1>1, <1>3, <1>4, <1>5

\* Applying a file is the abstract command's step.
LEMMA ApplyRefines ==
  ASSUME LocalInv, ApplyEntry, Work' = Work, result' = result, applied' # applied
  PROVE  Command!Apply
<1>1. pc = "apply" /\ applied' = applied \cup {<<k, Entries[i].path>>}
  BY DEF ApplyEntry
<1>2. /\ Running /\ rErr = "none" /\ i \in Nat /\ i \in Files(Src) /\ result = "running"
  BY <1>1 DEF LocalInv, CallerAt, ReceiverAt, ReceiverEnds
<1>3. applied = Earlier(job, k) \cup Before(job, k, i)
  BY <1>2 DEF LocalInv, AppliedAt
<1>4. /\ k \in 1..Len(job.sources) /\ k \in Nat /\ Len(job.sources) \in Nat
      /\ Src = job.sources[k] /\ Entries = Src.entries /\ Files(Src) \subseteq Nat
  BY <1>2, SourceFacts, WorkFacts DEF LocalInv, Src
<1>5. /\ Len(Work) = Len(job.sources) /\ DOMAIN Work[k] = Files(Src)
      /\ \A n \in Files(Src) : Work[k][n] = Entries[n].path
  BY <1>4, WorkFacts DEF LocalInv
<1>6. UNION {Command!Files(t) : t \in 1..k - 1} \subseteq applied
  <2>1. \A t \in 1..k - 1 : Command!Files(t) = FilesOf(job, t)
    <3>1. \A t \in 1..k - 1 : t \in 1..Len(job.sources)
      BY <1>4
    <3> QED
      BY <3>1, WorkFacts DEF LocalInv
  <2> QED
    BY <1>3, <2>1 DEF Earlier
<1>7. \A m \in DOMAIN Work[k] : m < i => <<k, Work[k][m]>> \in applied
  <2> SUFFICES ASSUME NEW m \in DOMAIN Work[k], m < i
               PROVE  <<k, Work[k][m]>> \in applied
    OBVIOUS
  <2>1. <<k, Work[k][m]>> \in Before(job, k, i)
    BY <1>4, <1>5 DEF Before
  <2> QED
    BY <1>3, <2>1
<1>8. k \in 1..Len(Work) /\ i \in DOMAIN Work[k] /\ applied' = applied \cup {<<k, Work[k][i]>>}
  BY <1>1, <1>2, <1>4, <1>5
<1> QED
  BY <1>2, <1>6, <1>7, <1>8 DEF Command!Apply

\* Every step is a step of the abstract command, or changes nothing of it.
LEMMA StepRefines ==
  ASSUME LocalInv, [Next]_vars
  PROVE  [Command!Next]_(Command!vars)
<1>1. UNCHANGED job
  BY DEF Next, SenderStep, Handover, CallerStep, vars, command, Walk, Load, LoadFifo, Loaded,
         FrameTooLarge, Tap, SenderCut, SenderCloseWrite, SenderCloseRead, SendHead, SendBody,
         SignatureHead, SignatureBody, CreateBatch, StartSource, Succeed, LocalEntry, Sign,
         ApplyEntry, FinalPasses, ReceiverCut, CallerCloseWrite, CallerCloseRead, Join
<1>2. Work' = Work
  BY <1>1 DEF Work
<1>3. CASE ApplyEntry
  <2>1. result' = result
    BY <1>3 DEF ApplyEntry, command
  <2>2. CASE applied' = applied
    BY <1>2, <2>1, <2>2 DEF Command!vars
  <2> QED
    BY <1>2, <1>3, <2>1, <2>2, ApplyRefines DEF Command!Next
<1>4. CASE Succeed
  <2>1. /\ applied' = applied /\ result = "running" /\ result' \in {"ok", "batch", "output"}
        /\ k > Len(job.sources) /\ pc = "start"
    BY <1>4 DEF Succeed, LocalInv, CallerAt
  <2>2. Command!All \subseteq applied
    <3>1. applied = Earlier(job, k) /\ k \in 1..Len(job.sources) + 1 /\ CallerAt
      BY <2>1 DEF LocalInv, AppliedAt, CallerAt
    <3>2. /\ Len(Work) = Len(job.sources) /\ Len(job.sources) \in Nat
          /\ \A t \in 1..Len(Work) : Command!Files(t) = FilesOf(job, t)
      BY <3>1, WorkFacts
    <3>3. 1..Len(Work) = 1..k - 1
      BY <2>1, <3>1, <3>2
    <3> QED
      BY <3>1, <3>2, <3>3 DEF Command!All, Earlier
  <2> QED
    BY <1>2, <2>1, <2>2 DEF Command!Next, Command!Succeed, Command!Fail
<1>5. CASE ~ApplyEntry /\ ~Succeed
  <2>1. UNCHANGED applied
    BY <1>5
    DEF Next, SenderStep, Handover, CallerStep, vars, Walk, Load, LoadFifo, Loaded,
        FrameTooLarge, Tap, SenderCut, SenderCloseWrite, SenderCloseRead, SendHead, SendBody,
        SignatureHead, SignatureBody, CreateBatch, StartSource, LocalEntry, Sign,
        FinalPasses, ReceiverCut, CallerCloseWrite, CallerCloseRead, Join
  <2>2. result' = result \/ (result = "running" /\ result' \in Cause \cup {"batch"})
    <3>1. CASE CreateBatch
      BY <3>1 DEF CreateBatch, LocalInv, CallerAt
    <3>2. CASE Join
      BY <3>2 DEF Join, SyncError, LocalInv, CallerAt, TypeOK
    <3>3. CASE ~CreateBatch /\ ~Join
      BY <1>5, <3>3
      DEF Next, SenderStep, Handover, CallerStep, vars, command, Walk, Load, LoadFifo, Loaded,
          FrameTooLarge, Tap, SenderCut, SenderCloseWrite, SenderCloseRead, SendHead, SendBody,
          SignatureHead, SignatureBody, StartSource, LocalEntry, Sign,
          FinalPasses, ReceiverCut, CallerCloseWrite, CallerCloseRead
    <3> QED
      BY <3>1, <3>2, <3>3
  <2>3. CASE result' = result
    BY <1>2, <2>1, <2>3 DEF Command!vars
  <2>4. CASE result = "running" /\ result' \in Cause \cup {"batch"}
    BY <1>2, <2>1, <2>4 DEF Command!Next, Command!Fail, Cause
  <2> QED
    BY <2>2, <2>3, <2>4
<1> QED
  BY <1>3, <1>4, <1>5

\* A local sync implements a sync command, for every job: "ok" only when every
\* file of every source has been applied, in order, and nothing once a result is out.
THEOREM LocalImplements == Spec => ImplementsCommand
<1>1. Init => Command!Init
  BY DEF Init, Command!Init
<1>2. LocalInv /\ [Next]_vars => [Command!Next]_(Command!vars)
  BY StepRefines
<1> QED
  BY <1>1, <1>2, LocalInvariant, PTL DEF Spec, ImplementsCommand, Command!Spec
=============================================================================
