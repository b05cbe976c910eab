---------------------------- MODULE ProgressProofs ----------------------------
(* The progress reporter, proved for any capacity and any transfers: updates    *)
(* the channel took are on their way, in order, until all of them are printed.  *)
EXTENDS Progress, SequenceTheorems, TLAPS

\* The update the reporter has taken from the channel and not printed.
InHand == IF rpc = "print" THEN <<line>> ELSE <<>>

\* Nothing is lost or overtaken between the channel and the output; the
\* reporter ends only after the channel is closed and empty, Receiver after it.
ProgressInv ==
  /\ TypeOK
  /\ closed <=> pc \in {"wait", "returned"}
  /\ rpc = "done" => closed /\ updates = <<>>
  /\ pc = "returned" => rpc = "done"
  /\ accepted = output \o (InHand \o updates)

-----------------------------------------------------------------------------
(* Sequences. *)

\* A line at the end joins the rest.
LEMMA AppendBehind ==
  ASSUME NEW S, NEW a \in Seq(S), NEW b \in Seq(S), NEW c \in Seq(S), NEW x \in S
  PROVE  /\ Append(a \o (b \o c), x) = a \o (b \o Append(c, x))
         /\ Append(c, x) \in Seq(S) /\ Append(a \o (b \o c), x) \in Seq(S)
<1>1. \A s \in Seq(S) : Append(s, x) = s \o <<x>> /\ Append(s, x) \in Seq(S)
  OBVIOUS
<1>2. <<x>> \in Seq(S) /\ b \o c \in Seq(S) /\ a \o (b \o c) \in Seq(S)
  BY ConcatProperties
<1>3. (a \o (b \o c)) \o <<x>> = a \o ((b \o c) \o <<x>>)
  BY <1>2, ConcatAssociative
<1>4. (b \o c) \o <<x>> = b \o (c \o <<x>>)
  BY <1>2, ConcatAssociative
<1>5. Append(a \o (b \o c), x) = (a \o (b \o c)) \o <<x>>
  BY <1>1, <1>2, Zenon
<1>6. Append(c, x) = c \o <<x>>
  BY <1>1
<1> QED
  BY <1>1, <1>2, <1>3, <1>4, <1>5, <1>6, Zenon

\* A line moves from the front of the channel to the reporter's hand.
LEMMA TakeHead ==
  ASSUME NEW S, NEW c \in Seq(S), c # <<>>
  PROVE  /\ Head(c) \in S /\ Tail(c) \in Seq(S) /\ Len(Tail(c)) = Len(c) - 1
         /\ <<Head(c)>> \o Tail(c) = <<>> \o c
  OBVIOUS

\* A line moves from the reporter's hand to the end of the output.
LEMMA PutLine ==
  ASSUME NEW S, NEW a \in Seq(S), NEW c \in Seq(S), NEW x \in S
  PROVE  /\ Append(a, x) \in Seq(S)
         /\ a \o (<<x>> \o c) = Append(a, x) \o (<<>> \o c)
  OBVIOUS

-----------------------------------------------------------------------------
(* The steps. *)

\* The initial state.
LEMMA ProgressInit == Init => ProgressInv
<1> SUFFICES ASSUME Init
             PROVE  ProgressInv
  OBVIOUS
<1>1. Len(Transfers) \in Nat
  BY TransfersAssumption
<1>2. <<>> \in Seq(Update) /\ Len(<<>>) = 0
  OBVIOUS
<1>3. TypeOK
  <2>1. /\ 0 <= Capacity /\ 1 \in 1..Len(Transfers) + 1 /\ 1 \in Nat \ {0}
        /\ FALSE \in BOOLEAN
    BY <1>1, CapacityAssumption
  <2> QED
    BY <1>2, <2>1, Zenon DEF TypeOK, Init
<1>4. <<>> = <<>> \o (<<>> \o <<>>)
  OBVIOUS
<1>5. InHand = <<>>
  BY DEF InHand, Init
<1> QED
  BY <1>3, <1>4, <1>5 DEF ProgressInv, Init

\* A chunk's update is taken by the channel, behind those it holds, or dropped.
LEMMA WriteChunkStep == ProgressInv /\ WriteChunk => ProgressInv'
<1> SUFFICES ASSUME ProgressInv, WriteChunk
             PROVE  ProgressInv'
  OBVIOUS
<1> DEFINE u == <<xfer, chunk>>
<1>1. /\ Len(Transfers) \in Nat /\ xfer \in 1..Len(Transfers) /\ chunk \in Nat \ {0}
      /\ Transfers[xfer] \in Nat
  BY TransfersAssumption DEF ProgressInv, TypeOK, WriteChunk
<1>2. u \in Update
  BY <1>1 DEF Update
<1>3. /\ updates \in Seq(Update) /\ output \in Seq(Update) /\ accepted \in Seq(Update)
      /\ Len(updates) <= Capacity /\ InHand \in Seq(Update)
      /\ accepted = output \o (InHand \o updates)
  BY DEF ProgressInv, TypeOK, InHand
<1>4. UNCHANGED <<pc, error, closed, rpc, line, output>>
  BY DEF WriteChunk, reporter
<1>5. InHand' = InHand
  BY <1>4 DEF InHand
<1>6. \/ /\ Len(updates) < Capacity
         /\ updates' = Append(updates, u) /\ accepted' = Append(accepted, u)
      \/ updates' = updates /\ accepted' = accepted
  BY DEF WriteChunk, report
<1>7. /\ updates' \in Seq(Update) /\ Len(updates') <= Capacity /\ accepted' \in Seq(Update)
      /\ accepted' = output \o (InHand \o updates')
  <2> HIDE DEF u
  <2>1. CASE updates' = updates /\ accepted' = accepted
    BY <2>1, <1>3
  <2>2. CASE /\ Len(updates) < Capacity
             /\ updates' = Append(updates, u) /\ accepted' = Append(accepted, u)
    <3>1. Len(Append(updates, u)) <= Capacity
      <4>1. Len(Append(updates, u)) = Len(updates) + 1 /\ Len(updates) \in Nat
        BY <1>3
      <4> QED
        BY <2>2, <4>1, CapacityAssumption
    <3> QED
      <4>1. /\ Append(output \o (InHand \o updates), u) = output \o (InHand \o Append(updates, u))
            /\ Append(updates, u) \in Seq(Update)
            /\ Append(output \o (InHand \o updates), u) \in Seq(Update)
        BY <1>2, <1>3, AppendBehind
      <4> QED
        BY <3>1, <4>1, <2>2, <1>3, Zenon
  <2> QED
    BY <1>6, <2>1, <2>2
<1>8. xfer' \in 1..Len(Transfers) + 1 /\ chunk' \in Nat \ {0}
  BY <1>1 DEF WriteChunk
<1>9. TypeOK'
  BY <1>3, <1>4, <1>7, <1>8 DEF ProgressInv, TypeOK
<1>10. pc = "write" /\ ~closed /\ rpc # "done"
  BY DEF ProgressInv, WriteChunk
<1> QED
  BY <1>4, <1>5, <1>7, <1>9, <1>10 DEF ProgressInv

\* The rest of Receiver touches neither the channel's lines nor the output.
LEMMA ReceiverSteps ==
  ProgressInv /\ (Fail \/ EndTransfers \/ PrintStats \/ CloseUpdates \/ Return) => ProgressInv'
<1> SUFFICES ASSUME ProgressInv, Fail \/ EndTransfers \/ PrintStats \/ CloseUpdates \/ Return
             PROVE  ProgressInv'
  OBVIOUS
<1>1. UNCHANGED <<xfer, chunk, updates, rpc, line, output, accepted>>
  BY DEF Fail, EndTransfers, PrintStats, CloseUpdates, Return, reporter
<1>2. InHand' = InHand
  BY <1>1 DEF InHand
<1>3. /\ pc' \in {"write", "stats", "stop", "wait", "returned"}
      /\ closed' \in BOOLEAN /\ error' \in BOOLEAN
      /\ closed' <=> pc' \in {"wait", "returned"}
      /\ closed => closed'
      /\ pc' = "returned" => rpc = "done"
  <2>1. /\ closed \in BOOLEAN /\ error \in BOOLEAN
        /\ closed <=> pc \in {"wait", "returned"}
    BY DEF ProgressInv, TypeOK
  <2>2. CASE Fail
    BY <2>1, <2>2 DEF Fail
  <2>3. CASE EndTransfers
    BY <2>1, <2>3 DEF EndTransfers
  <2>4. CASE PrintStats
    BY <2>1, <2>4 DEF PrintStats
  <2>5. CASE CloseUpdates
    BY <2>1, <2>5 DEF CloseUpdates
  <2>6. CASE Return
    BY <2>1, <2>6 DEF Return
  <2> QED
    BY <2>2, <2>3, <2>4, <2>5, <2>6
<1>4. TypeOK'
  BY <1>1, <1>3 DEF ProgressInv, TypeOK
<1> QED
  BY <1>1, <1>2, <1>3, <1>4 DEF ProgressInv

\* The reporter takes the oldest update, prints the one it has, or ends.
LEMMA ReporterSteps == ProgressInv /\ ReporterStep => ProgressInv'
<1> SUFFICES ASSUME ProgressInv, ReporterStep
             PROVE  ProgressInv'
  OBVIOUS
<1>1. /\ updates \in Seq(Update) /\ output \in Seq(Update) /\ accepted \in Seq(Update)
      /\ Len(updates) \in Nat /\ Len(updates) <= Capacity
      /\ accepted = output \o (InHand \o updates)
  BY DEF ProgressInv, TypeOK
<1>2. UNCHANGED <<pc, xfer, chunk, error, closed, accepted>>
  BY DEF ReporterStep, Receive, PrintLine, EndRange, receiver
<1>3. CASE Receive
  <2>1. /\ rpc = "receive" /\ updates # <<>> /\ rpc' = "print" /\ output' = output
        /\ line' = Head(updates) /\ updates' = Tail(updates)
    BY <1>3 DEF Receive
  <2>2. /\ line' \in Update /\ updates' \in Seq(Update) /\ Len(updates') = Len(updates) - 1
        /\ <<line'>> \o updates' = <<>> \o updates
    BY <1>1, <2>1, TakeHead
  <2>3. InHand = <<>> /\ InHand' = <<line'>>
    BY <2>1 DEF InHand
  <2>4. Len(updates') <= Capacity
    BY <1>1, <2>2, CapacityAssumption
  <2>5. TypeOK'
    BY <1>1, <1>2, <2>1, <2>2, <2>4 DEF ProgressInv, TypeOK
  <2> QED
    BY <1>1, <1>2, <2>1, <2>2, <2>3, <2>5 DEF ProgressInv
<1>4. CASE PrintLine
  <2>1. /\ rpc = "print" /\ rpc' = "receive" /\ line' = line /\ updates' = updates
        /\ output' = Append(output, line)
    BY <1>4 DEF PrintLine
  <2>2. line \in Update
    BY <2>1 DEF ProgressInv, TypeOK
  <2>3. /\ Append(output, line) \in Seq(Update)
        /\ output \o (<<line>> \o updates) = Append(output, line) \o (<<>> \o updates)
    BY <1>1, <2>2, PutLine
  <2>4. InHand = <<line>> /\ InHand' = <<>>
    BY <2>1 DEF InHand
  <2>5. TypeOK'
    BY <1>1, <1>2, <2>1, <2>3 DEF ProgressInv, TypeOK
  <2>6. accepted' = output' \o (InHand' \o updates')
    BY <1>1, <1>2, <2>1, <2>3, <2>4, Zenon
  <2>7. pc # "returned"
    BY <2>1 DEF ProgressInv
  <2> QED
    BY <1>2, <2>1, <2>5, <2>6, <2>7 DEF ProgressInv
<1>5. CASE EndRange
  <2>1. /\ rpc = "receive" /\ rpc' = "done" /\ UNCHANGED <<line, updates, output>>
        /\ closed /\ updates = <<>>
    BY <1>5 DEF EndRange, Drained
  <2>2. InHand' = InHand
    BY <2>1 DEF InHand
  <2>3. TypeOK'
    BY <1>2, <2>1 DEF ProgressInv, TypeOK
  <2> QED
    BY <1>2, <2>1, <2>2, <2>3 DEF ProgressInv
<1> QED
  BY <1>3, <1>4, <1>5 DEF ReporterStep

-----------------------------------------------------------------------------
(* The theorems. *)

\* Every reachable state has the invariant, whatever the channel's capacity and
\* however many chunks each file has.
THEOREM ProgressInvariant == Spec => []ProgressInv
<1>1. ProgressInv /\ [Next]_vars => ProgressInv'
  <2> SUFFICES ASSUME ProgressInv, [Next]_vars
               PROVE  ProgressInv'
    OBVIOUS
  <2>1. CASE UNCHANGED vars
    BY <2>1 DEF vars, ProgressInv, TypeOK, InHand
  <2>2. CASE Next
    BY <2>2, WriteChunkStep, ReceiverSteps, ReporterSteps DEF Next, ReceiverStep
  <2> QED
    BY <2>1, <2>2
<1> QED
  BY <1>1, ProgressInit, PTL DEF Spec

\* The channel never holds more than its capacity, and only updates of files
\* being transferred.
THEOREM ProgressTypeCorrect == Spec => []TypeOK
<1>1. ProgressInv => TypeOK
  BY DEF ProgressInv
<1> QED
  BY <1>1, ProgressInvariant, PTL

\* stop waits for the reporter, which prints what the channel took: once, in
\* order, and before Receiver returns.
THEOREM PrintedAtReturnCorrect == Spec => []PrintedAtReturn
<1>1. ProgressInv => PrintedAtReturn
  <2> SUFFICES ASSUME ProgressInv, pc = "returned"
               PROVE  output = accepted /\ rpc = "done"
    BY DEF PrintedAtReturn
  <2>1. rpc = "done" /\ updates = <<>> /\ InHand = <<>> /\ output \in Seq(Update)
    BY DEF ProgressInv, InHand, TypeOK
  <2>2. output \o (<<>> \o <<>>) = output
    BY <2>1
  <2> QED
    BY <2>1, <2>2 DEF ProgressInv
<1> QED
  BY <1>1, ProgressInvariant, PTL
=============================================================================
