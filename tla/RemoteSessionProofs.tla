-------------------------- MODULE RemoteSessionProofs --------------------------
(* A sync to a remote host implements a sync command, for all jobs and pipes:  *)
(* the proof that RemoteSession's steps are SyncCommand's, or stutter.          *)
EXTENDS RemoteSession, SequenceTheorems, TLAPS

\* What a job has to apply, and the files of its s-th source.
WorkOf(jb) == [n \in 1..Len(jb.sources) |->
                 IF jb.opts.dryRun THEN <<>>
                 ELSE [m \in 1..Len(jb.sources[n]) |-> jb.sources[n][m].path]]
FilesOf(jb, s) == {<<s, WorkOf(jb)[s][n]>> : n \in DOMAIN WorkOf(jb)[s]}

\* The files of the sources before the s-th, and those of the s-th before the m-th.
Before(jb, s, m) ==
  (UNION {FilesOf(jb, t) : t \in 1..s - 1})
  \cup {<<s, WorkOf(jb)[s][n]>> : n \in (1..m - 1) \cap DOMAIN WorkOf(jb)[s]}

Active == {"write", "tap", "read", "load", "close", "wait"}
ServerRuns == rpc \in {"read", "write", "sign", "apply"}

\* The file the server is at; the list and the handshake come before the first.
At == IF i < 1 THEN 1 ELSE i

Typed ==
  /\ job \in Jobs /\ k \in Nat \ {0} /\ i \in Nat \cup {-1}
  /\ pc \in Active \cup {"create", "dial", "end"}
  /\ rpc \in {"off", "read", "write", "sign", "apply", "exited"}
  /\ err \in Cause \cup {"none"} /\ result \in Cause \cup {"running", "ok", "output"}
  /\ result = "running" <=> pc # "end"

\* While a server runs, it has applied what comes before the file it is at.
ServerAt ==
  ServerRuns =>
    /\ k <= Len(job.sources) /\ ropts.dryRun = job.opts.dryRun
    /\ pc \in Active \cup {"end"} /\ result # "ok"
    /\ applied = Before(job, k, At)
    /\ rpc \in {"read", "write", "apply"} => i <= Len(Files)
    /\ rpc = "apply" => i >= 1

\* Between two sources everything before the next is applied; the exit status is
\* 0 only of a server that has applied all of its own.
Between ==
  /\ pc = "create" => k = 1 /\ rpc = "off"
  /\ pc \in {"create", "dial"} => ~ServerRuns /\ applied = Before(job, k, 1)
  /\ pc \in Active => k <= Len(job.sources)
  /\ pc \in Active /\ shell = "ok" => rpc = "exited" /\ applied = Before(job, k, Len(Files) + 1)

IInv == Typed /\ ServerAt /\ Between

\* The work of the abstract command, as an operator on a job.
LEMMA WorkIs ==
  /\ Work = WorkOf(job)
  /\ \A s : Command!Files(s) = FilesOf(job, s)
BY DEF Work, WorkOf, Command!Files, FilesOf

\* A source has as many paths to apply as files, or none in a dry run.
LEMMA JobTypes ==
  ASSUME NEW jb \in Jobs
  PROVE  /\ jb.sources \in Seq(Seq(File)) /\ Len(jb.sources) \in Nat
         /\ Len(WorkOf(jb)) = Len(jb.sources)
         /\ \A s \in 1..Len(jb.sources) :
              /\ jb.sources[s] \in Seq(File) /\ Len(jb.sources[s]) \in Nat
              /\ IF jb.opts.dryRun THEN DOMAIN WorkOf(jb)[s] = {}
                 ELSE /\ DOMAIN WorkOf(jb)[s] = 1..Len(jb.sources[s])
                      /\ \A n \in 1..Len(jb.sources[s]) :
                           WorkOf(jb)[s][n] = jb.sources[s][n].path
<1>1. jb.sources \in Seq(Seq(File)) /\ Len(jb.sources) \in Nat
  BY JobAssumption
<1>2. \A s \in 1..Len(jb.sources) :
        jb.sources[s] \in Seq(File) /\ Len(jb.sources[s]) \in Nat
  BY <1>1
<1>3. Len(WorkOf(jb)) = Len(jb.sources)
  BY <1>1 DEF WorkOf
<1>4. ASSUME NEW s \in 1..Len(jb.sources), jb.opts.dryRun
      PROVE  DOMAIN WorkOf(jb)[s] = {}
  <2>1. WorkOf(jb)[s] = <<>>
    BY <1>1, <1>4 DEF WorkOf
  <2> QED
    BY <2>1
<1>5. ASSUME NEW s \in 1..Len(jb.sources), ~jb.opts.dryRun
      PROVE  /\ DOMAIN WorkOf(jb)[s] = 1..Len(jb.sources[s])
             /\ \A n \in 1..Len(jb.sources[s]) : WorkOf(jb)[s][n] = jb.sources[s][n].path
  <2>1. WorkOf(jb)[s] = [m \in 1..Len(jb.sources[s]) |-> jb.sources[s][m].path]
    BY <1>1, <1>5 DEF WorkOf
  <2>2. Len(jb.sources[s]) \in Nat
    BY <1>2, <1>5
  <2> QED
    BY <2>1, <2>2
<1> QED
  BY <1>1, <1>2, <1>3, <1>4, <1>5

\* The first file is where a source starts.
LEMMA BeforeFirst ==
  ASSUME NEW jb \in Jobs, NEW s \in Nat
  PROVE  Before(jb, s, 1) = UNION {FilesOf(jb, t) : t \in 1..s - 1}
<1>1. (1..1 - 1) \cap DOMAIN WorkOf(jb)[s] = {}
  OBVIOUS
<1> QED
  BY <1>1 DEF Before

\* The file a source is at comes next.
LEMMA BeforeNext ==
  ASSUME NEW jb \in Jobs, NEW s \in 1..Len(jb.sources), NEW m \in 1..Len(jb.sources[s]),
         ~jb.opts.dryRun
  PROVE  /\ Before(jb, s, m + 1) = Before(jb, s, m) \cup {<<s, jb.sources[s][m].path>>}
         /\ m \in DOMAIN WorkOf(jb)[s] /\ WorkOf(jb)[s][m] = jb.sources[s][m].path
<1>1. /\ DOMAIN WorkOf(jb)[s] = 1..Len(jb.sources[s]) /\ m \in DOMAIN WorkOf(jb)[s]
      /\ WorkOf(jb)[s][m] = jb.sources[s][m].path
  BY JobTypes
<1>2. (1..m) \cap DOMAIN WorkOf(jb)[s]
        = ((1..m - 1) \cap DOMAIN WorkOf(jb)[s]) \cup {m}
  BY <1>1, JobTypes
<1>3. {<<s, WorkOf(jb)[s][n]>> : n \in (1..m) \cap DOMAIN WorkOf(jb)[s]}
        = {<<s, WorkOf(jb)[s][n]>> : n \in (1..m - 1) \cap DOMAIN WorkOf(jb)[s]}
          \cup {<<s, WorkOf(jb)[s][m]>>}
  BY <1>2
<1> QED
  BY <1>1, <1>3 DEF Before

\* A dry run has none.
LEMMA BeforeDry ==
  ASSUME NEW jb \in Jobs, NEW s \in 1..Len(jb.sources), NEW m \in Nat, NEW n \in Nat, jb.opts.dryRun
  PROVE  Before(jb, s, m) = Before(jb, s, n)
<1>1. DOMAIN WorkOf(jb)[s] = {}
  BY JobTypes
<1> QED
  BY <1>1 DEF Before

\* After its last file a source is complete.
LEMMA BeforeLast ==
  ASSUME NEW jb \in Jobs, NEW s \in 1..Len(jb.sources), NEW m \in Nat,
         m > Len(jb.sources[s])
  PROVE  Before(jb, s, m) = Before(jb, s + 1, 1)
<1>1. DOMAIN WorkOf(jb)[s] \subseteq 1..Len(jb.sources[s]) /\ Len(jb.sources[s]) \in Nat
  BY JobTypes
<1>2. (1..m - 1) \cap DOMAIN WorkOf(jb)[s] = DOMAIN WorkOf(jb)[s]
  BY <1>1
<1>3. s \in Nat /\ 1..(s + 1) - 1 = (1..s - 1) \cup {s}
  BY JobTypes
<1>4. Before(jb, s, m) = (UNION {FilesOf(jb, t) : t \in 1..s - 1}) \cup FilesOf(jb, s)
  BY <1>2 DEF Before, FilesOf
<1>5. Before(jb, s + 1, 1) = UNION {FilesOf(jb, t) : t \in (1..s - 1) \cup {s}}
  BY <1>3, BeforeFirst
<1> QED
  BY <1>4, <1>5

\* When every source is behind, every file is applied.
LEMMA BeforeAll ==
  ASSUME NEW jb \in Jobs, NEW s \in Nat, s > Len(jb.sources)
  PROVE  UNION {FilesOf(jb, t) : t \in 1..Len(WorkOf(jb))} \subseteq Before(jb, s, 1)
<1>1. 1..Len(WorkOf(jb)) \subseteq 1..s - 1
  BY JobTypes
<1> QED
  BY <1>1, BeforeFirst

-----------------------------------------------------------------------------
\* At first nothing is applied.
LEMMA InitInv == Init => IInv
<1> SUFFICES ASSUME Init PROVE IInv
  OBVIOUS
<1>1. Before(job, 1, 1) = {}
  <2>1. job \in Jobs /\ 1..1 - 1 = {}
    BY DEF Init
  <2> QED
    BY <2>1, BeforeFirst
<1> QED
  BY <1>1 DEF Init, IInv, Typed, ServerAt, Between, Active, ServerRuns

\* What the client does with its end of the pipes leaves the server alone.
LEMMA ClientInv ==
  ASSUME IInv, CreateBatch \/ Write \/ Tap \/ WriteCut \/ Read \/ ReadCut \/ Load
               \/ CloseStdin \/ ReadGarbage
  PROVE  IInv'
<1>1. UNCHANGED <<job, k, rpc, i, ropts, shell, applied>>
  BY DEF CreateBatch, Write, Tap, WriteCut, Read, ReadCut, Load, CloseStdin, ReadGarbage,
         server, pipes
<1>2. CASE CreateBatch
  BY <1>1, <1>2 DEF CreateBatch, IInv, Typed, ServerAt, Between, Active, ServerRuns, Cause, At, Files
<1>3. CASE ~CreateBatch
  <2>1. /\ pc \in Active /\ pc' \in Active /\ UNCHANGED result
        /\ err' = err \/ err' \in {"batch", "sender", "closed", "eof", "garbage"}
    BY <1>3 DEF Write, Tap, WriteCut, Read, ReadCut, Load, CloseStdin, ReadGarbage, Fails,
                AfterWrite, NextPosition, Active
  <2> QED
    BY <1>1, <2>1 DEF IInv, Typed, ServerAt, Between, Active, ServerRuns, Cause, At, Files
<1> QED
  BY <1>2, <1>3

\* A new session's server has its source's files before it.
LEMMA DialInv == ASSUME IInv, Dial PROVE IInv'
<1>1. Len(Files) \in Nat
  BY JobTypes DEF IInv, Typed, Dial, Files
<1> QED
  BY <1>1 DEF Dial, End, RemoteOptions, IInv, Typed, ServerAt, Between, Active, ServerRuns, Cause,
              At, Files

\* The command's end starts no server.
LEMMA SucceedInv == ASSUME IInv, Succeed PROVE IInv'
BY DEF Succeed, server, pipes, IInv, Typed, ServerAt, Between, Active, ServerRuns, Cause, At, Files

\* Only a server that has applied all its files lets the client go on.
LEMMA WaitInv == ASSUME IInv, Wait PROVE IInv'
<1>1. CASE SessionError = "none"
  <2>1. shell = "ok" /\ pc' = "dial" /\ k' = k + 1 /\ UNCHANGED <<job, result, err, server>>
    BY <1>1 DEF Wait, SessionError
  <2>2. rpc = "exited" /\ applied = Before(job, k, Len(Files) + 1) /\ k \in 1..Len(job.sources)
    <3>1. pc \in Active
      BY DEF Wait, Active
    <3>2. job \in Jobs /\ k \in Nat \ {0} /\ k <= Len(job.sources)
      BY <3>1 DEF IInv, Typed, Between
    <3>3. Len(job.sources) \in Nat
      BY <3>2, JobTypes
    <3> QED
      BY <2>1, <3>1, <3>2, <3>3 DEF IInv, Between
  <2>3. Len(Files) + 1 \in Nat /\ Len(Files) + 1 > Len(job.sources[k])
    BY <2>2, JobTypes DEF IInv, Typed, Files
  <2>4. applied = Before(job, k + 1, 1)
    BY <2>2, <2>3, BeforeLast DEF IInv, Typed
  <2>5. applied' = Before(job', k', 1) /\ k' \in Nat \ {0} /\ rpc' = "exited"
    BY <2>1, <2>2, <2>4 DEF server, IInv, Typed
  <2>6. Typed'
    BY <2>1, <2>5 DEF server, IInv, Typed, Wait
  <2> QED
    BY <2>1, <2>5, <2>6 DEF IInv, ServerAt, Between, Active, ServerRuns
<1>2. CASE SessionError # "none"
  BY <1>2 DEF Wait, End, SessionError, server, pipes, IInv, Typed, ServerAt, Between, Active, ServerRuns,
              Cause, At, Files
<1> QED
  BY <1>1, <1>2

\* What the server does but for applying a file.
LEMMA ServerInv ==
  ASSUME IInv, Receive \/ InputEnds \/ Sign \/ Send \/ OutputCut \/ ServerFails \/ Sever
  PROVE  IInv'
<1>1. UNCHANGED <<job, k, pc, err, result, ropts, applied>>
  BY DEF Receive, InputEnds, Sign, Send, OutputCut, ServerFails, Sever, client, server
<1>2. job \in Jobs /\ (k <= Len(job.sources) => Len(Files) \in Nat)
  BY JobTypes DEF IInv, Typed, Files
<1>3. CASE Receive
  BY <1>1, <1>2, <1>3 DEF Receive, IInv, Typed, ServerAt, Between, Active, ServerRuns, At, Files
<1>4. CASE InputEnds \/ OutputCut \/ ServerFails
  BY <1>1, <1>4 DEF InputEnds, OutputCut, ServerFails, Exit, IInv, Typed, ServerAt, Between, Active,
                    ServerRuns, At, Files
<1>5. CASE Sign
  <2>1. CASE rpc' = "write"
    BY <1>1, <1>5, <2>1 DEF Sign, Exit, pipes, IInv, Typed, ServerAt, Between, Active, ServerRuns, At, Files
  <2>2. CASE rpc' = "exited"
    <3>1. i > Len(Files) /\ k <= Len(job.sources) /\ k \in 1..Len(job.sources) /\ i \in Nat /\ At = i
      <4>1. k \in Nat \ {0} /\ k <= Len(job.sources) /\ i \in Nat \cup {-1} /\ i > Len(Files)
        BY <1>5, <2>2 DEF Sign, IInv, Typed, ServerAt, ServerRuns
      <4>2. Len(job.sources) \in Nat /\ Len(Files) \in Nat
        BY <1>2, <4>1, JobTypes
      <4> QED
        BY <4>1, <4>2 DEF At
    <3>2. Before(job, k, i) = Before(job, k, Len(Files) + 1)
      <4>1. /\ Len(Files) = Len(job.sources[k]) /\ Len(Files) + 1 \in Nat
            /\ Len(Files) + 1 > Len(Files)
        BY <1>2, <3>1 DEF Files
      <4>2. Before(job, k, i) = Before(job, k + 1, 1)
        BY <1>2, <3>1, <4>1, BeforeLast
      <4>3. Before(job, k, Len(Files) + 1) = Before(job, k + 1, 1)
        BY <1>2, <3>1, <4>1, BeforeLast
      <4> QED
        BY <4>2, <4>3
    <3> QED
      BY <1>1, <1>5, <2>2, <3>1, <3>2 DEF Sign, Exit, IInv, Typed, ServerAt, Between, Active, ServerRuns, Files
  <2> QED
    BY <1>5, <2>1, <2>2 DEF Sign, Exit
<1>6. CASE Send
  BY <1>1, <1>2, <1>6 DEF Send, IInv, Typed, ServerAt, Between, Active, ServerRuns, At, Files
<1>7. CASE Sever
  BY <1>1, <1>7 DEF Sever, server, IInv, Typed, ServerAt, Between, Active, ServerRuns, At, Files
<1> QED
  BY <1>3, <1>4, <1>5, <1>6, <1>7

\* A delta that is applied is the next file's; a dry run has none.
LEMMA ApplyFacts ==
  ASSUME IInv, ApplyDelta
  PROVE  /\ k \in 1..Len(job.sources) /\ i \in 1..Len(Files)
         /\ applied = Before(job, k, i) /\ applied' = Before(job, k, i + 1)
         /\ IF job.opts.dryRun THEN applied' = applied
            ELSE /\ i \in DOMAIN WorkOf(job)[k]
                 /\ applied' = applied \cup {<<k, WorkOf(job)[k][i]>>}
<1>1. /\ job \in Jobs /\ k \in 1..Len(job.sources) /\ i \in 1..Len(Files)
      /\ applied = Before(job, k, i) /\ ropts.dryRun = job.opts.dryRun
  <2>1. job \in Jobs /\ k \in Nat \ {0} /\ k <= Len(job.sources) /\ rpc = "apply"
    BY DEF ApplyDelta, IInv, Typed, ServerAt, ServerRuns
  <2>2. Len(job.sources) \in Nat /\ k \in 1..Len(job.sources) /\ Len(Files) \in Nat
    BY <2>1, JobTypes DEF Files
  <2> QED
    BY <2>1, <2>2 DEF IInv, Typed, ServerAt, ServerRuns, At
<1>2. CASE job.opts.dryRun
  BY <1>1, <1>2, BeforeDry DEF ApplyDelta
<1>3. CASE ~job.opts.dryRun
  BY <1>1, <1>3, BeforeNext DEF ApplyDelta, Files
<1> QED
  BY <1>1, <1>2, <1>3

\* Applying the file it is at takes the server to the next.
LEMMA ApplyInv == ASSUME IInv, ApplyDelta PROVE IInv'
<1>1. /\ k \in 1..Len(job.sources) /\ i \in 1..Len(Files) /\ i' = i + 1 /\ rpc' = "sign"
      /\ applied' = Before(job, k, i + 1)
      /\ UNCHANGED <<job, client, ropts, shell>>
  BY ApplyFacts DEF ApplyDelta, pipes
<1> QED
  BY <1>1 DEF ApplyDelta, client, IInv, Typed, ServerAt, Between, Active, ServerRuns, At

\* A step that changes nothing.
LEMMA StutterInv == ASSUME IInv, UNCHANGED vars PROVE IInv'
BY DEF vars, IInv, Typed, ServerAt, Between, Active, ServerRuns, At, Files

\* At every step of a sync the server has applied a prefix of the work, and all
\* of a source's files once the client has seen its exit status.
THEOREM SessionInvariant == Spec => []IInv
<1>1. IInv /\ [Next]_vars => IInv'
  BY ClientInv, DialInv, SucceedInv, WaitInv, ServerInv, ApplyInv, StutterInv
     DEF Next, ClientStep, ServerStep
<1> QED
  BY <1>1, InitInv, PTL DEF Spec

-----------------------------------------------------------------------------
\* Every step is a step of the abstract command, or changes nothing of it.
LEMMA StepRefines ==
  ASSUME IInv, [Next]_vars
  PROVE  [Command!Next]_(Command!vars)
<1>1. UNCHANGED job
  BY DEF Next, ClientStep, ServerStep, vars, CreateBatch, Succeed, Dial, Write, Tap, WriteCut,
         Read, ReadCut, Load, CloseStdin, Wait, Receive, InputEnds, Sign, Send, OutputCut,
         ApplyDelta, ReadGarbage, ServerFails, Sever
<1>2. Work' = Work
  BY <1>1 DEF Work
<1>3. CASE ApplyDelta
  <2>1. UNCHANGED result /\ result # "ok"
    BY <1>3 DEF ApplyDelta, client, IInv, ServerAt, ServerRuns
  <2>2. CASE job.opts.dryRun
    BY <1>2, <1>3, <2>1, <2>2, ApplyFacts DEF Command!vars
  <2>3. CASE ~job.opts.dryRun
    <3>1. /\ k \in 1..Len(Work) /\ i \in DOMAIN Work[k]
          /\ applied' = applied \cup {<<k, Work[k][i]>>}
      BY <1>3, <2>3, ApplyFacts, JobTypes, WorkIs DEF IInv, Typed
    <3>2. /\ UNION {Command!Files(t) : t \in 1..k - 1} \subseteq applied
          /\ \A m \in DOMAIN Work[k] : m < i => <<k, Work[k][m]>> \in applied
      <4>1. applied = Before(job, k, i) /\ i \in 1..Len(Files) /\ k \in 1..Len(job.sources)
        BY <1>3, ApplyFacts
      <4>2. \A m \in DOMAIN Work[k] : m \in Nat \ {0}
        <5>1. job \in Jobs /\ Work[k] = WorkOf(job)[k]
          BY WorkIs, <1>3 DEF IInv, Typed
        <5>2. DOMAIN WorkOf(job)[k] = 1..Len(job.sources[k])
          BY <2>3, <4>1, <5>1, JobTypes
        <5> QED
          BY <5>1, <5>2
      <4>3. \A m \in DOMAIN Work[k] : m < i => m \in (1..i - 1) \cap DOMAIN WorkOf(job)[k]
        BY <4>1, <4>2, WorkIs
      <4> QED
        BY <4>1, <4>3, WorkIs DEF Before
    <3> QED
      BY <1>2, <2>1, <3>1, <3>2 DEF Command!Next, Command!Apply
  <2> QED
    BY <2>2, <2>3
<1>4. CASE Succeed
  <2>1. applied' = applied /\ result = "running" /\ result' \in {"ok", "batch", "output"}
    BY <1>4 DEF Succeed, server, IInv, Typed
  <2>2. Command!All \subseteq applied
    <3>1. k \in Nat /\ k > Len(job.sources) /\ job \in Jobs /\ applied = Before(job, k, 1)
      BY <1>4 DEF Succeed, IInv, Typed, Between
    <3> QED
      BY <3>1, BeforeAll, WorkIs DEF Command!All
  <2> QED
    BY <1>2, <2>1, <2>2 DEF Command!Next, Command!Succeed, Command!Fail
<1>5. CASE ~ApplyDelta /\ ~Succeed
  <2>1. UNCHANGED applied
    BY <1>5 DEF Next, ClientStep, ServerStep, vars, CreateBatch, Dial, Write, Tap, WriteCut,
         Read, ReadCut, Load, CloseStdin, Wait, Receive, InputEnds, Sign, Send, OutputCut,
         ReadGarbage, ServerFails, Sever, server
  <2>2. result' = result \/ (result = "running" /\ result' \in Cause)
    <3>1. CASE CreateBatch
      BY <3>1 DEF CreateBatch, IInv, Typed, Cause
    <3>2. CASE Dial
      BY <3>2 DEF Dial, End, IInv, Typed, Cause
    <3>3. CASE Wait
      BY <3>3 DEF Wait, End, SessionError, IInv, Typed, Cause
    <3>4. CASE ~CreateBatch /\ ~Dial /\ ~Wait
      BY <1>5, <3>4 DEF Next, ClientStep, ServerStep, vars, Write, Tap, WriteCut,
         Read, ReadCut, Load, CloseStdin, Receive, InputEnds, Sign, Send, OutputCut,
         ReadGarbage, ServerFails, Sever, client
    <3> QED
      BY <3>1, <3>2, <3>3, <3>4
  <2>3. CASE result' = result
    BY <1>2, <2>1, <2>3 DEF Command!vars
  <2>4. CASE result = "running" /\ result' \in Cause
    BY <1>2, <2>1, <2>4 DEF Command!Next, Command!Fail, Cause
  <2> QED
    BY <2>2, <2>3, <2>4
<1> QED
  BY <1>3, <1>4, <1>5

\* A sync over a remote shell implements a sync command, for every job and pipe
\* of any size: "ok" only when every file of every source has been applied on the
\* other side, in order, whatever fails, blocks or is cut off.
THEOREM RemoteImplements == Spec => ImplementsCommand
<1>1. Init => Command!Init
  BY DEF Init, Command!Init
<1>2. IInv /\ [Next]_vars => [Command!Next]_(Command!vars)
  BY StepRefines
<1> QED
  BY <1>1, <1>2, SessionInvariant, PTL DEF Spec, ImplementsCommand, Command!Spec

-----------------------------------------------------------------------------
(* The handshake. *)

\* While hello and its ack are under way: what the client wrote of hello is read
\* or on its way, and the server, were it to end, has not ended well.
HandshakeAt ==
  pc \in Active /\ j = -1 =>
    /\ pc \in {"write", "read", "close", "wait"} /\ (pc = "write" => w \in {0, 1})
    /\ shell \in {"running", "failed"}
    /\ shell = "running" =>
         /\ rpc \in {"read", "write"} /\ i \in {-1, 0}
         /\ i = 0 => rpc = "read" /\ rw = 0
         /\ (IF i = -1 /\ rpc = "read" THEN rw ELSE 2) + down = (IF pc = "write" THEN w ELSE 2)

HandshakeInv == TypeOK /\ HandshakeAt /\ HandshakeCause

\* What the client's steps of one session leave alone.
ClientIO == Write \/ Tap \/ WriteCut \/ Read \/ ReadCut \/ ReadGarbage \/ Load \/ CloseStdin
LEMMA ClientTyped ==
  ASSUME TypeOK, ClientIO
  PROVE  TypeOK'
<1>1. /\ UNCHANGED <<job, k, result, rpc, i, rw, ropts, applied, kept, shell, batchFile>>
  BY DEF ClientIO, Write, Tap, WriteCut, Read, ReadCut, ReadGarbage, Load, CloseStdin, server, pipes, files
<1>2. /\ job \in Jobs /\ k \in 1..Len(job.sources) + 1
      /\ pc \in {"create", "dial", "write", "tap", "read", "load", "close", "wait", "end"}
      /\ j \in Nat \cup {-1} /\ w \in Nat /\ err \in Cause \cup {"none"}
      /\ stdin \in {"open", "closed"} /\ down \in 0..Capacity /\ up \in 0..Capacity
      /\ batch \in [exists : BOOLEAN, torn : BOOLEAN]
  BY DEF TypeOK
<1>3. j + 1 \in Nat \cup {-1} /\ w + 1 \in Nat
  BY <1>2
<1>4. /\ pc' \in {"create", "dial", "write", "tap", "read", "load", "close", "wait", "end"}
      /\ j' \in Nat \cup {-1} /\ w' \in Nat /\ err' \in Cause \cup {"none"}
  BY <1>2, <1>3
     DEF ClientIO, Write, Tap, WriteCut, Read, ReadCut, ReadGarbage, Load, CloseStdin, Fails, AfterWrite,
         NextPosition, Cause
<1>5. stdin' \in {"open", "closed"}
  BY <1>2 DEF ClientIO, Write, Tap, WriteCut, Read, ReadCut, ReadGarbage, Load, CloseStdin, pipes
<1>6. down' \in 0..Capacity /\ up' \in 0..Capacity
  <2>1. CASE Write
    BY <1>2, <2>1, CapacityAssumption DEF Write
  <2>2. CASE Read
    BY <1>2, <2>2, CapacityAssumption DEF Read
  <2>3. CASE ~Write /\ ~Read
    BY <1>2, <2>3 DEF ClientIO, Tap, WriteCut, ReadCut, ReadGarbage, Load, CloseStdin, pipes
  <2> QED
    BY <2>1, <2>2, <2>3
<1>7. batch' \in [exists : BOOLEAN, torn : BOOLEAN]
  BY <1>2 DEF ClientIO, Write, Tap, WriteCut, Read, ReadCut, ReadGarbage, Load, CloseStdin, files
<1> QED
  BY <1>1, <1>4, <1>5, <1>6, <1>7 DEF TypeOK

LEMMA ClientHandshake ==
  ASSUME HandshakeInv, ClientIO
  PROVE  HandshakeAt' /\ HandshakeCause'
<1>1. TypeOK /\ HandshakeAt /\ HandshakeCause
  BY DEF HandshakeInv
<1>2. /\ UNCHANGED <<result, rpc, i, rw, shell>> /\ pc \in Active
      /\ j' = j \/ (j' = j + 1 /\ j \in Nat \cup {-1})
  BY <1>1 DEF ClientIO, Write, Tap, WriteCut, Read, ReadCut, ReadGarbage, Load, CloseStdin, server, pipes,
         Active, Fails, AfterWrite, NextPosition, TypeOK
<1>3. HandshakeCause'
  BY <1>1, <1>2 DEF HandshakeCause
<1>4. HandshakeAt'
  <2> SUFFICES ASSUME j' = -1
               PROVE  HandshakeAt'
    BY DEF HandshakeAt
  <2>1. j = -1
    BY <1>2
  <2>2. /\ pc \in {"write", "read", "close", "wait"} /\ (pc = "write" => w \in {0, 1})
        /\ shell \in {"running", "failed"} /\ down \in Int
        /\ shell = "running" =>
             /\ rpc \in {"read", "write"} /\ i \in {-1, 0}
             /\ i = 0 => rpc = "read" /\ rw = 0
             /\ (IF i = -1 /\ rpc = "read" THEN rw ELSE 2) + down = (IF pc = "write" THEN w ELSE 2)
    BY <1>1, <1>2, <2>1 DEF HandshakeAt, TypeOK
  <2>3. CASE Write
    <3>1. FromClient(-1) = 2 /\ rw \in Nat
      BY <1>1 DEF FromClient, TypeOK
    <3>2. /\ down' = down + 1 /\ pc = "write" /\ shell = "running"
          /\ \/ w + 1 = 2 /\ pc' = "read"
             \/ w + 1 # 2 /\ w' = w + 1 /\ pc' = "write"
      BY <2>1, <2>3, <3>1 DEF Write, AfterWrite, NextPosition
    <3> QED
      BY <1>2, <2>1, <2>2, <3>1, <3>2 DEF HandshakeAt
  <2>4. CASE ~Write
    <3>1. (down' = down /\ pc # "write") \/ shell = "failed"
      BY <2>1, <2>2, <2>4
         DEF ClientIO, Tap, WriteCut, Read, ReadCut, ReadGarbage, Load, CloseStdin, pipes
    <3>2. pc' \in {"read", "close", "wait"}
      BY <2>1, <2>2, <2>4
         DEF ClientIO, Tap, WriteCut, Read, ReadCut, ReadGarbage, Load, CloseStdin, Fails, NextPosition
    <3> QED
      BY <1>2, <2>2, <3>1, <3>2 DEF HandshakeAt
  <2> QED
    BY <2>3, <2>4
<1> QED
  BY <1>3, <1>4

\* What the command's steps leave of the batch file is a batch file.
BatchFiles == [exists : BOOLEAN, torn : BOOLEAN]

LEMMA Batches ==
  /\ NoBatch \in BatchFiles
  /\ [NoBatch EXCEPT !.exists = TRUE] \in BatchFiles
  /\ \A b \in BatchFiles, t \in BOOLEAN :
       [b EXCEPT !.torn = t] \in BatchFiles
  BY DEF NoBatch, BatchFiles

LEMMA EndedBatch ==
  ASSUME TypeOK, NEW cause, End(cause)
  PROVE  batch' \in BatchFiles /\ batchFile' \in BOOLEAN
<1>1. batch \in BatchFiles /\ batchFile' = FALSE
  BY DEF TypeOK, End, BatchFiles
<1>2. batch' = NoBatch \/ batch' = batch
  BY DEF End
<1> QED
  BY <1>1, <1>2, Batches

\* The command's own steps: its start, a session's, and their ends.
LEMMA CommandHandshake ==
  ASSUME IInv, HandshakeInv, CreateBatch \/ Dial \/ Succeed \/ Wait
  PROVE  HandshakeInv'
<1>1. /\ TypeOK /\ HandshakeAt /\ HandshakeCause /\ Typed /\ Between
  BY DEF HandshakeInv, IInv
<1>2. job' = job /\ UNCHANGED <<applied, kept>>
  BY DEF CreateBatch, Dial, Succeed, Wait, server
<1>3. CASE CreateBatch
  <2>1. batch \in BatchFiles /\ batchFile \in BOOLEAN
    BY <1>1 DEF TypeOK, BatchFiles
  <2>2. batch' \in BatchFiles /\ batchFile' \in BOOLEAN
    <3>1. \/ batch' = batch /\ batchFile' = batchFile
          \/ batch' = [NoBatch EXCEPT !.exists = TRUE] /\ batchFile' = TRUE
      BY <1>3 DEF CreateBatch, files
    <3> QED
      BY <2>1, <3>1, Batches
  <2>3. TypeOK'
    BY <1>1, <1>3, <2>2 DEF CreateBatch, server, pipes, TypeOK, BatchFiles, Cause
  <2>4. HandshakeAt' /\ HandshakeCause'
    BY <1>1, <1>3 DEF CreateBatch, HandshakeAt, HandshakeCause, Typed, Active
  <2> QED
    BY <2>3, <2>4 DEF HandshakeInv
<1>4. CASE Succeed
  <2>1. batch \in BatchFiles /\ batchFile' = FALSE
    BY <1>1, <1>4 DEF TypeOK, BatchFiles, Succeed
  <2>2. batch' \in BatchFiles
    <3>1. batch' = batch \/ \E t \in BOOLEAN : batch' = [batch EXCEPT !.torn = t]
      BY <1>4 DEF Succeed
    <3> QED
      BY <2>1, <3>1, Batches
  <2>3. TypeOK'
    <3>1. /\ pc' = "end" /\ result' \in {"ok", "batch", "output"}
          /\ UNCHANGED <<k, j, w, err, rpc, i, rw, ropts, shell, stdin, down, up>>
      BY <1>4 DEF Succeed, server, pipes
    <3>2. batch' \in [exists : BOOLEAN, torn : BOOLEAN] /\ batchFile' \in BOOLEAN
      BY <2>1, <2>2 DEF BatchFiles
    <3> QED
      BY <1>1, <1>2, <3>1, <3>2 DEF TypeOK, Cause
  <2>4. HandshakeAt' /\ HandshakeCause'
    BY <1>1, <1>4 DEF Succeed, HandshakeAt, HandshakeCause, Active
  <2> QED
    BY <2>3, <2>4 DEF HandshakeInv
<1>5. CASE Dial
  <2>1. RemoteOptions(job.opts) \in Options /\ 0 \in 0..Capacity
    <3>1. job.opts \in Options
      BY <1>1, JobAssumption DEF Typed
    <3> QED
      BY <3>1, CapacityAssumption DEF RemoteOptions, Options
  <2>2. batch' \in BatchFiles /\ batchFile' \in BOOLEAN
    <3>1. (batch' = batch /\ batchFile' = batchFile) \/ End("dial")
      BY <1>5 DEF Dial, files
    <3>2. batch \in BatchFiles /\ batchFile \in BOOLEAN
      BY <1>1 DEF TypeOK, BatchFiles
    <3> QED
      BY <1>1, <3>1, <3>2, EndedBatch
  <2>3. k \in 1..Len(job.sources) + 1 /\ k' = k
    BY <1>1, <1>5 DEF Dial, TypeOK
  <2>4. TypeOK'
    <3>1. CASE End("dial") /\ UNCHANGED <<j, w, err, rpc, i, rw, ropts, pipes>>
      BY <1>1, <1>2, <2>2, <2>3, <3>1 DEF End, pipes, TypeOK, BatchFiles, Cause
    <3>2. CASE ~(End("dial") /\ UNCHANGED <<j, w, err, rpc, i, rw, ropts, pipes>>)
      <4>1. /\ pc' = "write" /\ j' = -1 /\ w' = 0 /\ err' = "none"
            /\ rpc' = "read" /\ i' = -1 /\ rw' = 0 /\ ropts' = RemoteOptions(job.opts)
            /\ shell' = "running" /\ stdin' = "open" /\ down' = 0 /\ up' = 0 /\ result' = result
        BY <1>5, <3>2 DEF Dial
      <4> QED
        BY <1>1, <1>2, <2>1, <2>2, <2>3, <4>1 DEF TypeOK, BatchFiles, Cause
    <3> QED
      BY <3>1, <3>2
  <2>5. HandshakeAt'
    BY <1>5 DEF Dial, End, HandshakeAt, Active
  <2>6. HandshakeCause'
    BY <1>1, <1>5 DEF Dial, End, HandshakeCause, Typed
  <2> QED
    BY <2>4, <2>5, <2>6 DEF HandshakeInv
<1>6. CASE Wait
  <2>1. /\ pc = "wait" /\ shell \in {"ok", "failed"} /\ UNCHANGED <<j, w, err>> /\ UNCHANGED server
        /\ UNCHANGED pipes
        /\ IF SessionError = "none"
             THEN pc' = "dial" /\ k' = k + 1 /\ UNCHANGED <<files, result>>
           ELSE End(SessionError) /\ k' = k
    BY <1>6 DEF Wait
  <2>2. k \in 1..Len(job.sources) /\ Len(job.sources) \in Nat
    <3>1. k <= Len(job.sources)
      BY <1>1, <2>1 DEF Between, Active
    <3>2. k \in Nat \ {0} /\ Len(job.sources) \in Nat
      BY <1>1, JobTypes DEF Typed
    <3> QED
      BY <3>1, <3>2
  <2>3. /\ SessionError \in Cause \cup {"none"}
        /\ SessionError \in {"eof", "closed"} => j >= 0
    <3>1. j = -1 => shell = "failed"
      BY <1>1, <2>1 DEF HandshakeAt, Active
    <3>2. j >= 0 \/ j = -1
      BY <1>1 DEF TypeOK
    <3> QED
      BY <1>1, <3>1, <3>2 DEF SessionError, Typed, Cause
  <2>4. k' \in 1..Len(job.sources) + 1
    BY <2>1, <2>2
  <2>5. batch' \in BatchFiles /\ batchFile' \in BOOLEAN
    <3>1. (batch' = batch /\ batchFile' = batchFile) \/ End(SessionError)
      BY <2>1 DEF files
    <3>2. batch \in BatchFiles /\ batchFile \in BOOLEAN
      BY <1>1 DEF TypeOK, BatchFiles
    <3> QED
      BY <1>1, <3>1, <3>2, EndedBatch
  <2>6. TypeOK'
    BY <1>1, <1>2, <2>1, <2>3, <2>4, <2>5 DEF End, server, pipes, TypeOK, BatchFiles
  <2>7. HandshakeAt' /\ HandshakeCause'
    BY <1>1, <2>1, <2>3 DEF End, HandshakeAt, HandshakeCause, Active
  <2> QED
    BY <2>6, <2>7 DEF HandshakeInv
<1> QED
  BY <1>3, <1>4, <1>5, <1>6

\* The server, and the connection's loss.
LEMMA ServerHandshake ==
  ASSUME IInv, HandshakeInv, ServerStep \/ ServerFails \/ Sever
  PROVE  HandshakeInv'
<1>1. /\ TypeOK /\ HandshakeAt /\ HandshakeCause /\ Typed
  BY DEF HandshakeInv, IInv
<1>2. UNCHANGED <<job, k, pc, j, w, err, result, ropts, stdin, batch, batchFile>>
  BY DEF ServerStep, Receive, InputEnds, Sign, Send, OutputCut, ApplyDelta, ServerFails, Sever, Exit,
         client, server, pipes, files
<1>3. HandshakeCause'
  BY <1>1, <1>2 DEF HandshakeCause
<1>4. rpc' \in {"off", "read", "write", "sign", "apply", "exited"} /\ shell' \in {"none", "running", "ok", "failed"}
  BY <1>1 DEF ServerStep, Receive, InputEnds, Sign, Send, OutputCut, ApplyDelta, ServerFails, Sever, Exit,
         server, pipes, TypeOK
<1>5. i' \in Nat \cup {-1} /\ rw' \in Nat
  <2>1. i \in Nat \cup {-1} /\ rw \in Nat
    BY <1>1 DEF TypeOK
  <2>2. CASE ApplyDelta
    BY <2>1, <2>2, ApplyFacts DEF ApplyDelta
  <2>3. CASE ~ApplyDelta
    <3>1. rw' \in {rw, rw + 1, 0} /\ i' \in {i, 0, 1}
      BY <2>3 DEF ServerStep, Receive, InputEnds, Sign, Send, OutputCut, ServerFails, Sever, Exit, server
    <3> QED
      BY <2>1, <3>1
  <2> QED
    BY <2>2, <2>3
<1>6. down' \in 0..Capacity /\ up' \in 0..Capacity
  <2>1. down \in 0..Capacity /\ up \in 0..Capacity /\ Capacity \in Nat
    BY <1>1, CapacityAssumption DEF TypeOK
  <2>2. CASE Receive
    BY <2>1, <2>2 DEF Receive
  <2>3. CASE Send
    BY <2>1, <2>3 DEF Send
  <2>4. CASE Sever
    BY <2>1, <2>4 DEF Sever
  <2>5. CASE ~Receive /\ ~Send /\ ~Sever
    BY <2>1, <2>5 DEF ServerStep, InputEnds, Sign, OutputCut, ApplyDelta, ServerFails, Exit, pipes
  <2> QED
    BY <2>2, <2>3, <2>4, <2>5
<1>7. applied' \subseteq Nat \X Path /\ kept' \subseteq Attr
  <2>1. applied \subseteq Nat \X Path /\ kept \subseteq Attr
    BY <1>1 DEF TypeOK
  <2>2. CASE ApplyDelta
    <3>1. k \in Nat /\ job.sources[k] \in Seq(File) /\ i \in 1..Len(Files)
      BY <1>1, <2>2, ApplyFacts, JobTypes DEF Typed
    <3>2. Files[i] \in File
      BY <3>1 DEF Files
    <3>3. <<k, Files[i].path>> \in Nat \X Path
      BY <3>1, <3>2 DEF File
    <3> QED
      BY <2>1, <2>2, <3>3 DEF ApplyDelta
  <2>3. CASE ~ApplyDelta
    BY <2>1, <2>3 DEF ServerStep, Receive, InputEnds, Sign, Send, OutputCut, ServerFails, Sever, server
  <2> QED
    BY <2>2, <2>3
<1>8. TypeOK'
  BY <1>1, <1>2, <1>4, <1>5, <1>6, <1>7 DEF TypeOK
<1>9. HandshakeAt'
  <2> SUFFICES ASSUME pc \in Active, j = -1
               PROVE  HandshakeAt'
    BY <1>2 DEF HandshakeAt
  <2>1. /\ pc \in {"write", "read", "close", "wait"} /\ (pc = "write" => w \in {0, 1})
        /\ shell \in {"running", "failed"} /\ down \in Nat /\ rw \in Nat
        /\ shell = "running" =>
             /\ rpc \in {"read", "write"} /\ i \in {-1, 0}
             /\ i = 0 => rpc = "read" /\ rw = 0
             /\ (IF i = -1 /\ rpc = "read" THEN rw ELSE 2) + down = (IF pc = "write" THEN w ELSE 2)
    BY <1>1, <1>2, CapacityAssumption DEF HandshakeAt, TypeOK
  <2>2. CASE shell = "failed"
    <3>1. shell' = "failed"
      BY <2>2 DEF ServerStep, Receive, InputEnds, Sign, Send, OutputCut, ApplyDelta, ServerFails, Sever,
                  Exit, pipes
    <3> QED
      BY <1>2, <2>1, <3>1 DEF HandshakeAt
  <2>3. CASE shell = "running"
    <3>1. CASE Receive
      <4>1. FromClient(-1) = 2
        BY DEF FromClient
      <4>2. i = -1 /\ rpc = "read" /\ down > 0 /\ down' = down - 1 /\ shell' = shell
        BY <2>1, <2>3, <3>1 DEF Receive
      <4>3. \/ rw + 1 < 2 /\ rw' = rw + 1 /\ rpc' = "read" /\ i' = -1
            \/ ~(rw + 1 < 2) /\ rw' = 0 /\ rpc' = "write" /\ i' = -1
        BY <3>1, <4>1, <4>2 DEF Receive
      <4> QED
        BY <1>2, <2>1, <2>3, <4>2, <4>3 DEF HandshakeAt
    <3>2. CASE Send
      <4>1. rpc = "write" /\ i = -1 /\ down' = down /\ shell' = shell
        BY <2>1, <2>3, <3>2 DEF Send
      <4>2. \/ rpc' = "write" /\ i' = -1
            \/ rpc' = "read" /\ i' = 0 /\ rw' = 0
        BY <3>2, <4>1 DEF Send
      <4> QED
        BY <1>2, <2>1, <2>3, <4>1, <4>2 DEF HandshakeAt
    <3>3. CASE ~Receive /\ ~Send
      <4>1. shell' = "failed"
        BY <2>1, <2>3, <3>3
           DEF ServerStep, InputEnds, Sign, OutputCut, ApplyDelta, ServerFails, Sever, Exit
      <4> QED
        BY <1>2, <2>1, <4>1 DEF HandshakeAt
    <3> QED
      BY <3>1, <3>2, <3>3
  <2> QED
    BY <2>1, <2>2, <2>3
<1> QED
  BY <1>3, <1>8, <1>9 DEF HandshakeInv

LEMMA HandshakeInit == Init => HandshakeInv
<1> SUFFICES ASSUME Init
             PROVE  HandshakeInv
  OBVIOUS
<1>1. job \in Jobs /\ Len(job.sources) \in Nat /\ 0 \in 0..Capacity
  BY JobTypes, CapacityAssumption DEF Init
<1>2. 1 \in 1..Len(job.sources) + 1
  BY <1>1
<1>3. TypeOK
  BY <1>1, <1>2 DEF Init, TypeOK, Options, NoBatch, Cause
<1>4. HandshakeAt /\ HandshakeCause
  BY DEF Init, HandshakeAt, HandshakeCause, Active
<1> QED
  BY <1>3, <1>4 DEF HandshakeInv

LEMMA HandshakeStutter == ASSUME HandshakeInv, UNCHANGED vars PROVE HandshakeInv'
BY DEF vars, HandshakeInv, TypeOK, HandshakeAt, HandshakeCause

\* Every step keeps the handshake's order and the types.
THEOREM HandshakeInvariant == Spec => []HandshakeInv
<1>1. ASSUME IInv, HandshakeInv, [Next]_vars
      PROVE  HandshakeInv'
  <2>1. CASE ClientIO
    BY <1>1, <2>1, ClientTyped, ClientHandshake DEF HandshakeInv
  <2>2. CASE CreateBatch \/ Dial \/ Succeed \/ Wait
    BY <1>1, <2>2, CommandHandshake
  <2>3. CASE ServerStep \/ ServerFails \/ Sever
    BY <1>1, <2>3, ServerHandshake
  <2>4. CASE UNCHANGED vars
    BY <1>1, <2>4, HandshakeStutter
  <2> QED
    BY <1>1, <2>1, <2>2, <2>3, <2>4 DEF Next, ClientStep, ClientIO
<1>2. IInv /\ HandshakeInv /\ [Next]_vars => HandshakeInv'
  BY <1>1
<1> QED
  BY <1>2, HandshakeInit, SessionInvariant, PTL DEF Spec

\* Every variable keeps its type, and no direction holds more than it can.
THEOREM SessionTypeCorrect == Spec => []TypeOK
<1>1. HandshakeInv => TypeOK
  BY DEF HandshakeInv
<1> QED
  BY <1>1, HandshakeInvariant, PTL

\* A handshake that fails because the other side went away is reported with the
\* remote process' own error, never as the end of a stream.
THEOREM HandshakeCauseCorrect == Spec => []HandshakeCause
<1>1. HandshakeInv => HandshakeCause
  BY DEF HandshakeInv
<1> QED
  BY <1>1, HandshakeInvariant, PTL
=============================================================================
