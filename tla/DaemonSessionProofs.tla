------------------------- MODULE DaemonSessionProofs -------------------------
(* One connection to the daemon, proved for every configuration, every request *)
(* and streams of any capacity: neither end loses its place in the stream, a    *)
(* refusal reaches its client, only permitted uploads write, and the connection *)
(* is a sync command as SyncCommand describes it.                               *)
EXTENDS DaemonSession, SequenceTheorems, TLAPS

Live(x) == pc[x] \notin {"close", "end"}
InTransfer == SenderPcs \cup ReceiverPcs

Greeting == Msg("greeting", "")
ModuleLine == Msg("module", request.module)
Challenge == Msg("authreqd", "")
Response == Msg("response", <<request.user, request.right>>)
Direction == Msg("direction", <<request.direction, request.direction = "put" /\ request.dryRun>>)
Ok == Msg("ok", "")
Error == Msg("error", "")
Done == Msg("done", "")
List == Msg("list", Files(Sending))
Signature(k) == Msg("signature", k)
Delta(k) == Msg("delta", k)

\* Whoever the server lets pass.
Authenticated ==
  /\ request.module \in DOMAIN Config
  /\ Config[request.module].users # {} =>
       request.user \in Config[request.module].users \cap Secrets /\ request.right

-----------------------------------------------------------------------------
(* The inductive invariant. *)

\* An end that has not left has no result, and was sent nothing out of phase,
\* but for the client that named "#list" as its module.
Results == /\ \A x \in Side : Live(x) => result[x] = "none"
           /\ InPhase

\* What the server was told is what the client asked for.
ServerAt ==
  LET p == pc["server"]
      Past == {"authOk", "direct", "ack"} \cup InTransfer
  IN /\ direction # "none" =>
          direction = request.direction /\ selected = request.module /\ Authenticated
     /\ p \in Opening["server"] \ {"ack", "refuse", "refuseSent"} => direction = "none"
     /\ Live("server") /\ p \notin {"greet", "peer", "select"} => selected = request.module
     /\ p \in {"list", "listDone"} => request.module = "#list"
     /\ p \in {"auth", "verify"} => request.module \in DOMAIN Config
     /\ p \in Past => Authenticated
     /\ p \in {"ack"} \cup InTransfer =>
          /\ direction = request.direction /\ ~Refused(direction)
          /\ dryRun["server"] = (request.direction = "put" /\ request.dryRun)

\* The client transfers once its direction has been acknowledged.
ClientAt ==
  pc["client"] \in InTransfer => direction # "none" /\ dryRun["client"] = request.dryRun

\* Sender and Receiver: what each has, and where it is in the list.
SenderAt ==
  LET s == Sending IN
  /\ pc[Receiving] \notin SenderPcs
  /\ pc[s] \in {"turn", "load", "waitDone"} => n[s] = Files(s) /\ f[s] \in 1..n[s] + 1
  /\ pc[s] = "load" => f[s] <= n[s]
  /\ pc[s] = "waitDone" => f[s] = n[s] + 1
WrittenBy(x, k) == written[x] = IF request.dryRun THEN 0 ELSE k
ReceiverAt ==
  LET r == Receiving IN
  /\ pc[Sending] \notin ReceiverPcs
  /\ written[Sending] = 0
  /\ Live(r) /\ pc[r] \notin ReceiverPcs \ {"recvList"} => written[r] = 0
  /\ pc[r] \in ReceiverPcs \ {"recvList"} =>
       n[r] = Files(Sending) /\ f[r] \in 1..n[r] + 1 /\ WrittenBy(r, f[r] - 1)
  /\ pc[r] \in {"delta", "write"} => f[r] <= n[r]
  /\ pc[r] = "doneSent" => f[r] = n[r] + 1

\* Receiver has written every file and writes no more.
Finished == WrittenBy(Receiving, Files(Sending)) /\ pc[Receiving] \in {"doneSent", "close", "end"}
OkMeansFinished == \A x \in Side : result[x] = "ok" => direction # "none" /\ Finished

\* A listing under way: lines, and perhaps the end of them.
OnlyLines(w) == \A m \in 1..Len(w) : w[m] = Msg("line", "")
Lines(w) == \A m \in 1..Len(w) : w[m] = Msg("line", "") \/ (m = Len(w) /\ w[m] = Msg("exit", ""))

\* What an end may have to read, alone or not.
ClientHears ==
  LET p == pc["client"]
      w == wire["client"]
  IN /\ p = "greet" => w \in {<<>>, <<Greeting>>}
     /\ p \in {"greetBack", "choose", "respond", "direct"} => w = <<>>
     /\ p = "listing" => Lines(w)
     /\ p = "auth" => \/ w \in {<<>>, <<Challenge>>, <<Ok>>, <<Error>>}
                      \/ request.module = "#list" /\ Lines(w)
     /\ p = "ack" => \/ w \in {<<>>, <<Error>>}
                     \/ w = <<Ok>> /\ direction # "none"
                     \/ /\ direction # "none" /\ Sending = "server"
                        /\ w = <<Ok, List>>
ServerHears ==
  LET p == pc["server"]
      w == wire["server"]
  IN /\ p \in Opening["server"] \ {"peer", "select", "verify", "direct"} => w = <<>>
     /\ p = "peer" => w \in {<<>>, <<Greeting>>, <<Greeting, ModuleLine>>}
     /\ p = "select" => w \in {<<>>, <<ModuleLine>>}
     /\ p = "verify" => w \in {<<>>, <<Response>>}
     /\ p = "direct" => w \in {<<>>, <<Direction>>}
TransferHears ==
  LET s == Sending
      r == Receiving
  IN /\ pc[s] \in {"sendList", "load"} => wire[s] = <<>>
     /\ pc[s] = "turn" => \/ wire[s] = <<>>
                          \/ f[s] <= n[s] /\ wire[s] = <<Signature(f[s])>>
                          \/ f[s] > n[s] /\ wire[s] = <<Done>> /\ Finished
     /\ pc[s] = "waitDone" => wire[s] = <<>> \/ (wire[s] = <<Done>> /\ Finished)
     /\ pc[r] = "recvList" => wire[r] \in {<<>>, <<List>>}
     /\ pc[r] \in {"entry", "write", "doneSent"} => wire[r] = <<>>
     /\ pc[r] = "delta" => wire[r] \in {<<>>, <<Delta(f[r])>>}
Hears == ClientHears /\ ServerHears /\ TransferHears

\* Where the two ends are together, and what is under way between them.
Now(c, s, wc, ws) ==
  pc["client"] = c /\ pc["server"] = s /\ wire["client"] = wc /\ wire["server"] = ws
Meeting ==
  \/ Now("greet", "greet", <<>>, <<>>)
  \/ Now("greet", "peer", <<Greeting>>, <<>>)
  \/ Now("greetBack", "peer", <<>>, <<>>)
  \/ Now("choose", "peer", <<>>, <<Greeting>>)
  \/ Now("choose", "select", <<>>, <<>>)
  \/ \E c \in {"listing", "auth"} :
       /\ c = "listing" => request.module = "#list"
       /\ \/ Now(c, "peer", <<>>, <<Greeting, ModuleLine>>)
          \/ Now(c, "select", <<>>, <<ModuleLine>>)
Listing ==
  /\ pc["client"] \in {"listing", "auth"} /\ pc["server"] \in {"list", "listDone"}
  /\ request.module = "#list"
  /\ wire["server"] = <<>> /\ Lines(wire["client"])
  /\ pc["server"] = "list" => OnlyLines(wire["client"])
Refusing ==
  \E c \in {"auth", "ack"} : Now(c, "refuse", <<>>, <<>>) \/ Now(c, "refuseSent", <<Error>>, <<>>)
Authenticating ==
  \/ Now("auth", "auth", <<>>, <<>>)
  \/ Now("auth", "verify", <<Challenge>>, <<>>)
  \/ Now("respond", "verify", <<>>, <<>>)
  \/ Now("auth", "verify", <<>>, <<Response>>)
  \/ Now("auth", "authOk", <<>>, <<>>)
  \/ Now("auth", "direct", <<Ok>>, <<>>)
Directing ==
  \/ Now("direct", "direct", <<>>, <<>>)
  \/ Now("ack", "direct", <<>>, <<Direction>>)
  \/ Now("ack", "ack", <<>>, <<>>)

\* The same for Sender, waiting or not for the end of the transfer, and Receiver.
Between(s, r, ws, wr) ==
  pc[Sending] = s /\ pc[Receiving] = r /\ wire[Sending] = ws /\ wire[Receiving] = wr
Starting ==
  \/ Sending = "client" /\ Between("ack", "recvList", <<Ok>>, <<>>)
  \/ Sending = "server" /\ Between("sendList", "ack", <<>>, <<Ok>>)
  \/ Between("sendList", "recvList", <<>>, <<>>)
  \/ /\ f[Sending] = 1
     /\ \E s \in {"turn", "waitDone"} :
          \/ Sending = "server" /\ Between(s, "ack", <<>>, <<Ok, List>>)
          \/ Between(s, "recvList", <<>>, <<List>>)
Exchanging ==
  LET k == f[Receiving] IN
  \/ /\ f[Sending] = k
     /\ \/ Between("turn", "delta", <<Signature(k)>>, <<>>)
        \/ Between("load", "delta", <<>>, <<>>)
        \/ \E s \in {"turn", "waitDone"} : \/ Between(s, "entry", <<>>, <<>>)
                                           \/ Between(s, "doneSent", <<Done>>, <<>>)
  \/ /\ f[Sending] = k + 1
     /\ \E s \in {"turn", "waitDone"} : \/ Between(s, "delta", <<>>, <<Delta(k)>>)
                                        \/ Between(s, "write", <<>>, <<>>)
Where == \/ Meeting \/ Listing \/ Refusing \/ Authenticating \/ Directing
         \/ direction # "none" /\ (Starting \/ Exchanging)
Together == Live("client") /\ Live("server") => Where

\* A client gone before the server's answer has failed; one that is refused is
\* there, waiting, with the answer before it and nothing of its own under way.
Refusal ==
  /\ ~Live("client") =>
       /\ pc["server"] \in {"greet", "peer", "select", "auth", "verify", "authOk", "direct", "refuse"}
            => result["client"] = "failed"
       /\ pc["server"] = "refuseSent" => result["client"] \in {"failed", "refused"}
  /\ result["server"] = "refused" =>
       \/ ~Live("client") /\ result["client"] \in {"failed", "refused"}
       \/ pc["client"] \in {"auth", "ack"} /\ wire["client"] = <<Error>> /\ wire["server"] = <<>>

\* The part that is about each end alone.
EndsOK == /\ TypeOK /\ Results /\ SenderAt /\ ReceiverAt
          /\ OkMeansFinished /\ OnlyPermittedWrites

DaemonInv == EndsOK /\ ServerAt /\ ClientAt /\ Hears /\ Together /\ Refusal
-----------------------------------------------------------------------------
(* The two ends, messages and streams. *)

\* Sides, and the one that sends.
LEMMA Sides ==
  /\ "client" \in Side /\ "server" \in Side
  /\ Peer("client") = "server" /\ Peer("server") = "client"
  /\ \A x \in Side : Peer(x) \in Side /\ Peer(x) # x /\ Peer(Peer(x)) = x
  /\ \A x, y \in Side : y = x \/ y = Peer(x)
  /\ Sending \in Side /\ Receiving \in Side /\ Receiving # Sending
  /\ Peer(Sending) = Receiving /\ Peer(Receiving) = Sending
  BY DEF Side, Peer, Sending, Receiving

\* A client's request and its module.
LEMMA RequestFacts ==
  ASSUME TypeOK
  PROVE  /\ request \in Request /\ request.module \in STRING /\ request.files \in Nat
         /\ request.user \in STRING /\ request.right \in BOOLEAN
         /\ request.dryRun \in BOOLEAN /\ request.direction \in {"get", "put"}
         /\ request.direction = "put" <=> Sending = "client"
         /\ request.direction = "get" <=> Sending = "server"
         /\ request.module \in DOMAIN Config =>
              request.module # "#list" /\ Config[request.module].files \in Nat
  BY RequestsAssumption, ConfigAssumption DEF TypeOK, Request, Sending

\* What each message is.
LEMMA Kinds ==
  /\ Greeting.kind = "greeting" /\ ModuleLine.kind = "module"
  /\ ModuleLine.val = request.module
  /\ Challenge.kind = "authreqd" /\ Response.kind = "response"
  /\ Response.val[1] = request.user /\ Response.val[2] = request.right
  /\ Direction.kind = "direction" /\ Direction.val[1] = request.direction
  /\ Direction.val[2] = (request.direction = "put" /\ request.dryRun)
  /\ Ok.kind = "ok" /\ Error.kind = "error" /\ Done.kind = "done"
  /\ List.kind = "list" /\ List.val = Files(Sending)
  /\ Msg("line", "").kind = "line" /\ Msg("exit", "").kind = "exit"
  BY DEF Greeting, ModuleLine, Challenge, Response, Direction, Ok, Error, Done, List, Msg

\* Every message is one.
LEMMA Messages ==
  ASSUME TypeOK
  PROVE  /\ Greeting \in Message /\ ModuleLine \in Message /\ Challenge \in Message
         /\ Response \in Message /\ Direction \in Message /\ Ok \in Message
         /\ Error \in Message /\ Done \in Message
         /\ Msg("line", "") \in Message /\ Msg("exit", "") \in Message
         /\ \A k \in Nat : /\ Msg("list", k) \in Message
                          /\ Signature(k) \in Message /\ Delta(k) \in Message
<1> DEFINE Texts == [kind : {"greeting", "line", "exit", "error", "ok", "authreqd", "done"}, val : {""}]
           Numbers == [kind : {"list", "signature", "delta"}, val : Nat]
<1>1. /\ request.user \in STRING /\ request.right \in BOOLEAN /\ request.module \in STRING
      /\ request.direction \in {"get", "put"}
  BY RequestFacts
<1>2. (request.direction = "put" /\ request.dryRun) \in BOOLEAN
  OBVIOUS
<1>3. Response \in [kind : {"response"}, val : STRING \X BOOLEAN]
  BY <1>1 DEF Response, Msg
<1>4. Direction \in [kind : {"direction"}, val : {"get", "put"} \X BOOLEAN]
  BY <1>1, <1>2 DEF Direction, Msg
<1>5. ModuleLine \in [kind : {"module"}, val : STRING]
  BY <1>1 DEF ModuleLine, Msg
<1>6. /\ Greeting \in Texts /\ Challenge \in Texts /\ Ok \in Texts /\ Error \in Texts
      /\ Done \in Texts /\ Msg("line", "") \in Texts /\ Msg("exit", "") \in Texts
  BY DEF Greeting, Challenge, Ok, Error, Done, Msg
<1>7. \A k \in Nat : /\ Msg("list", k) \in Numbers
                    /\ Signature(k) \in Numbers /\ Delta(k) \in Numbers
  BY DEF Signature, Delta, Msg
<1> QED
  BY <1>3, <1>4, <1>5, <1>6, <1>7 DEF Message

\* Short streams.
LEMMA Streams ==
  \A a, b : /\ Head(<<a>>) = a /\ Tail(<<a>>) = <<>> /\ <<a>> # <<>>
            /\ Head(<<a, b>>) = a /\ Tail(<<a, b>>) = <<b>> /\ <<a, b>> # <<>>
            /\ Append(<<>>, a) = <<a>> /\ Append(<<a>>, b) = <<a, b>>
<1> SUFFICES ASSUME NEW a, NEW b
             PROVE  /\ Head(<<a>>) = a /\ Tail(<<a>>) = <<>> /\ <<a>> # <<>>
                    /\ Head(<<a, b>>) = a /\ Tail(<<a, b>>) = <<b>> /\ <<a, b>> # <<>>
                    /\ Append(<<>>, a) = <<a>> /\ Append(<<a>>, b) = <<a, b>>
  OBVIOUS
<1>1. Head(<<a>>) = a /\ Head(<<a, b>>) = a
  OBVIOUS
<1>2. Tail(<<a>>) = <<>>
  OBVIOUS
<1>3. Tail(<<a, b>>) = <<b>>
  OBVIOUS
<1>4. <<a>> # <<>> /\ <<a, b>> # <<>>
  OBVIOUS
<1>5. Append(<<>>, a) = <<a>>
  OBVIOUS
<1>6. Append(<<a>>, b) = <<a, b>>
  <2>1. <<a>> \in Seq({a, b}) /\ <<a, b>> \in Seq({a, b})
    OBVIOUS
  <2>2. Append(<<a>>, b) \in Seq({a, b}) /\ Len(Append(<<a>>, b)) = 2
    BY <2>1
  <2>3. Append(<<a>>, b)[1] = a /\ Append(<<a>>, b)[2] = b
    BY <2>1
  <2> QED
    <3>1. Len(<<a, b>>) = 2 /\ <<a, b>>[1] = a /\ <<a, b>>[2] = b
      OBVIOUS
    <3>2. \A m \in 1..2 : Append(<<a>>, b)[m] = <<a, b>>[m]
      BY <2>3, <3>1
    <3> QED
      BY ONLY <2>1, <2>2, <3>1, <3>2, SeqEqual
<1> QED
  BY <1>1, <1>2, <1>3, <1>4, <1>5, <1>6

LEMMA NoLines == Lines(<<>>) /\ OnlyLines(<<>>)
<1>1. 1..Len(<<>>) = {}
  OBVIOUS
<1> QED
  BY <1>1 DEF Lines, OnlyLines

\* No answer to a client is a listing.
LEMMA NotLines == ~Lines(<<Challenge>>) /\ ~Lines(<<Ok>>) /\ ~Lines(<<Error>>)
<1>1. \A m : Lines(<<m>>) => m \in {Msg("line", ""), Msg("exit", "")}
  <2> SUFFICES ASSUME NEW m, Lines(<<m>>)
               PROVE  m \in {Msg("line", ""), Msg("exit", "")}
    OBVIOUS
  <2>1. Len(<<m>>) = 1 /\ <<m>>[1] = m /\ 1 \in 1..Len(<<m>>)
    OBVIOUS
  <2> QED
    BY <2>1 DEF Lines
<1>2. /\ Challenge \notin {Msg("line", ""), Msg("exit", "")}
      /\ Ok \notin {Msg("line", ""), Msg("exit", "")}
      /\ Error \notin {Msg("line", ""), Msg("exit", "")}
  BY Kinds
<1> QED
  BY <1>1, <1>2

\* A listing is read line by line and is still one.
LEMMA TailOfLines ==
  ASSUME NEW w \in Seq(Message), w # <<>>, Lines(w)
  PROVE  /\ Head(w) \in {Msg("line", ""), Msg("exit", "")} /\ Lines(Tail(w))
         /\ OnlyLines(w) => OnlyLines(Tail(w))
<1> DEFINE t == Tail(w)
           l == Len(w)
<1>1. /\ l \in Nat \ {0} /\ Len(t) = l - 1 /\ \A m \in 1..Len(t) : t[m] = w[m + 1]
  BY HeadTailProperties, EmptySeq
<1>2. Head(w) = w[1] /\ 1 \in 1..l
  BY <1>1
<1>3. \A m \in 1..Len(t) : m + 1 \in 1..l /\ (m + 1 = l => m = Len(t))
  <2> HIDE DEF l, t
  <2> QED
    BY <1>1
<1>4. \A m \in 1..l : w[m] = Msg("line", "") \/ (m = l /\ w[m] = Msg("exit", ""))
  BY DEF Lines
<1> HIDE DEF l, t
<1>5. w[1] \in {Msg("line", ""), Msg("exit", "")}
  BY <1>2, <1>4
<1>6. Lines(t)
  BY <1>1, <1>3, <1>4 DEF Lines
<1>7. OnlyLines(w) => OnlyLines(t)
  BY <1>1, <1>3 DEF OnlyLines, l
<1> QED
  BY <1>2, <1>5, <1>6, <1>7 DEF t

\* A listing is written line by line, and ended.
LEMMA AppendToLines ==
  ASSUME NEW w \in Seq(Message), OnlyLines(w)
  PROVE  /\ OnlyLines(Append(w, Msg("line", ""))) /\ Lines(Append(w, Msg("line", "")))
         /\ Lines(Append(w, Msg("exit", "")))
<1>1. ASSUME NEW m
      PROVE  /\ Len(Append(w, m)) = Len(w) + 1 /\ Len(w) \in Nat
             /\ \A i \in 1..Len(w) : Append(w, m)[i] = w[i]
             /\ Append(w, m)[Len(w) + 1] = m
  OBVIOUS
<1>2. Len(w) \in Nat /\ \A i \in 1..Len(w) + 1 : i \in 1..Len(w) \/ i = Len(w) + 1
  OBVIOUS
<1>3. OnlyLines(Append(w, Msg("line", "")))
  BY <1>1, <1>2 DEF OnlyLines
<1>4. Lines(Append(w, Msg("line", "")))
  BY <1>3 DEF Lines, OnlyLines
<1>5. Lines(Append(w, Msg("exit", "")))
  BY <1>1, <1>2 DEF Lines, OnlyLines
<1> QED
  BY <1>3, <1>4, <1>5

\* One end goes on: the other is where it was.
LEMMA GotoFacts ==
  ASSUME TypeOK, NEW x \in Side, NEW q \in Pcs(x), Goto(x, q)
  PROVE  /\ pc' \in [Side -> Pcs("client") \cup Pcs("server")] /\ (\A y \in Side : pc'[y] \in Pcs(y))
         /\ pc'[x] = q /\ pc'[Peer(x)] = pc[Peer(x)]
         /\ result' = result
  BY Sides DEF TypeOK, Goto

\* A message is read from the front of one's own stream.
LEMMA HearFacts ==
  ASSUME TypeOK, NEW x \in Side, Hear(x)
  PROVE  /\ wire' \in [Side -> Seq(Message)] /\ \A y \in Side : Len(wire'[y]) <= Capacity
         /\ wire[x] # <<>> /\ wire'[x] = Tail(wire[x]) /\ wire'[Peer(x)] = wire[Peer(x)]
<1>1. /\ wire \in [Side -> Seq(Message)] /\ wire[x] \in Seq(Message) /\ wire[x] # <<>>
      /\ wire' = [wire EXCEPT ![x] = Tail(wire[x])] /\ \A y \in Side : Len(wire[y]) <= Capacity
  BY DEF TypeOK, Hear
<1>2. Tail(wire[x]) \in Seq(Message) /\ Len(Tail(wire[x])) = Len(wire[x]) - 1
  BY <1>1, HeadTailProperties
<1>3. Len(wire[x]) \in Nat /\ Len(wire[x]) <= Capacity
  BY <1>1
<1>4. Len(Tail(wire[x])) <= Capacity
  BY <1>2, <1>3, CapacityAssumption
<1>5. \A y \in Side : wire'[y] = IF y = x THEN Tail(wire[x]) ELSE wire[y]
  BY <1>1
<1>6. wire' \in [Side -> Seq(Message)]
  BY <1>1, <1>2
<1> QED
  BY <1>1, <1>4, <1>5, <1>6, Sides

\* What is heard of a short stream, and what is left.
LEMMA HearShort ==
  ASSUME TypeOK, NEW x \in Side, Hear(x), NEW a, NEW b
  PROVE  /\ wire[x] = <<a>> => Heard(x) = a /\ wire'[x] = <<>>
         /\ wire[x] = <<a, b>> => Heard(x) = a /\ wire'[x] = <<b>>
<1>1. Heard(x) = Head(wire[x]) /\ wire'[x] = Tail(wire[x])
  BY HearFacts DEF Heard
<1>2. /\ Head(<<a>>) = a /\ Tail(<<a>>) = <<>>
      /\ Head(<<a, b>>) = a /\ Tail(<<a, b>>) = <<b>>
  BY Streams
<1> QED
  BY <1>1, <1>2, Zenon

\* A message is put at the end of the peer's stream; once the peer has ended it
\* goes nowhere, may cost what is unread, or shows that the connection is gone.
Lost(x) == wire'[x] \in {wire[x], <<>>} /\ wire'[Peer(x)] = wire[Peer(x)]
LEMMA SayFacts ==
  ASSUME TypeOK, NEW x \in Side, NEW q \in Pcs(x), NEW m \in Message, Say(x, m, q)
  PROVE  /\ wire' \in [Side -> Seq(Message)] /\ \A y \in Side : Len(wire'[y]) <= Capacity
         /\ \/ /\ Goto(x, q) /\ pc[Peer(x)] # "end" /\ wire'[x] = wire[x]
               /\ wire'[Peer(x)] = Append(wire[Peer(x)], m)
            \/ pc[Peer(x)] = "end" /\ Goto(x, q) /\ Lost(x)
            \/ pc[Peer(x)] = "end" /\ Leave(x, "cut") /\ wire' = wire
<1>1. /\ wire \in [Side -> Seq(Message)] /\ \A y \in Side : Len(wire[y]) <= Capacity
      /\ Peer(x) \in Side /\ Peer(x) # x
  BY Sides DEF TypeOK
<1>2. CASE /\ pc[Peer(x)] # "end" /\ Len(wire[Peer(x)]) < Capacity
           /\ wire' = [wire EXCEPT ![Peer(x)] = Append(@, m)] /\ Goto(x, q)
  <2> DEFINE w == wire[Peer(x)]
  <2>1. w \in Seq(Message) /\ Append(w, m) \in Seq(Message) /\ Len(w) \in Nat
        /\ Len(Append(w, m)) = Len(w) + 1
    BY <1>1
  <2>2. Len(Append(w, m)) <= Capacity
    BY <1>2, <2>1, CapacityAssumption
  <2>3. wire' = [wire EXCEPT ![Peer(x)] = Append(w, m)]
    BY <1>2
  <2> HIDE DEF w
  <2>4. wire' \in [Side -> Seq(Message)]
    BY <1>1, <2>1, <2>3
  <2>5. \A y \in Side : wire'[y] = IF y = Peer(x) THEN Append(w, m) ELSE wire[y]
    BY <1>1, <2>3
  <2> QED
    BY <1>1, <1>2, <2>2, <2>4, <2>5 DEF w
<1>3. CASE pc[Peer(x)] = "end" /\ Goto(x, q) /\ wire' \in {wire, [wire EXCEPT ![x] = <<>>]}
  <2>1. <<>> \in Seq(Message) /\ Len(<<>>) = 0 /\ 0 <= Capacity
    BY CapacityAssumption
  <2>2. CASE wire' = wire
    BY <1>1, <1>3, <2>2 DEF Lost
  <2>3. CASE wire' = [wire EXCEPT ![x] = <<>>]
    <3>1. wire' \in [Side -> Seq(Message)]
      BY <1>1, <2>1, <2>3
    <3>2. \A y \in Side : wire'[y] = IF y = x THEN <<>> ELSE wire[y]
      BY <1>1, <2>3
    <3> QED
      BY <1>1, <1>3, <2>1, <3>1, <3>2 DEF Lost
  <2> QED
    BY <1>3, <2>2, <2>3
<1>4. CASE pc[Peer(x)] = "end" /\ Leave(x, "cut") /\ wire' = wire
  BY <1>1, <1>4
<1> QED
  BY <1>2, <1>3, <1>4 DEF Say

-----------------------------------------------------------------------------
(* Leaving and closing. *)

Outcome == {"none", "ok", "listed", "refused", "cut", "protocol", "failed"}

\* What the streams hold, whoever is there to read it.
WiresOK == wire \in [Side -> Seq(Message)] /\ \A y \in Side : Len(wire[y]) <= Capacity

\* An end leaves, and the other goes on with what it has been sent.
LEMMA Departure ==
  ASSUME DaemonInv, NEW x \in Side, Live(x), NEW r \in Outcome, Leave(x, r),
         r = "protocol" => x = "client" /\ request.module = "#list",
         UNCHANGED <<request, selected, direction, written>>, listed' \in Nat,
         dryRun' \in [Side -> BOOLEAN], dryRun'[Peer(x)] = dryRun[Peer(x)],
         n' \in [Side -> Nat], n'[Peer(x)] = n[Peer(x)],
         f' \in [Side -> Nat], f'[Peer(x)] = f[Peer(x)],
         WiresOK', wire'[Peer(x)] = wire[Peer(x)],
         r = "ok" => direction # "none" /\ WrittenBy(Receiving, Files(Sending))
                     /\ (x = Sending => pc[Receiving] \in {"doneSent", "close", "end"}),
         x = "client" => Refusal',
         x = "server" /\ r = "refused" => pc["server"] = "refuseSent" /\ wire' = wire
  PROVE  DaemonInv'
<1>1. /\ TypeOK /\ Results /\ ServerAt /\ ClientAt /\ SenderAt /\ ReceiverAt
      /\ OkMeansFinished /\ Hears /\ Together /\ Refusal /\ OnlyPermittedWrites
  BY DEF DaemonInv, EndsOK
<1>2. /\ Peer(x) \in Side /\ Peer(x) # x /\ \A y \in Side : y = x \/ y = Peer(x)
      /\ Sending \in Side /\ Receiving \in Side
  BY Sides
<1>3. /\ UNCHANGED <<request, selected, direction, written>>
      /\ Sending' = Sending /\ Receiving' = Receiving
      /\ \A y \in Side : Files(y)' = Files(y)
  BY DEF Sending, Receiving, Files
<1>4. /\ pc' \in [Side -> Pcs("client") \cup Pcs("server")] /\ \A y \in Side : pc'[y] \in Pcs(y)
      /\ pc'[x] = "close" /\ pc'[Peer(x)] = pc[Peer(x)]
  BY <1>1, <1>2 DEF TypeOK, Leave, Pcs
<1>5. /\ result' \in [Side -> Outcome] /\ result'[x] = r /\ result'[Peer(x)] = result[Peer(x)]
  BY <1>1, <1>2 DEF TypeOK, Leave, Outcome, Results
<1>6. TypeOK'
  BY <1>1, <1>3, <1>4, <1>5 DEF TypeOK, WiresOK, Outcome
<1>7. Results'
  BY <1>1, <1>2, <1>4, <1>5 DEF Results, Live, InPhase
<1>8. ServerAt' /\ ClientAt'
  BY <1>1, <1>2, <1>3, <1>4, Sides
     DEF ServerAt, ClientAt, Live, Authenticated, Refused, InTransfer, SenderPcs, ReceiverPcs, Opening
<1>9. SenderAt' /\ ReceiverAt'
  BY <1>1, <1>2, <1>3, <1>4
     DEF SenderAt, ReceiverAt, WrittenBy, Live, SenderPcs, ReceiverPcs
<1>10. OkMeansFinished'
  BY <1>1, <1>2, <1>3, <1>4, <1>5, Sides DEF OkMeansFinished, Finished, WrittenBy
<1>11. Hears'
  <2>1. /\ Greeting' = Greeting /\ ModuleLine' = ModuleLine /\ Challenge' = Challenge
        /\ Response' = Response /\ Direction' = Direction /\ Ok' = Ok /\ Error' = Error
        /\ List' = List /\ Done' = Done
    BY <1>2, <1>3 DEF Greeting, ModuleLine, Challenge, Response, Direction, Ok, Error, List, Done
  <2>2. Finished => Finished'
    BY <1>2, <1>3, <1>4, Sides DEF Finished, WrittenBy
  <2>3. ClientHears'
    BY <1>1, <1>3, <1>4, <2>1, Sides DEF Hears, ClientHears
  <2>4. ServerHears'
    BY <1>1, <1>3, <1>4, <2>1, Sides DEF Hears, ServerHears, Opening
  <2>5. TransferHears'
    <3>1. CASE x = Sending
      BY <3>1, <1>1, <1>3, <1>4, <2>1, Sides DEF Hears, TransferHears
    <3>2. CASE x = Receiving
      BY <3>2, <1>1, <1>3, <1>4, <2>1, <2>2, Sides DEF Hears, TransferHears
    <3> QED
      BY <3>1, <3>2, Sides
  <2> QED
    BY <2>3, <2>4, <2>5 DEF Hears
<1>12. Together'
  BY <1>2, <1>4, Sides DEF Together, Live
<1>13. Refusal'
  <2>1. CASE x = "server"
    <3>1. pc'["client"] = pc["client"] /\ result'["client"] = result["client"] /\ result'["server"] = r
      BY <2>1, <1>4, <1>5, Sides
    <3>2. pc'["server"] = "close"
      BY <2>1, <1>4
    <3>3. CASE r = "refused" /\ Live("client")
      <4>1. pc["client"] \in {"auth", "ack"} /\ wire["client"] = <<Error>> /\ wire["server"] = <<>>
        BY <2>1, <3>3, <1>1
           DEF Together, Where, Meeting, Listing, Refusing, Authenticating, Directing, Starting, Exchanging,
               Now, Between, Sending, Receiving, Peer
      <4>2. wire' = wire /\ Error' = Error
        BY <2>1, <3>3 DEF Error
      <4> QED
        BY <3>1, <3>2, <3>3, <4>1, <4>2 DEF Refusal, Live
    <3>4. CASE r = "refused" /\ ~Live("client")
      BY <2>1, <3>1, <3>2, <3>4, <1>1 DEF Refusal, Live
    <3>5. CASE r # "refused"
      BY <3>1, <3>2, <3>5 DEF Refusal, Live
    <3> QED
      BY <3>3, <3>4, <3>5
  <2> QED
    BY <2>1 DEF Side
<1>14. OnlyPermittedWrites'
  BY <1>1, <1>3 DEF OnlyPermittedWrites
<1> QED
  BY <1>6, <1>7, <1>8, <1>9, <1>10, <1>11, <1>12, <1>13, <1>14 DEF DaemonInv, EndsOK

\* The same, told nothing new.
LEMMA LeaveStep ==
  ASSUME DaemonInv, NEW x \in Side, Live(x), NEW r \in Outcome, Leave(x, r),
         r = "protocol" => x = "client" /\ request.module = "#list",
         UNCHANGED <<request, told, written>>, listed' \in Nat,
         n' \in [Side -> Nat], n'[Peer(x)] = n[Peer(x)],
         f' \in [Side -> Nat], f'[Peer(x)] = f[Peer(x)],
         WiresOK', wire'[Peer(x)] = wire[Peer(x)],
         r = "ok" => direction # "none" /\ WrittenBy(Receiving, Files(Sending))
                     /\ (x = Sending => pc[Receiving] \in {"doneSent", "close", "end"}),
         x = "client" => Refusal',
         x = "server" /\ r = "refused" => pc["server"] = "refuseSent" /\ wire' = wire
  PROVE  DaemonInv'
<1>1. UNCHANGED <<selected, direction, dryRun>> /\ dryRun \in [Side -> BOOLEAN]
  BY DEF told, DaemonInv, EndsOK, TypeOK
<1> QED
  BY <1>1, Departure

\* Something fails at one end.
LEMMA BreaksStep ==
  ASSUME DaemonInv, NEW x \in Side, Breaks(x)
  PROVE  DaemonInv'
<1>1. TypeOK /\ Live(x) /\ Leave(x, "failed") /\ UNCHANGED <<request, wire, told, transfer, listed>>
  BY DEF Breaks, Live, DaemonInv, EndsOK
<1>2. WiresOK /\ listed \in Nat /\ n \in [Side -> Nat] /\ f \in [Side -> Nat]
  BY <1>1 DEF TypeOK, WiresOK
<1>3. WiresOK' /\ UNCHANGED <<wire, written, n, f, listed>>
  BY <1>1, <1>2 DEF WiresOK, transfer
<1>4. x = "client" => Refusal'
  <2> SUFFICES ASSUME x = "client"
               PROVE  Refusal'
    OBVIOUS
  <2>1. Refusal /\ result["client"] = "none" /\ result \in [Side -> Outcome]
    BY <1>1 DEF DaemonInv, EndsOK, Results, TypeOK, Outcome
  <2>2. /\ pc'["client"] = "close" /\ result'["client"] = "failed"
        /\ result'["server"] = result["server"]
    BY <1>1, <2>1, Sides DEF Leave, TypeOK
  <2> QED
    BY <2>1, <2>2 DEF Refusal, Live
<1> QED
  BY <1>1, <1>2, <1>3, <1>4, LeaveStep DEF Outcome

\* A read meets the end of the stream.
LEMMA EndOfStreamStep ==
  ASSUME DaemonInv, NEW x \in Side, EndOfStream(x)
  PROVE  DaemonInv'
<1>1. /\ TypeOK /\ Leave(x, "cut") /\ UNCHANGED <<request, wire, told, transfer, listed>>
      /\ wire[x] = <<>> /\ pc[Peer(x)] = "end" /\ pc[x] \in Waiting[x]
  BY DEF EndOfStream, DaemonInv, EndsOK
<1>2. WiresOK /\ listed \in Nat /\ n \in [Side -> Nat] /\ f \in [Side -> Nat]
  BY <1>1 DEF TypeOK, WiresOK
<1>3. WiresOK' /\ UNCHANGED <<wire, written, n, f, listed>>
  BY <1>1, <1>2 DEF WiresOK, transfer
<1>4. Live(x)
  BY <1>1 DEF Waiting, Live, Side
<1>5. x = "client" => Refusal'
  <2> SUFFICES ASSUME x = "client"
               PROVE  Refusal'
    OBVIOUS
  <2>1. Refusal /\ result \in [Side -> Outcome]
    BY <1>1 DEF DaemonInv, EndsOK, Results, TypeOK, Outcome
  <2>2. pc'["server"] = "end" /\ result'["server"] = result["server"]
    BY <1>1, <2>1, Sides DEF Leave, TypeOK
  <2>3. result["server"] # "refused"
    BY <1>1, <1>4, <2>1, Streams DEF Refusal
  <2> QED
    BY <2>2, <2>3 DEF Refusal
<1> QED
  BY <1>1, <1>2, <1>3, <1>4, <1>5, LeaveStep DEF Outcome

\* A write finds the connection gone.
LEMMA CutStep ==
  ASSUME DaemonInv, NEW x \in Side, Live(x), Leave(x, "cut"), pc[Peer(x)] = "end",
         pc[x] \notin {"auth", "ack"} \/ x = "server",
         UNCHANGED <<request, told, wire, written>>, listed' \in Nat,
         n' \in [Side -> Nat], n'[Peer(x)] = n[Peer(x)],
         f' \in [Side -> Nat], f'[Peer(x)] = f[Peer(x)]
  PROVE  DaemonInv'
<1>1. TypeOK /\ WiresOK
  BY DEF DaemonInv, EndsOK, TypeOK, WiresOK
<1>2. WiresOK'
  BY <1>1 DEF WiresOK
<1>3. x = "client" => Refusal'
  <2> SUFFICES ASSUME x = "client"
               PROVE  Refusal'
    OBVIOUS
  <2>1. Refusal /\ result \in [Side -> Outcome] /\ pc["server"] = "end"
    BY Sides DEF DaemonInv, EndsOK, TypeOK, Outcome
  <2>2. pc'["server"] = "end" /\ result'["server"] = result["server"]
    BY <1>1, <2>1, Sides DEF Leave, TypeOK
  <2>3. result["server"] # "refused"
    BY <2>1 DEF Refusal
  <2> QED
    BY <2>2, <2>3 DEF Refusal
<1> QED
  BY <1>1, <1>2, <1>3, LeaveStep DEF Outcome

\* An end closes: what it had not read is lost, and perhaps what its peer has not.
LEMMA CloseConnStep ==
  ASSUME DaemonInv, NEW x \in Side, CloseConn(x)
  PROVE  DaemonInv'
<1>1. /\ TypeOK /\ Results /\ ServerAt /\ ClientAt /\ SenderAt /\ ReceiverAt
      /\ OkMeansFinished /\ Hears /\ Together /\ Refusal /\ OnlyPermittedWrites
  BY DEF DaemonInv, EndsOK
<1>2. /\ Peer(x) \in Side /\ Peer(x) # x /\ \A y \in Side : y = x \/ y = Peer(x)
      /\ Sending \in Side /\ Receiving \in Side
  BY Sides
<1>3. /\ UNCHANGED <<request, result, selected, direction, dryRun, n, f, written, listed>>
      /\ Sending' = Sending /\ Receiving' = Receiving
      /\ \A y \in Side : Files(y)' = Files(y)
  BY DEF CloseConn, told, transfer, Sending, Receiving, Files
<1>4. /\ pc' \in [Side -> Pcs("client") \cup Pcs("server")] /\ \A y \in Side : pc'[y] \in Pcs(y)
      /\ pc[x] = "close" /\ pc'[x] = "end" /\ pc'[Peer(x)] = pc[Peer(x)]
  BY <1>1, <1>2 DEF TypeOK, CloseConn, Pcs, At
<1>5. /\ wire' \in [Side -> Seq(Message)] /\ \A y \in Side : Len(wire'[y]) <= Capacity
      /\ wire'[Peer(x)] = wire[Peer(x)] \/ (wire'[Peer(x)] = <<>> /\ wire[x] # <<>>)
  <2>1. <<>> \in Seq(Message) /\ Len(<<>>) = 0 /\ 0 <= Capacity
    BY CapacityAssumption
  <2>2. /\ wire \in [Side -> Seq(Message)] /\ \A y \in Side : Len(wire[y]) <= Capacity
    BY <1>1 DEF TypeOK
  <2>3. \/ wire' = [wire EXCEPT ![x] = <<>>]
        \/ wire[x] # <<>> /\ wire' = [y \in Side |-> <<>>]
    BY DEF CloseConn, Both
  <2>4. CASE wire' = [wire EXCEPT ![x] = <<>>]
    BY <1>2, <2>1, <2>2, <2>4
  <2>5. CASE wire[x] # <<>> /\ wire' = [y \in Side |-> <<>>]
    BY <1>2, <2>1, <2>5
  <2> QED
    BY <2>3, <2>4, <2>5
<1>6. TypeOK'
  BY <1>1, <1>3, <1>4, <1>5 DEF TypeOK
<1>7. Results'
  BY <1>1, <1>2, <1>3, <1>4 DEF Results, Live, InPhase
<1>8. ServerAt' /\ ClientAt'
  BY <1>1, <1>2, <1>3, <1>4, Sides
     DEF ServerAt, ClientAt, Live, Authenticated, Refused, InTransfer, SenderPcs, ReceiverPcs, Opening
<1>9. SenderAt' /\ ReceiverAt'
  BY <1>1, <1>2, <1>3, <1>4
     DEF SenderAt, ReceiverAt, WrittenBy, Live, SenderPcs, ReceiverPcs
<1>10. OkMeansFinished'
  BY <1>1, <1>2, <1>3, <1>4, Sides DEF OkMeansFinished, Finished, WrittenBy
<1>11. Hears'
  <2>1. CASE wire'[Peer(x)] = wire[Peer(x)]
    BY <2>1, <1>1, <1>2, <1>3, <1>4, Sides
       DEF Hears, ClientHears, ServerHears, TransferHears, Opening, List, Finished, WrittenBy,
           ModuleLine, Response, Direction
  <2>2. CASE wire'[Peer(x)] = <<>>
    <3> QED
      BY <2>2, NoLines, <1>1, <1>2, <1>3, <1>4, Sides
         DEF Hears, ClientHears, ServerHears, TransferHears, Opening
  <2> QED
    BY <1>5, <2>1, <2>2
<1>12. Together'
  BY <1>2, <1>4, Sides DEF Together, Live
<1>13. Refusal'
  <2>1. CASE x = "server"
    <3>1. pc'["client"] = pc["client"] /\ pc'["server"] = "end" /\ result' = result /\ Error' = Error
      BY <2>1, <1>3, <1>4, Sides DEF Error
    <3>2. CASE Live("client") /\ result["server"] = "refused"
      <4>1. pc["client"] \in {"auth", "ack"} /\ wire["client"] = <<Error>> /\ wire["server"] = <<>>
        BY <3>2, <1>1 DEF Refusal
      <4>2. wire' = [wire EXCEPT !["server"] = <<>>]
        BY <2>1, <4>1 DEF CloseConn
      <4>3. wire'["client"] = <<Error>> /\ wire'["server"] = <<>>
        BY <4>1, <4>2, <1>1, Sides DEF TypeOK
      <4> QED
        BY <3>1, <3>2, <4>1, <4>3 DEF Refusal, Live
    <3>3. CASE ~(Live("client") /\ result["server"] = "refused")
      BY <3>1, <3>3, <1>1 DEF Refusal, Live
    <3> QED
      BY <3>2, <3>3
  <2>2. CASE x = "client"
    BY <2>2, <1>1, <1>3, <1>4, Sides DEF Refusal, Live
  <2> QED
    BY <2>1, <2>2 DEF Side
<1>14. OnlyPermittedWrites'
  BY <1>1, <1>3 DEF OnlyPermittedWrites
<1> QED
  BY <1>6, <1>7, <1>8, <1>9, <1>10, <1>11, <1>12, <1>13, <1>14 DEF DaemonInv, EndsOK

-----------------------------------------------------------------------------
(* Going on: what most steps leave as it is. *)

\* A step before the transfer, or into it, touches no file.
LEMMA OpeningStep ==
  ASSUME DaemonInv, NEW x \in Side, pc[x] \in Opening[x],
         NEW q \in Opening[x] \cup {"sendList", "recvList"}, Goto(x, q),
         q = "sendList" => x = Sending, q = "recvList" => x = Receiving,
         UNCHANGED <<request, transfer>>, listed' \in Nat, WiresOK', dryRun' \in [Side -> BOOLEAN],
         selected' \in DOMAIN Config \cup {"", "#list"} \cup {r.module : r \in Requests},
         direction' \in {"none", "get", "put"},
         direction # "none" => UNCHANGED <<selected, direction>>
  PROVE  EndsOK'
<1>1. /\ TypeOK /\ Results /\ ClientAt /\ SenderAt /\ ReceiverAt
      /\ OkMeansFinished /\ OnlyPermittedWrites
  BY DEF DaemonInv, EndsOK
<1>2. /\ Peer(x) \in Side /\ Peer(x) # x /\ \A y \in Side : y = x \/ y = Peer(x)
      /\ Sending \in Side /\ Receiving \in Side
  BY Sides
<1>3. /\ UNCHANGED <<request, n, f, written>>
      /\ Sending' = Sending /\ Receiving' = Receiving
      /\ Files("client")' = Files("client")
      /\ direction # "none" => \A y \in Side : Files(y)' = Files(y)
  BY DEF transfer, Sending, Receiving, Files
<1>4. /\ pc[x] \notin SenderPcs \cup ReceiverPcs /\ pc[x] \notin {"close", "end"}
      /\ q \notin SenderPcs \cup ReceiverPcs \/ q \in {"sendList", "recvList"}
      /\ q \notin {"close", "end"} /\ q \in Pcs(x)
  <2>1. CASE x = "client"
    BY <2>1 DEF Opening, Pcs, SenderPcs, ReceiverPcs
  <2>2. CASE x = "server"
    BY <2>2 DEF Opening, Pcs, SenderPcs, ReceiverPcs
  <2> QED
    BY <2>1, <2>2 DEF Side
<1>5. /\ pc' \in [Side -> Pcs("client") \cup Pcs("server")] /\ \A y \in Side : pc'[y] \in Pcs(y)
      /\ pc'[x] = q /\ pc'[Peer(x)] = pc[Peer(x)] /\ result' = result
  BY <1>1, <1>4, GotoFacts
<1>6. TypeOK'
  BY <1>1, <1>3, <1>5 DEF TypeOK, WiresOK
<1>7. Results'
  BY <1>1, <1>2, <1>4, <1>5 DEF Results, Live, InPhase
<1>8. SenderAt'
  <2>1. CASE x = Sending
    BY <2>1, <1>1, <1>3, <1>4, <1>5, Sides DEF SenderAt, SenderPcs, ReceiverPcs
  <2>2. CASE x = Receiving
    <3>1. pc[Sending] \in {"turn", "load", "waitDone"} => Files(Sending)' = Files(Sending)
      <4>1. CASE Sending = "client"
        BY <4>1, <1>3
      <4>2. CASE Sending = "server"
        <5>1. pc["server"] \in InTransfer => direction # "none"
          BY <1>1, RequestFacts DEF DaemonInv, ServerAt
        <5> QED
          BY <4>2, <5>1, <1>2, <1>3 DEF InTransfer, SenderPcs
      <4> QED
        BY <4>1, <4>2, <1>2 DEF Side
    <3> QED
      BY <2>2, <3>1, <1>1, <1>3, <1>4, <1>5, Sides DEF SenderAt, SenderPcs, ReceiverPcs
  <2> QED
    BY <2>1, <2>2, Sides
<1>9. ReceiverAt'
  <2>1. CASE x = Receiving
    BY <2>1, <1>1, <1>3, <1>4, <1>5, Sides DEF ReceiverAt, WrittenBy, Live, SenderPcs, ReceiverPcs
  <2>2. CASE x = Sending
    <3>1. pc[Receiving] \in ReceiverPcs => Files(Sending)' = Files(Sending)
      <4>1. CASE Sending = "client"
        BY <4>1, <1>3
      <4>2. CASE Sending = "server"
        BY <4>2, <1>1, <1>2, <1>3, Sides DEF ClientAt, InTransfer
      <4> QED
        BY <4>1, <4>2, <1>2 DEF Side
    <3> QED
      BY <2>2, <3>1, <1>1, <1>3, <1>4, <1>5, Sides
         DEF ReceiverAt, WrittenBy, Live, SenderPcs, ReceiverPcs
  <2> QED
    BY <2>1, <2>2, Sides
<1>10. OkMeansFinished'
  <2>1. Finished /\ direction # "none" => Finished'
    <3>1. x = Receiving => pc[Receiving] \notin {"doneSent", "close", "end"}
      BY <1>4 DEF ReceiverPcs
    <3> QED
      BY <3>1, <1>2, <1>3, <1>5, Sides DEF Finished, WrittenBy
  <2> QED
    BY <2>1, <1>1, <1>5 DEF OkMeansFinished
<1>11. OnlyPermittedWrites'
  BY <1>1, <1>3 DEF OnlyPermittedWrites
<1> QED
  BY <1>6, <1>7, <1>8, <1>9, <1>10, <1>11 DEF EndsOK

\* Where both ends are says what each may hear.
LEMMA TogetherHears ==
  ASSUME EndsOK', Together', Live("client")', Live("server")'
  PROVE  Hears'
<1>1. Where'
  BY DEF Together, Live, Where
<1>2. ClientHears'
  <2>1. CASE Meeting'
    BY <2>1, NoLines DEF ClientHears, Meeting, Now
  <2>2. CASE Listing'
    BY <2>2 DEF ClientHears, Listing
  <2>3. CASE Refusing' \/ Authenticating' \/ Directing'
    BY <2>3 DEF ClientHears, Refusing, Authenticating, Directing, Now
  <2>4. CASE direction' # "none" /\ Starting'
    BY <2>4, Sides DEF ClientHears, Starting, Between, Sending, Receiving
  <2>5. CASE Exchanging'
    BY <2>5, Sides DEF ClientHears, Exchanging, Between, Sending, Receiving
  <2> QED
    BY <1>1, <2>1, <2>2, <2>3, <2>4, <2>5 DEF Where
<1>3. ServerHears'
  BY <1>1, Sides
     DEF ServerHears, Opening, Where, Meeting, Listing, Refusing, Authenticating, Directing,
         Starting, Exchanging, Now, Between, Sending, Receiving
<1>4. TransferHears'
  <2>1. CASE (Meeting \/ Listing \/ Refusing \/ Authenticating \/ Directing)'
    BY <2>1 DEF TransferHears, Meeting, Listing, Refusing, Authenticating, Directing, Now,
                Sending, Receiving, Peer
  <2>2. CASE Starting'
    BY <2>2 DEF TransferHears, Starting, Between
  <2>3. CASE Exchanging'
    <3> DEFINE k == f'[Receiving']
    <3>1. SenderAt' /\ ReceiverAt'
      BY DEF EndsOK
    <3>2. CASE (\E s \in {"turn", "waitDone"} : Between(s, "doneSent", <<Done>>, <<>>))' /\ f'[Sending'] = k
      <4>1. pc'[Receiving'] = "doneSent" /\ pc'[Sending'] \in {"turn", "waitDone"}
            /\ wire'[Sending'] = <<Done'>> /\ wire'[Receiving'] = <<>>
        BY <3>2 DEF Between
      <4>2. /\ n'[Receiving'] = Files(Sending)' /\ f'[Receiving'] \in 1..n'[Receiving'] + 1
            /\ WrittenBy(Receiving, f[Receiving] - 1)' /\ f'[Receiving'] = n'[Receiving'] + 1
            /\ n'[Sending'] = Files(Sending)'
        BY <3>1, <4>1 DEF SenderAt, ReceiverAt, ReceiverPcs
      <4>3. Files(Sending)' \in Nat
        BY <4>2, Sides DEF EndsOK, TypeOK, Sending, Receiving, Peer, Side
      <4>4. Finished' /\ f'[Sending'] > n'[Sending']
        BY <3>2, <4>1, <4>2, <4>3 DEF Finished, WrittenBy
      <4> QED
        BY <4>1, <4>4 DEF TransferHears
    <3>3. CASE f'[Sending'] = k /\ Between("turn", "delta", <<Signature(f[Receiving])>>, <<>>)'
      BY <3>1, <3>3 DEF TransferHears, Between, SenderAt, ReceiverAt, ReceiverPcs
    <3>4. CASE f'[Sending'] = k /\ (Between("load", "delta", <<>>, <<>>)
                                    \/ \E s \in {"turn", "waitDone"} : Between(s, "entry", <<>>, <<>>))'
      BY <3>4 DEF TransferHears, Between
    <3>5. CASE (\E s \in {"turn", "waitDone"} : \/ Between(s, "delta", <<>>, <<Delta(f[Receiving])>>)
                                              \/ Between(s, "write", <<>>, <<>>))'
      BY <3>5 DEF TransferHears, Between
    <3> QED
      BY <2>3, <3>2, <3>3, <3>4, <3>5 DEF Exchanging
  <2> QED
    BY <1>1, <2>1, <2>2, <2>3 DEF Where
<1> QED
  BY <1>2, <1>3, <1>4 DEF Hears

\* The client goes on, before the transfer; it is not one the server has refused.
LEMMA ClientMoves ==
  ASSUME DaemonInv, pc["client"] \in Opening["client"],
         NEW q \in Opening["client"], Goto("client", q),
         UNCHANGED <<request, selected, direction, dryRun, transfer>>, listed' \in Nat, WiresOK',
         result["server"] # "refused", ClientHears', Live("server") => Where'
  PROVE  DaemonInv'
<1>1. EndsOK' /\ TypeOK
  <2>1. /\ TypeOK /\ dryRun \in [Side -> BOOLEAN] /\ direction \in {"none", "get", "put"}
        /\ selected \in DOMAIN Config \cup {"", "#list"} \cup {r.module : r \in Requests}
    BY DEF DaemonInv, EndsOK, TypeOK
  <2>2. q # "sendList" /\ q # "recvList"
    BY DEF Opening
  <2> QED
    BY <2>1, <2>2, OpeningStep, Sides
<1>2. /\ pc'["client"] = q /\ pc'["server"] = pc["server"] /\ result' = result
      /\ q \notin InTransfer /\ q \notin {"close", "end"}
      /\ pc["client"] \notin {"close", "end"}
  BY <1>1, GotoFacts, Sides DEF Pcs, Opening, InTransfer, SenderPcs, ReceiverPcs
<1>3. ServerAt'
  BY <1>2 DEF DaemonInv, ServerAt, Live, Authenticated, Refused
<1>4. ClientAt'
  BY <1>2 DEF ClientAt
<1>5. Together'
  BY <1>2 DEF Together, Live
<1>6. Refusal'
  BY <1>2 DEF Refusal, Live
<1>7. Hears'
  <2>1. CASE Live("server")
    BY <2>1, <1>1, <1>2, <1>5, TogetherHears DEF Live
  <2>2. CASE ~Live("server")
    <3>1. ServerHears'
      BY <2>2, <1>2 DEF ServerHears, Live, Opening
    <3>2. TransferHears'
      BY <2>2, <1>2 DEF TransferHears, Live, InTransfer, SenderPcs, ReceiverPcs, Sending, Receiving, Peer
    <3> QED
      BY <3>1, <3>2 DEF Hears
  <2> QED
    BY <2>1, <2>2
<1> QED
  BY <1>1, <1>3, <1>4, <1>5, <1>6, <1>7 DEF DaemonInv

\* The server goes on, before the transfer.
Unanswered == {"greet", "peer", "select", "auth", "verify", "authOk", "direct", "refuse"}
LEMMA ServerMoves ==
  ASSUME DaemonInv, pc["server"] \in Opening["server"],
         NEW q \in Opening["server"], Goto("server", q),
         UNCHANGED <<request, transfer>>, listed' \in Nat, WiresOK',
         selected' \in DOMAIN Config \cup {"", "#list"} \cup {r.module : r \in Requests},
         direction' \in {"none", "get", "put"}, dryRun' \in [Side -> BOOLEAN],
         direction # "none" => UNCHANGED <<selected, direction>>,
         dryRun'["client"] = dryRun["client"],
         q \in Unanswered \cup {"refuseSent"} => pc["server"] \in Unanswered,
         ServerAt', ServerHears', Live("client") => Where'
  PROVE  DaemonInv'
<1>1. EndsOK' /\ TypeOK
  BY OpeningStep, Sides DEF DaemonInv, EndsOK, Opening
<1>2. /\ pc'["server"] = q /\ pc'["client"] = pc["client"] /\ result' = result
      /\ q \notin InTransfer /\ q \notin {"close", "end"}
      /\ pc["server"] \notin {"close", "end"}
  BY <1>1, GotoFacts, Sides DEF Pcs, Opening, InTransfer, SenderPcs, ReceiverPcs
<1>3. ClientAt'
  BY <1>2 DEF DaemonInv, ClientAt
<1>4. Together'
  BY <1>2 DEF Together, Live
<1>5. Refusal'
  BY <1>2, Sides DEF DaemonInv, EndsOK, Results, Refusal, Live, Unanswered
<1>6. Hears'
  <2>1. CASE Live("client")
    BY <2>1, <1>1, <1>2, <1>4, TogetherHears DEF Live
  <2>2. CASE ~Live("client")
    <3>1. ClientHears'
      BY <2>2, <1>2 DEF ClientHears, Live
    <3>2. TransferHears'
      BY <2>2, <1>2 DEF TransferHears, Live, InTransfer, SenderPcs, ReceiverPcs, Sending, Receiving, Peer
    <3> QED
      BY <3>1, <3>2 DEF Hears
  <2> QED
    BY <2>1, <2>2
<1> QED
  BY <1>1, <1>3, <1>4, <1>5, <1>6 DEF DaemonInv

-----------------------------------------------------------------------------
(* The client. *)

\* What a client that is at work can take for granted.
LEMMA ClientFacts ==
  ASSUME DaemonInv, Live("client")
  PROVE  /\ TypeOK /\ listed \in Nat /\ result["client"] = "none" /\ wire["client"] \in Seq(Message)
         /\ ClientHears /\ TransferHears
         /\ n \in [Side -> Nat] /\ f \in [Side -> Nat]
         /\ Live("server") => Where
         /\ pc["client"] \notin {"auth", "ack"} \/ wire["client"] # <<Error>> => result["server"] # "refused"
BY Sides DEF DaemonInv, EndsOK, TypeOK, Results, Hears, Together, Refusal

\* A client says something before the transfer: it goes on, or is cut off.
LEMMA ClientSays ==
  ASSUME DaemonInv, pc["client"] \in {"greetBack", "choose", "respond", "direct"},
         NEW q \in Opening["client"], NEW m \in Message, Say("client", m, q),
         UNCHANGED <<request, told, transfer, listed>>,
         q = "listing" => Lines(<<>>),
         ASSUME pc'["client"] = q, pc'["server"] = pc["server"], wire'["client"] = <<>>,
                wire'["server"] = Append(wire["server"], m), Live("server")
         PROVE  Where'
  PROVE  DaemonInv'
<1>1. Live("client")
  BY DEF Live
<1>2. /\ TypeOK /\ listed \in Nat /\ ClientHears /\ result["server"] # "refused"
      /\ n \in [Side -> Nat] /\ f \in [Side -> Nat]
  BY <1>1, ClientFacts
<1>3. wire["client"] = <<>>
  BY <1>2 DEF ClientHears
<1>4. q \in Pcs("client") /\ pc["client"] \in Opening["client"]
  BY DEF Pcs, Opening
<1>5. /\ WiresOK'
      /\ \/ /\ Goto("client", q) /\ wire'["client"] = <<>>
            /\ Live("server") => wire'["server"] = Append(wire["server"], m)
         \/ pc["server"] = "end" /\ Leave("client", "cut") /\ wire' = wire
  <2>1. /\ wire' \in [Side -> Seq(Message)] /\ \A y \in Side : Len(wire'[y]) <= Capacity
        /\ \/ /\ Goto("client", q) /\ wire'["client"] = wire["client"]
              /\ wire'["server"] = Append(wire["server"], m)
           \/ pc["server"] = "end" /\ Goto("client", q) /\ Lost("client")
           \/ pc["server"] = "end" /\ Leave("client", "cut") /\ wire' = wire
    <3>1. "client" \in Side /\ Peer("client") = "server"
      BY Sides
    <3>2. /\ wire' \in [Side -> Seq(Message)] /\ \A y \in Side : Len(wire'[y]) <= Capacity
          /\ \/ /\ Goto("client", q) /\ pc[Peer("client")] # "end" /\ wire'["client"] = wire["client"]
                /\ wire'[Peer("client")] = Append(wire[Peer("client")], m)
             \/ pc[Peer("client")] = "end" /\ Goto("client", q) /\ Lost("client")
             \/ pc[Peer("client")] = "end" /\ Leave("client", "cut") /\ wire' = wire
      BY ONLY <1>2, <1>4, <3>1, SayFacts, Say("client", m, q), m \in Message
    <3> QED
      BY <3>1, <3>2, Zenon
  <2>2. Lost("client") => wire'["client"] = <<>>
    BY <1>3 DEF Lost
  <2>3. pc["server"] = "end" => ~Live("server")
    BY DEF Live
  <2> QED
    BY <1>3, <2>1, <2>2, <2>3, Zenon DEF WiresOK
<1>6. CASE /\ Goto("client", q) /\ wire'["client"] = <<>>
           /\ Live("server") => wire'["server"] = Append(wire["server"], m)
  <2>1. pc'["client"] = q /\ pc'["server"] = pc["server"]
    BY <1>2, <1>4, <1>6, GotoFacts, Sides
  <2>2. ClientHears'
    BY <1>6, <2>1, NoLines DEF ClientHears
  <2>3. Live("server") => Where'
    BY <1>6, <2>1
  <2>4. UNCHANGED <<selected, direction, dryRun>>
    BY DEF told
  <2> QED
    BY <1>2, <1>4, <1>5, <1>6, <2>2, <2>3, <2>4, ClientMoves
<1>7. CASE pc["server"] = "end" /\ Leave("client", "cut") /\ wire' = wire
  BY <1>1, <1>2, <1>7, CutStep, Sides DEF transfer
<1> QED
  BY <1>5, <1>6, <1>7

\* A client hears something before the transfer and goes on.
LEMMA ClientHeard ==
  ASSUME DaemonInv, pc["client"] \in {"greet", "listing", "auth", "ack"},
         NEW q \in Opening["client"], Goto("client", q), Hear("client"),
         UNCHANGED <<request, told, transfer, listed>>,
         pc["client"] \in {"auth", "ack"} => Heard("client") # Error,
         q = "listing" => Lines(wire'["client"]),
         q # "listing" => wire'["client"] = <<>>,
         ASSUME pc'["client"] = q, pc'["server"] = pc["server"], wire'["server"] = wire["server"],
                Live("server")
         PROVE  Where'
  PROVE  DaemonInv'
<1>1. Live("client")
  BY DEF Live
<1>2. TypeOK /\ listed \in Nat
  BY <1>1, ClientFacts
<1>3. WiresOK' /\ wire'["server"] = wire["server"]
  BY <1>2, HearFacts, Sides DEF WiresOK
<1>4. q \in Pcs("client") /\ pc["client"] \in Opening["client"]
  BY DEF Pcs, Opening
<1>5. pc'["client"] = q /\ pc'["server"] = pc["server"]
  BY <1>2, <1>4, GotoFacts, Sides
<1>6. result["server"] # "refused"
  BY <1>1, ClientFacts, Streams DEF Heard
<1>7. ClientHears'
  BY <1>5 DEF ClientHears
<1>8. Live("server") => Where'
  BY <1>3, <1>5
<1>9. UNCHANGED <<selected, direction, dryRun>>
  BY DEF told
<1> QED
  BY <1>2, <1>3, <1>4, <1>6, <1>7, <1>8, <1>9, ClientMoves

\* DialGreeting: the greetings, and the module asked for.
LEMMA ClientGreetingStep == DaemonInv /\ ClientGreeting => DaemonInv'
<1> SUFFICES ASSUME DaemonInv, ClientGreeting
             PROVE  DaemonInv'
  OBVIOUS
<1> USE Sides
<1>1. UNCHANGED <<request, told, transfer, listed>>
  BY DEF ClientGreeting
<1>2. Greeting' = Greeting /\ ModuleLine' = ModuleLine
  BY <1>1 DEF Greeting, ModuleLine
<1>3. CASE At("client", "greet") /\ Hear("client")
           /\ IF Heard("client").kind = "greeting" THEN Goto("client", "greetBack")
              ELSE Leave("client", "protocol")
  <2>1. pc["client"] = "greet" /\ Live("client")
    BY <1>3 DEF At, Live
  <2>2. wire["client"] = <<Greeting>>
    BY <1>3, <2>1, ClientFacts DEF Hear, ClientHears
  <2>3. Heard("client") = Greeting /\ wire'["client"] = <<>>
    BY <1>3, <2>1, <2>2, ClientFacts, HearShort
  <2>4. Goto("client", "greetBack")
    BY <1>3, <2>3, Kinds
  <2>5. ASSUME pc'["client"] = "greetBack", pc'["server"] = pc["server"],
               wire'["server"] = wire["server"], Live("server")
        PROVE  Where'
    <3>1. pc["server"] = "peer" /\ wire["server"] = <<>>
      BY <2>1, <2>2, <2>5, ClientFacts, Streams
         DEF Where, Meeting, Listing, Refusing, Authenticating, Directing, Starting, Exchanging, Now, Between
    <3> QED
      BY <2>3, <2>5, <3>1 DEF Where, Meeting, Now
  <2> QED
    BY <1>1, <1>3, <2>1, <2>3, <2>4, <2>5, ClientHeard DEF Opening
<1>4. CASE At("client", "greetBack") /\ Say("client", Msg("greeting", ""), "choose")
  <2>1. pc["client"] = "greetBack" /\ Live("client") /\ Say("client", Greeting, "choose")
    BY <1>4 DEF At, Live, Greeting
  <2>2. ASSUME pc'["client"] = "choose", pc'["server"] = pc["server"], wire'["client"] = <<>>,
               wire'["server"] = Append(wire["server"], Greeting), Live("server")
        PROVE  Where'
    <3>1. pc["server"] = "peer" /\ wire["server"] = <<>>
      BY <2>1, <2>2, ClientFacts
         DEF Where, Meeting, Listing, Refusing, Authenticating, Directing, Starting, Exchanging, Now, Between
    <3> QED
      BY <1>2, <2>2, <3>1, Streams DEF Where, Meeting, Now
  <2> QED
    BY <1>1, <2>1, <2>2, ClientSays, ClientFacts, Messages DEF Opening
<1>5. CASE /\ At("client", "choose")
           /\ \E next \in {"listing", "auth"} :
                /\ next = "listing" => request.module = "#list"
                /\ Say("client", Msg("module", request.module), next)
  <2>1. PICK q \in {"listing", "auth"} : /\ q = "listing" => request.module = "#list"
                                        /\ Say("client", Msg("module", request.module), q)
    BY <1>5
  <2>2. pc["client"] = "choose" /\ Live("client") /\ Say("client", ModuleLine, q)
    BY <1>5, <2>1 DEF At, Live, ModuleLine
  <2>3. ASSUME pc'["client"] = q, pc'["server"] = pc["server"], wire'["client"] = <<>>,
               wire'["server"] = Append(wire["server"], ModuleLine), Live("server")
        PROVE  Where'
    <3>1. \/ pc["server"] = "peer" /\ wire["server"] = <<Greeting>>
          \/ pc["server"] = "select" /\ wire["server"] = <<>>
      BY <2>2, <2>3, ClientFacts
         DEF Where, Meeting, Listing, Refusing, Authenticating, Directing, Starting, Exchanging, Now, Between
    <3>2. \/ pc'["server"] = "peer" /\ wire'["server"] = <<Greeting, ModuleLine>>'
          \/ pc'["server"] = "select" /\ wire'["server"] = <<ModuleLine>>'
      <4>1. CASE pc["server"] = "peer" /\ wire["server"] = <<Greeting>>
        <5>1. Append(<<Greeting>>, ModuleLine) = <<Greeting, ModuleLine>>
          BY Streams
        <5> QED
          BY <1>2, <2>3, <4>1, <5>1
      <4>2. CASE pc["server"] = "select" /\ wire["server"] = <<>>
        <5>1. Append(<<>>, ModuleLine) = <<ModuleLine>>
          BY Streams
        <5> QED
          BY <1>2, <2>3, <4>2, <5>1
      <4> QED
        BY <3>1, <4>1, <4>2
    <3>3. q = "listing" => request'.module = "#list"
      BY <1>1, <2>1
    <3> QED
      BY <2>3, <3>2, <3>3 DEF Where, Meeting, Now
  <2> QED
    BY <1>1, <2>2, <2>3, ClientSays, ClientFacts, Messages, NoLines DEF Opening
<1> QED
  BY <1>3, <1>4, <1>5 DEF ClientGreeting

\* A listing: its lines, until its end.
LEMMA ClientListingStep == DaemonInv /\ ClientListing => DaemonInv'
<1> SUFFICES ASSUME DaemonInv, ClientListing
             PROVE  DaemonInv'
  OBVIOUS
<1> USE Sides
<1> DEFINE w == wire["client"]
<1>1. /\ UNCHANGED <<request, told, transfer, listed>> /\ Hear("client")
      /\ pc["client"] = "listing" /\ Live("client")
  BY DEF ClientListing, At, Live
<1>2. /\ TypeOK /\ Lines(w) /\ w \in Seq(Message) /\ w # <<>> /\ listed \in Nat
      /\ WiresOK' /\ wire'["client"] = Tail(w) /\ wire'["server"] = wire["server"]
      /\ n \in [Side -> Nat] /\ f \in [Side -> Nat]
  <2>1. /\ TypeOK /\ Lines(w) /\ w \in Seq(Message) /\ listed \in Nat
        /\ n \in [Side -> Nat] /\ f \in [Side -> Nat]
    BY <1>1, ClientFacts DEF ClientHears
  <2>2. Peer("client") = "server"
    BY DEF Peer
  <2>3. /\ WiresOK' /\ w # <<>> /\ wire'["client"] = Tail(w)
        /\ wire'[Peer("client")] = wire[Peer("client")]
    BY <1>1, <2>1, HearFacts DEF WiresOK
  <2> QED
    BY <2>1, <2>2, <2>3
<1>3. /\ Heard("client") \in {Msg("line", ""), Msg("exit", "")} /\ Lines(Tail(w))
      /\ OnlyLines(w) => OnlyLines(Tail(w))
  BY <1>2, TailOfLines DEF Heard
<1>4. CASE Goto("client", "listing")
  <2>1. ASSUME pc'["client"] = "listing", pc'["server"] = pc["server"],
               wire'["server"] = wire["server"], Live("server")
        PROVE  Where'
    <3>1. \/ \E c \in {"listing"} : /\ request.module = "#list"
                                  /\ \/ Now(c, "peer", <<>>, <<Greeting, ModuleLine>>)
                                     \/ Now(c, "select", <<>>, <<ModuleLine>>)
          \/ Listing
      BY <1>1, <2>1, ClientFacts
         DEF Where, Meeting, Listing, Refusing, Authenticating, Directing, Starting, Exchanging, Now, Between
    <3>2. Listing
      BY <1>2, <3>1 DEF Now
    <3>3. Listing'
      BY <1>1, <1>2, <1>3, <2>1, <3>2 DEF Listing
    <3> QED
      BY <3>3 DEF Where
  <2> QED
    BY <1>1, <1>2, <1>3, <1>4, <2>1, ClientHeard DEF Opening
<1>5. CASE Leave("client", "listed")
  <2>1. Refusal'
    <3>1. result["server"] # "refused" /\ result["client"] = "none" /\ result \in [Side -> Outcome]
      BY <1>1, ClientFacts DEF TypeOK, Outcome
    <3>2. Live("server") => pc["server"] \notin Unanswered \cup {"refuseSent"}
      <4> SUFFICES ASSUME Live("server")
                   PROVE  pc["server"] \notin Unanswered \cup {"refuseSent"}
        OBVIOUS
      <4>1. Listing
        BY <1>1, <1>2, ClientFacts
           DEF Where, Meeting, Listing, Refusing, Authenticating, Directing, Starting, Exchanging, Now, Between
      <4> QED
        BY <4>1 DEF Listing, Unanswered
    <3>3. pc'["server"] = pc["server"] /\ result'["server"] = result["server"]
      BY <1>2, <1>5 DEF Leave, TypeOK
    <3> QED
      BY <3>1, <3>2, <3>3 DEF Refusal, Live, Unanswered
  <2>2. UNCHANGED <<written, n, f, listed, request, told>>
    BY <1>1 DEF transfer
  <2> QED
    BY <1>1, <1>2, <1>5, <2>1, <2>2, LeaveStep DEF Outcome
<1>6. Goto("client", "listing") \/ Leave("client", "listed")
  <2>1. CASE Heard("client") = Msg("line", "")
    <3>1. UNCHANGED <<pc, result>>
      BY <2>1, Kinds DEF ClientListing
    <3>2. pc' = [pc EXCEPT !["client"] = "listing"]
      BY <1>1, <1>2, <3>1 DEF TypeOK
    <3> QED
      BY <3>1, <3>2 DEF Goto
  <2>2. CASE Heard("client") = Msg("exit", "")
    BY <2>2, Kinds DEF ClientListing
  <2> QED
    BY <1>3, <2>1, <2>2
<1> QED
  BY <1>4, <1>5, <1>6

\* A refusal is read: the client leaves knowing.
LEMMA ClientRefused ==
  ASSUME DaemonInv, pc["client"] \in {"auth", "ack"}, Hear("client"), wire["client"] = <<Error>>,
         Leave("client", "refused"), UNCHANGED <<request, selected, direction, transfer, listed>>,
         dryRun' \in [Side -> BOOLEAN], dryRun'["server"] = dryRun["server"]
  PROVE  DaemonInv'
<1> USE Sides
<1>1. Live("client")
  BY DEF Live
<1>2. /\ TypeOK /\ listed \in Nat /\ n \in [Side -> Nat] /\ f \in [Side -> Nat]
      /\ result["client"] = "none" /\ result \in [Side -> Outcome]
  BY <1>1, ClientFacts DEF TypeOK, Outcome
<1>3. WiresOK' /\ wire'["server"] = wire["server"]
  BY <1>2, HearFacts DEF WiresOK
<1>4. /\ pc'["server"] = pc["server"] /\ result'["server"] = result["server"]
      /\ result'["client"] = "refused" /\ pc'["client"] = "close"
  BY <1>2 DEF Leave, TypeOK
<1>5. pc["server"] \notin Unanswered
  <2>1. CASE Live("server")
    <3>1. Where
      BY <1>1, <2>1, ClientFacts
    <3>2. <<Error>> # <<>> /\ <<Error>> # <<Greeting>> /\ <<Error>> # <<Ok>> /\ <<Error>> # <<Challenge>>
      <4>1. Error # Greeting /\ Error # Ok /\ Error # Challenge
        BY Kinds
      <4> QED
        BY <4>1
    <3> QED
      BY <3>1, <3>2
         DEF Where, Meeting, Listing, Refusing, Authenticating, Directing, Starting, Exchanging, Now, Between,
             Unanswered, Sending, Receiving
  <2>2. CASE ~Live("server")
    BY <2>2 DEF Live, Unanswered
  <2> QED
    BY <2>1, <2>2
<1>6. Refusal'
  BY <1>4, <1>5 DEF Refusal, Live, Unanswered
<1>7. UNCHANGED <<written, n, f, listed, request, selected, direction>>
  BY DEF transfer
<1> QED
  BY <1>1, <1>2, <1>3, <1>6, <1>7, Departure DEF Outcome

\* DialAuth: the challenge is answered, the answer awaited.
LEMMA ClientAuthStep == DaemonInv /\ ClientAuth => DaemonInv'
<1> SUFFICES ASSUME DaemonInv, ClientAuth
             PROVE  DaemonInv'
  OBVIOUS
<1> USE Sides
<1>1. UNCHANGED <<request, told, transfer, listed>>
  BY DEF ClientAuth
<1>2. /\ Response' = Response /\ Challenge # Ok /\ Challenge # Error /\ Ok # Error
      /\ ~Lines(<<Challenge>>) /\ ~Lines(<<Ok>>)
  BY <1>1, Kinds, NotLines DEF Response
<1>3. CASE /\ At("client", "auth") /\ Hear("client")
           /\ CASE Heard("client").kind = "authreqd" -> Goto("client", "respond")
                [] Heard("client").kind = "ok" -> Goto("client", "direct")
                [] Heard("client").kind = "error" -> Leave("client", "refused")
                [] OTHER -> Leave("client", "protocol")
  <2>1. pc["client"] = "auth" /\ Live("client")
    BY <1>3 DEF At, Live
  <2>2. /\ \/ wire["client"] \in {<<Challenge>>, <<Ok>>, <<Error>>}
           \/ request.module = "#list" /\ Lines(wire["client"])
        /\ TypeOK /\ wire["client"] # <<>>
    BY <1>3, <2>1, ClientFacts DEF Hear, ClientHears
  <2>3. CASE wire["client"] = <<Challenge>>
    <3>1. Heard("client") = Challenge /\ wire'["client"] = <<>>
      BY <1>3, <2>2, <2>3, HearShort
    <3>2. Goto("client", "respond")
      BY <1>3, <3>1, Kinds
    <3>3. ASSUME pc'["client"] = "respond", pc'["server"] = pc["server"],
                 wire'["server"] = wire["server"], Live("server")
          PROVE  Where'
      <4>1. pc["server"] = "verify" /\ wire["server"] = <<>>
        BY <1>2, <2>1, <2>3, <3>3, ClientFacts
           DEF Where, Meeting, Listing, Refusing, Authenticating, Directing, Starting, Exchanging, Now, Between
      <4> QED
        BY <3>1, <3>3, <4>1 DEF Where, Authenticating, Now
    <3> QED
      BY <1>1, <1>2, <1>3, <2>1, <3>1, <3>2, <3>3, ClientHeard DEF Opening
  <2>4. CASE wire["client"] = <<Ok>>
    <3>1. Heard("client") = Ok /\ wire'["client"] = <<>>
      BY <1>3, <2>2, <2>4, HearShort
    <3>2. Goto("client", "direct")
      BY <1>3, <3>1, Kinds
    <3>3. ASSUME pc'["client"] = "direct", pc'["server"] = pc["server"],
                 wire'["server"] = wire["server"], Live("server")
          PROVE  Where'
      <4>1. pc["server"] = "direct" /\ wire["server"] = <<>>
        BY <1>2, <2>1, <2>4, <3>3, ClientFacts
           DEF Where, Meeting, Listing, Refusing, Authenticating, Directing, Starting, Exchanging, Now, Between
      <4> QED
        BY <3>1, <3>3, <4>1 DEF Where, Directing, Now
    <3> QED
      BY <1>1, <1>2, <1>3, <2>1, <3>1, <3>2, <3>3, ClientHeard DEF Opening
  <2>5. CASE wire["client"] = <<Error>>
    <3>1. Heard("client") = Error
      BY <1>3, <2>2, <2>5, HearShort
    <3>2. Leave("client", "refused")
      BY <1>3, <3>1, Kinds
    <3>3. UNCHANGED <<selected, direction, dryRun>> /\ dryRun \in [Side -> BOOLEAN]
      BY <1>1, <2>2 DEF told, TypeOK
    <3> QED
      BY <1>1, <1>3, <2>1, <2>5, <3>2, <3>3, ClientRefused
  <2>6. CASE request.module = "#list" /\ Lines(wire["client"])
    <3>1. /\ wire["client"] \in Seq(Message) /\ listed \in Nat
          /\ n \in [Side -> Nat] /\ f \in [Side -> Nat]
      BY <2>1, ClientFacts
    <3>2. Heard("client") \in {Msg("line", ""), Msg("exit", "")}
      BY <2>2, <2>6, <3>1, TailOfLines DEF Heard
    <3>3. Leave("client", "protocol")
      BY <1>3, <3>2, Kinds
    <3>4. WiresOK' /\ wire'["server"] = wire["server"]
      BY <1>3, <2>2, HearFacts DEF WiresOK
    <3>5. wire["client"] \notin {<<>>, <<Challenge>>, <<Ok>>, <<Error>>}
      BY <2>2, <2>6, NotLines
    <3>6. result["server"] # "refused" /\ result["client"] = "none" /\ result \in [Side -> Outcome]
      BY <2>1, <2>2, <3>5, ClientFacts DEF TypeOK, Outcome
    <3>7. Live("server") => pc["server"] \notin Unanswered \cup {"refuseSent"}
      <4> SUFFICES ASSUME Live("server")
                   PROVE  pc["server"] \notin Unanswered \cup {"refuseSent"}
        OBVIOUS
      <4>1. Listing
        BY <2>1, <3>5, ClientFacts
           DEF Where, Meeting, Listing, Refusing, Authenticating, Directing, Starting, Exchanging, Now, Between,
               Sending, Receiving
      <4> QED
        BY <4>1 DEF Listing, Unanswered
    <3>8. Refusal'
      <4>1. pc'["server"] = pc["server"] /\ result'["server"] = result["server"]
        BY <2>2, <3>3 DEF Leave, TypeOK
      <4> QED
        BY <3>6, <3>7, <4>1 DEF Refusal, Live, Unanswered
    <3>9. UNCHANGED <<written, n, f, listed, request, told>>
      BY <1>1 DEF transfer
    <3> QED
      BY <2>1, <2>6, <3>1, <3>3, <3>4, <3>8, <3>9, LeaveStep DEF Outcome
  <2> QED
    BY <2>2, <2>3, <2>4, <2>5, <2>6
<1>4. CASE /\ At("client", "respond")
           /\ Say("client", Msg("response", <<request.user, request.right>>), "auth")
  <2>1. pc["client"] = "respond" /\ Live("client") /\ Say("client", Response, "auth")
    BY <1>4 DEF At, Live, Response
  <2>2. ASSUME pc'["client"] = "auth", pc'["server"] = pc["server"], wire'["client"] = <<>>,
               wire'["server"] = Append(wire["server"], Response), Live("server")
        PROVE  Where'
    <3>1. pc["server"] = "verify" /\ wire["server"] = <<>>
      BY <2>1, <2>2, ClientFacts
         DEF Where, Meeting, Listing, Refusing, Authenticating, Directing, Starting, Exchanging, Now, Between
    <3>2. wire'["server"] = <<Response>>'
      BY <1>2, <2>2, <3>1, Streams
    <3> QED
      BY <2>2, <3>1, <3>2 DEF Where, Authenticating, Now
  <2> QED
    BY <1>1, <2>1, <2>2, ClientSays, ClientFacts, Messages DEF Opening
<1> QED
  BY <1>3, <1>4 DEF ClientAuth

\* DialModule: the direction, its acknowledgement, and a side of the transfer.
LEMMA ClientModuleStep == DaemonInv /\ ClientModule => DaemonInv'
<1> SUFFICES ASSUME DaemonInv, ClientModule
             PROVE  DaemonInv'
  OBVIOUS
<1> USE Sides
<1>1. UNCHANGED <<request, selected, direction, transfer, listed>>
  BY DEF ClientModule
<1>2. /\ Direction' = Direction /\ List' = List /\ Sending' = Sending /\ Receiving' = Receiving
      /\ Ok # Error
  BY <1>1, Kinds DEF Direction, List, Sending, Receiving, Files
<1>3. CASE /\ At("client", "direct") /\ dryRun' = dryRun
           /\ Say("client", Msg("direction", <<request.direction,
                                               request.direction = "put" /\ request.dryRun>>), "ack")
  <2>1. pc["client"] = "direct" /\ Live("client") /\ Say("client", Direction, "ack")
    BY <1>3 DEF At, Live, Direction
  <2>2. ASSUME pc'["client"] = "ack", pc'["server"] = pc["server"], wire'["client"] = <<>>,
               wire'["server"] = Append(wire["server"], Direction), Live("server")
        PROVE  Where'
    <3>1. pc["server"] = "direct" /\ wire["server"] = <<>>
      BY <2>1, <2>2, ClientFacts
         DEF Where, Meeting, Listing, Refusing, Authenticating, Directing, Starting, Exchanging, Now, Between
    <3>2. wire'["server"] = <<Direction>>'
      BY <1>2, <2>2, <3>1, Streams
    <3> QED
      BY <2>2, <3>1, <3>2 DEF Where, Directing, Now
  <2>3. UNCHANGED told
    BY <1>1, <1>3 DEF told
  <2> QED
    BY <1>1, <2>1, <2>2, <2>3, ClientSays, ClientFacts, Messages DEF Opening
<1>4. CASE /\ At("client", "ack") /\ Hear("client")
           /\ IF Heard("client").kind # "ok" THEN Leave("client", "refused")
              ELSE Goto("client", IF request.direction = "put" THEN "sendList" ELSE "recvList")
           /\ dryRun' = [dryRun EXCEPT !["client"] = request.dryRun]
  <2> DEFINE q == IF request.direction = "put" THEN "sendList" ELSE "recvList"
  <2>1. pc["client"] = "ack" /\ Live("client")
    BY <1>4 DEF At, Live
  <2>2. /\ TypeOK /\ listed \in Nat
        /\ \/ wire["client"] = <<Error>>
           \/ wire["client"] = <<Ok>> /\ direction # "none"
           \/ wire["client"] = <<Ok, List>> /\ direction # "none" /\ Sending = "server"
    BY <1>4, <2>1, ClientFacts DEF Hear, ClientHears
  <2>3. /\ dryRun' \in [Side -> BOOLEAN] /\ dryRun'["server"] = dryRun["server"]
        /\ dryRun'["client"] = request.dryRun
    BY <1>4, <2>2, RequestFacts DEF TypeOK
  <2>4. CASE wire["client"] = <<Error>>
    <3>1. Heard("client") = Error
      BY <1>4, <2>2, <2>4, HearShort
    <3>2. Leave("client", "refused")
      BY <1>4, <3>1, Kinds
    <3> QED
      BY <1>1, <1>4, <2>1, <2>3, <2>4, <3>2, ClientRefused
  <2>5. CASE /\ wire["client"] \in {<<Ok>>, <<Ok, List>>} /\ direction # "none"
             /\ wire["client"] = <<Ok, List>> => Sending = "server"
    <3>1. /\ Heard("client") = Ok /\ WiresOK' /\ wire'["server"] = wire["server"]
          /\ wire["client"] = <<Ok>> => wire'["client"] = <<>>
          /\ wire["client"] = <<Ok, List>> => wire'["client"] = <<List>>
      BY <1>4, <2>2, <2>5, HearShort, HearFacts DEF WiresOK
    <3>2. /\ Goto("client", q) /\ q \in {"sendList", "recvList"}
          /\ q = "sendList" <=> Sending = "client"
      BY <1>4, <2>2, <3>1, Kinds, RequestFacts
    <3>3. q = "recvList" <=> Receiving = "client"
      BY <3>2 DEF Side
    <3> HIDE DEF q
    <3>4. EndsOK'
      <4>1. /\ selected \in DOMAIN Config \cup {"", "#list"} \cup {r.module : r \in Requests}
            /\ direction \in {"none", "get", "put"} /\ pc["client"] \in Opening["client"]
        BY <2>1, <2>2 DEF TypeOK, Opening
      <4> QED
        BY <1>1, <2>2, <2>3, <3>1, <3>2, <3>3, <4>1, OpeningStep
    <3>5. pc'["client"] = q /\ pc'["server"] = pc["server"] /\ result' = result
      <4>1. q \in Pcs("client")
        BY <3>2 DEF Pcs, SenderPcs, ReceiverPcs
      <4> QED
        BY <2>2, <3>2, <4>1, GotoFacts
    <3>6. ServerAt'
      BY <1>1, <1>2, <2>3, <3>5 DEF DaemonInv, ServerAt, Live, Authenticated, Refused
    <3>7. ClientAt'
      BY <1>1, <2>3, <2>5 DEF ClientAt
    <3>8. Together'
      <4> SUFFICES ASSUME Live("server")
                   PROVE  Where'
        BY <3>5 DEF Together, Live
      <4>1. Where /\ <<Ok, List>> # <<Ok>> /\ <<Ok>> # <<Error>> /\ <<Ok, List>> # <<Error>>
            /\ <<Ok>> # <<>> /\ <<Ok, List>> # <<>>
        BY <1>2, <2>1, ClientFacts
      <4>2. \/ wire["client"] = <<Ok>> /\ Sending = "client" /\ Between("ack", "recvList", <<Ok>>, <<>>)
            \/ wire["client"] = <<Ok>> /\ Sending = "server" /\ Between("sendList", "ack", <<>>, <<Ok>>)
            \/ /\ wire["client"] = <<Ok, List>> /\ Sending = "server" /\ f[Sending] = 1
               /\ \E s \in {"turn", "waitDone"} : Between(s, "ack", <<>>, <<Ok, List>>)
        BY <2>1, <2>5, <4>1
           DEF Where, Meeting, Listing, Refusing, Authenticating, Directing, Starting, Exchanging, Now, Between,
               Receiving
      <4>3. Starting'
        <5>1. CASE wire["client"] = <<Ok>>
          BY <1>2, <3>1, <3>2, <3>3, <3>5, <4>1, <4>2, <5>1 DEF Starting, Between, Side
        <5>2. CASE wire["client"] = <<Ok, List>>
          BY <1>1, <1>2, <3>1, <3>2, <3>3, <3>5, <4>1, <4>2, <5>2 DEF Starting, Between, Side, transfer
        <5> QED
          BY <2>5, <5>1, <5>2
      <4> QED
        BY <1>1, <2>5, <4>3 DEF Where
    <3>9. Refusal'
      <4>1. result["server"] # "refused"
        BY <1>2, <2>1, <2>5, ClientFacts
      <4> QED
        BY <3>2, <3>5, <4>1 DEF Refusal, Live
    <3>10. Hears'
      <4>1. CASE Live("server")
        BY <3>2, <3>4, <3>5, <3>8, <4>1, TogetherHears DEF Live
      <4>2. CASE ~Live("server")
        <5>1. ServerHears' /\ ClientHears'
          BY <3>2, <3>5, <4>2 DEF ServerHears, ClientHears, Live, Opening
        <5>2. TransferHears'
          BY <1>2, <2>5, <3>1, <3>2, <3>3, <3>5, <4>2 DEF TransferHears, Live
        <5> QED
          BY <5>1, <5>2 DEF Hears
      <4> QED
        BY <4>1, <4>2
    <3> QED
      BY <3>4, <3>6, <3>7, <3>8, <3>9, <3>10 DEF DaemonInv
  <2> QED
    BY <2>2, <2>4, <2>5
<1> QED
  BY <1>3, <1>4 DEF ClientModule

-----------------------------------------------------------------------------
(* The server. *)

\* What a server that is at work can take for granted.
LEMMA ServerFacts ==
  ASSUME DaemonInv, Live("server")
  PROVE  /\ TypeOK /\ listed \in Nat /\ result["server"] = "none"
         /\ ServerAt /\ ServerHears /\ TransferHears
         /\ n \in [Side -> Nat] /\ f \in [Side -> Nat] /\ dryRun \in [Side -> BOOLEAN]
         /\ selected \in DOMAIN Config \cup {"", "#list"} \cup {r.module : r \in Requests}
         /\ direction \in {"none", "get", "put"}
         /\ Live("client") => Where
BY Sides DEF DaemonInv, EndsOK, TypeOK, Results, Hears, Together

\* The server says something before the transfer: it goes on, or is cut off.
LEMMA ServerSays ==
  ASSUME DaemonInv, pc["server"] \in {"greet", "list", "auth", "authOk", "refuse"},
         NEW q \in Opening["server"], NEW m \in Message, Say("server", m, q),
         UNCHANGED <<request, told, transfer>>, listed' \in Nat,
         q \in Unanswered \cup {"refuseSent"} => pc["server"] \in Unanswered,
         ASSUME pc'["server"] = q PROVE ServerAt',
         ASSUME pc'["server"] = q, pc'["client"] = pc["client"], wire'["server"] = <<>>,
                wire'["client"] = Append(wire["client"], m), Live("client")
         PROVE  Where'
  PROVE  DaemonInv'
<1>1. Live("server")
  BY DEF Live
<1>2. /\ TypeOK /\ ServerHears /\ dryRun \in [Side -> BOOLEAN]
      /\ selected \in DOMAIN Config \cup {"", "#list"} \cup {r.module : r \in Requests}
      /\ n \in [Side -> Nat] /\ f \in [Side -> Nat] /\ direction \in {"none", "get", "put"}
  BY <1>1, ServerFacts
<1>3. wire["server"] = <<>>
  BY <1>2 DEF ServerHears, Opening
<1>4. q \in Pcs("server") /\ pc["server"] \in Opening["server"]
  BY DEF Pcs, Opening
<1>5. /\ WiresOK'
      /\ \/ /\ Goto("server", q) /\ wire'["server"] = <<>>
            /\ Live("client") => wire'["client"] = Append(wire["client"], m)
         \/ pc["client"] = "end" /\ Leave("server", "cut") /\ wire' = wire
  <2>1. /\ wire' \in [Side -> Seq(Message)] /\ \A y \in Side : Len(wire'[y]) <= Capacity
        /\ \/ /\ Goto("server", q) /\ wire'["server"] = wire["server"]
              /\ wire'["client"] = Append(wire["client"], m)
           \/ pc["client"] = "end" /\ Goto("server", q) /\ Lost("server")
           \/ pc["client"] = "end" /\ Leave("server", "cut") /\ wire' = wire
    <3>1. "server" \in Side /\ Peer("server") = "client"
      BY Sides
    <3>2. /\ wire' \in [Side -> Seq(Message)] /\ \A y \in Side : Len(wire'[y]) <= Capacity
          /\ \/ /\ Goto("server", q) /\ pc[Peer("server")] # "end" /\ wire'["server"] = wire["server"]
                /\ wire'[Peer("server")] = Append(wire[Peer("server")], m)
             \/ pc[Peer("server")] = "end" /\ Goto("server", q) /\ Lost("server")
             \/ pc[Peer("server")] = "end" /\ Leave("server", "cut") /\ wire' = wire
      BY ONLY <1>2, <1>4, <3>1, SayFacts, Say("server", m, q), m \in Message
    <3> QED
      BY <3>1, <3>2, Zenon
  <2>2. Lost("server") => wire'["server"] = <<>>
    BY <1>3 DEF Lost
  <2>3. pc["client"] = "end" => ~Live("client")
    BY DEF Live
  <2> QED
    BY <1>3, <2>1, <2>2, <2>3, Zenon DEF WiresOK
<1>6. CASE /\ Goto("server", q) /\ wire'["server"] = <<>>
           /\ Live("client") => wire'["client"] = Append(wire["client"], m)
  <2>1. pc'["server"] = q /\ pc'["client"] = pc["client"]
    <3>1. "server" \in Side /\ Peer("server") = "client"
      BY Sides
    <3>2. pc'["server"] = q /\ pc'[Peer("server")] = pc[Peer("server")]
      BY ONLY <1>2, <1>4, <1>6, <3>1, GotoFacts
    <3> QED
      BY <3>1, <3>2, Zenon
  <2>2. ServerHears'
    BY <1>6, <2>1 DEF ServerHears
  <2>3. Live("client") => Where'
    BY <1>6, <2>1
  <2>4. UNCHANGED <<selected, direction, dryRun>>
    BY DEF told
  <2>5. ServerAt'
    BY <2>1
  <2> QED
    BY <1>2, <1>4, <1>5, <1>6, <2>2, <2>3, <2>4, <2>5, ServerMoves
<1>7. CASE pc["client"] = "end" /\ Leave("server", "cut") /\ wire' = wire
  BY <1>1, <1>2, <1>7, CutStep, Sides DEF transfer
<1> QED
  BY <1>5, <1>6, <1>7

\* The server hears something before the transfer and goes on.
LEMMA ServerHeard ==
  ASSUME DaemonInv, pc["server"] \in {"peer", "select", "verify", "direct"},
         NEW q \in Opening["server"], Goto("server", q), Hear("server"),
         UNCHANGED <<request, transfer, listed>>,
         selected' \in DOMAIN Config \cup {"", "#list"} \cup {r.module : r \in Requests},
         direction' \in {"none", "get", "put"}, dryRun' \in [Side -> BOOLEAN],
         direction # "none" => UNCHANGED <<selected, direction>>,
         dryRun'["client"] = dryRun["client"],
         q # "refuseSent",
         ASSUME pc'["server"] = q PROVE ServerAt',
         q = "select" => wire'["server"] \in {<<>>, <<ModuleLine>>'},
         q # "select" => wire'["server"] = <<>>,
         ASSUME pc'["server"] = q, pc'["client"] = pc["client"], wire'["client"] = wire["client"],
                Live("client")
         PROVE  Where'
  PROVE  DaemonInv'
<1>1. Live("server")
  BY DEF Live
<1>2. TypeOK /\ listed \in Nat
  BY <1>1, ServerFacts
<1>3. WiresOK' /\ wire'["client"] = wire["client"]
  <2>1. "server" \in Side /\ Peer("server") = "client"
    BY Sides
  <2>2. /\ wire' \in [Side -> Seq(Message)] /\ \A y \in Side : Len(wire'[y]) <= Capacity
        /\ wire'[Peer("server")] = wire[Peer("server")]
    BY ONLY <1>2, <2>1, HearFacts, Hear("server")
  <2> QED
    BY <2>1, <2>2, Zenon DEF WiresOK
<1>4. q \in Pcs("server") /\ pc["server"] \in Opening["server"] /\ pc["server"] \in Unanswered
  BY DEF Pcs, Opening, Unanswered
<1>5. pc'["server"] = q /\ pc'["client"] = pc["client"]
  <2>1. "server" \in Side /\ Peer("server") = "client"
    BY Sides
  <2>2. pc'["server"] = q /\ pc'[Peer("server")] = pc[Peer("server")]
    BY ONLY <1>2, <1>4, <2>1, GotoFacts, Goto("server", q)
  <2> QED
    BY <2>1, <2>2, Zenon
<1>6. ServerAt' /\ ServerHears'
  BY <1>5 DEF ServerHears
<1>7. Live("client") => Where'
  BY <1>3, <1>5
<1> QED
  BY <1>2, <1>3, <1>4, <1>6, <1>7, ServerMoves

\* ServeGreeting: the greetings, and the module looked up.
LEMMA ServerGreetingStep == DaemonInv /\ ServerGreeting => DaemonInv'
<1> SUFFICES ASSUME DaemonInv, ServerGreeting
             PROVE  DaemonInv'
  OBVIOUS
<1> USE Sides
<1>1. UNCHANGED <<request, direction, dryRun, transfer, listed>>
  BY DEF ServerGreeting
<1>2. Greeting' = Greeting /\ ModuleLine' = ModuleLine
  BY <1>1 DEF Greeting, ModuleLine
<1>3. CASE At("server", "greet") /\ Say("server", Msg("greeting", ""), "peer") /\ UNCHANGED selected
  <2>1. pc["server"] = "greet" /\ Live("server") /\ Say("server", Greeting, "peer")
    BY <1>3 DEF At, Live, Greeting
  <2>2. ASSUME pc'["server"] = "peer"
        PROVE  ServerAt'
    BY <1>1, <1>3, <2>1, <2>2, ServerFacts DEF ServerAt, Opening, InTransfer, SenderPcs, ReceiverPcs
  <2>3. ASSUME pc'["server"] = "peer", pc'["client"] = pc["client"], wire'["server"] = <<>>,
               wire'["client"] = Append(wire["client"], Greeting), Live("client")
        PROVE  Where'
    <3>1. pc["client"] = "greet" /\ wire["client"] = <<>>
      BY <2>1, <2>3, ServerFacts
         DEF Where, Meeting, Listing, Refusing, Authenticating, Directing, Starting, Exchanging, Now, Between,
               Sending, Receiving
    <3>2. wire'["client"] = <<Greeting>>'
      BY <1>2, <2>3, <3>1, Streams
    <3> QED
      BY <2>3, <3>1, <3>2 DEF Where, Meeting, Now
  <2>4. UNCHANGED <<request, told, transfer>> /\ listed' \in Nat
    BY <1>1, <1>3, <2>1, ServerFacts DEF told
  <2> QED
    BY <2>1, <2>2, <2>3, <2>4, ServerSays, ServerFacts, Messages DEF Opening, Unanswered
<1>4. CASE /\ At("server", "peer") /\ Hear("server") /\ UNCHANGED selected
           /\ IF Heard("server").kind = "greeting" THEN Goto("server", "select")
              ELSE Leave("server", "protocol")
  <2>1. pc["server"] = "peer" /\ Live("server")
    BY <1>4 DEF At, Live
  <2>2. wire["server"] \in {<<Greeting>>, <<Greeting, ModuleLine>>}
    BY <1>4, <2>1, ServerFacts DEF Hear, ServerHears
  <2>3. /\ Heard("server") = Greeting
        /\ wire["server"] = <<Greeting>> => wire'["server"] = <<>>
        /\ wire["server"] = <<Greeting, ModuleLine>> => wire'["server"] = <<ModuleLine>>
    <3>1. TypeOK /\ "server" \in Side /\ Hear("server")
      BY <1>4, <2>1, ServerFacts
    <3>2. /\ wire["server"] = <<Greeting>> => Heard("server") = Greeting /\ wire'["server"] = <<>>
          /\ wire["server"] = <<Greeting, ModuleLine>> =>
               Heard("server") = Greeting /\ wire'["server"] = <<ModuleLine>>
      BY ONLY <3>1, HearShort
    <3> QED
      BY <2>2, <3>2, Zenon
  <2>4. Goto("server", "select")
    BY <1>4, <2>3, Kinds
  <2>5. ASSUME pc'["server"] = "select"
        PROVE  ServerAt'
    BY <1>1, <1>4, <2>1, <2>5, ServerFacts DEF ServerAt, Opening, InTransfer, SenderPcs, ReceiverPcs
  <2>6. ASSUME pc'["server"] = "select", pc'["client"] = pc["client"],
               wire'["client"] = wire["client"], Live("client")
        PROVE  Where'
    <3>1. /\ wire["client"] = <<>>
          /\ \/ pc["client"] = "choose" /\ wire["server"] = <<Greeting>>
             \/ /\ pc["client"] \in {"listing", "auth"} /\ wire["server"] = <<Greeting, ModuleLine>>
                /\ pc["client"] = "listing" => request.module = "#list"
      <4>1. Meeting
        BY <2>1, <2>6, ServerFacts
           DEF Where, Meeting, Listing, Refusing, Authenticating, Directing, Starting, Exchanging, Now, Between,
               Sending, Receiving
      <4>2. <<Greeting>> # <<Greeting, ModuleLine>> /\ <<Greeting>> # <<>> /\ <<Greeting, ModuleLine>> # <<>>
        OBVIOUS
      <4> QED
        BY <2>1, <2>2, <4>1, <4>2 DEF Meeting, Now
    <3>2. CASE pc["client"] = "choose" /\ wire["server"] = <<Greeting>>
      BY <2>3, <2>6, <3>1, <3>2 DEF Where, Meeting, Now
    <3>3. CASE /\ pc["client"] \in {"listing", "auth"} /\ wire["server"] = <<Greeting, ModuleLine>>
               /\ pc["client"] = "listing" => request.module = "#list"
      BY <1>1, <1>2, <2>3, <2>6, <3>1, <3>3 DEF Where, Meeting, Now
    <3> QED
      BY <3>1, <3>2, <3>3
  <2>7. wire'["server"] \in {<<>>, <<ModuleLine>>'}
    BY <1>2, <2>2, <2>3
  <2> QED
    BY <1>1, <1>4, <2>1, <2>4, <2>5, <2>6, <2>7, ServerHeard, ServerFacts DEF Opening
<1>5. CASE /\ At("server", "select") /\ Hear("server") /\ selected' = Heard("server").val
           /\ IF Heard("server").val = "#list" THEN Goto("server", "list")
              ELSE IF Heard("server").val \in DOMAIN Config THEN Goto("server", "auth")
              ELSE Refuse
  <2>1. pc["server"] = "select" /\ Live("server")
    BY <1>5 DEF At, Live
  <2>2. wire["server"] = <<ModuleLine>> /\ TypeOK
    BY <1>5, <2>1, ServerFacts DEF Hear, ServerHears
  <2>3. Heard("server") = ModuleLine /\ wire'["server"] = <<>>
    BY <1>5, <2>2, HearShort
  <2>4. /\ selected' = request.module
        /\ selected' \in DOMAIN Config \cup {"", "#list"} \cup {r.module : r \in Requests}
    <3>1. selected' = request.module
      BY <1>5, <2>3, Kinds
    <3>2. request \in Requests
      BY <2>2 DEF TypeOK
    <3> QED
      BY <3>1, <3>2
  <2>5. direction = "none" /\ direction \in {"none", "get", "put"} /\ dryRun \in [Side -> BOOLEAN]
    BY <2>1, ServerFacts DEF ServerAt, Opening
  <2>6. ASSUME Live("client")
        PROVE  /\ wire["client"] = <<>> /\ pc["client"] \in {"listing", "auth"}
               /\ pc["client"] = "listing" => request.module = "#list"
    BY <2>1, <2>2, <2>6, Streams, ServerFacts
       DEF Where, Meeting, Listing, Refusing, Authenticating, Directing, Starting, Exchanging, Now, Between,
               Sending, Receiving
  <2>7. CASE request.module = "#list"
    <3>1. Goto("server", "list")
      BY <1>5, <2>3, <2>7, Kinds
    <3>2. ASSUME pc'["server"] = "list"
          PROVE  ServerAt'
      BY <1>1, <2>4, <2>5, <2>7, <3>2 DEF ServerAt, Opening, InTransfer, SenderPcs, ReceiverPcs
    <3>3. ASSUME pc'["server"] = "list", pc'["client"] = pc["client"],
                 wire'["client"] = wire["client"], Live("client")
          PROVE  Where'
      BY <2>3, <2>6, <2>7, <3>3, NoLines, <1>1 DEF Where, Listing
    <3> QED
      BY <1>1, <1>5, <2>1, <2>3, <2>4, <2>5, <3>1, <3>2, <3>3, ServerHeard DEF Opening
  <2>8. CASE request.module # "#list" /\ request.module \in DOMAIN Config
    <3>1. Goto("server", "auth")
      BY <1>5, <2>3, <2>8, Kinds
    <3>2. ASSUME pc'["server"] = "auth"
          PROVE  ServerAt'
      BY <1>1, <2>4, <2>5, <2>8, <3>2 DEF ServerAt, Opening, InTransfer, SenderPcs, ReceiverPcs
    <3>3. ASSUME pc'["server"] = "auth", pc'["client"] = pc["client"],
                 wire'["client"] = wire["client"], Live("client")
          PROVE  Where'
      BY <2>3, <2>6, <2>8, <3>3 DEF Where, Authenticating, Now
    <3> QED
      BY <1>1, <1>5, <2>1, <2>3, <2>4, <2>5, <3>1, <3>2, <3>3, ServerHeard DEF Opening
  <2>9. CASE request.module # "#list" /\ request.module \notin DOMAIN Config
    <3>1. Goto("server", "refuse")
      BY <1>5, <2>3, <2>9, Kinds DEF Refuse
    <3>2. ASSUME pc'["server"] = "refuse"
          PROVE  ServerAt'
      BY <1>1, <2>4, <2>5, <3>2 DEF ServerAt, Opening, InTransfer, SenderPcs, ReceiverPcs
    <3>3. ASSUME pc'["server"] = "refuse", pc'["client"] = pc["client"],
                 wire'["client"] = wire["client"], Live("client")
          PROVE  Where'
      BY <2>3, <2>6, <2>9, <3>3 DEF Where, Refusing, Now
    <3> QED
      BY <1>1, <1>5, <2>1, <2>3, <2>4, <2>5, <3>1, <3>2, <3>3, ServerHeard DEF Opening
  <2> QED
    BY <2>7, <2>8, <2>9
<1> QED
  BY <1>3, <1>4, <1>5 DEF ServerGreeting

\* A line of the listing, or its end.
LEMMA ServerLists ==
  ASSUME DaemonInv, pc["server"] = "list", NEW m, NEW q, Say("server", m, q),
         \/ q = "list" /\ m = Msg("line", "")
         \/ q = "listDone" /\ m = Msg("exit", ""),
         UNCHANGED <<request, told, transfer>>, listed' \in Nat
  PROVE  DaemonInv'
<1> USE Sides
<1>1. Live("server") /\ q \in {"list", "listDone"} /\ UNCHANGED <<selected, direction, dryRun>>
  BY DEF Live, told
<1>2. TypeOK /\ m \in Message
  BY <1>1, ServerFacts, Messages
<1>3. ASSUME pc'["server"] = q
      PROVE  ServerAt'
  <2>1. ServerAt /\ direction = "none" /\ selected = request.module /\ request.module = "#list"
    BY <1>1, ServerFacts DEF ServerAt, Opening
  <2> QED
    BY <1>1, <1>3, <2>1 DEF ServerAt, InTransfer, SenderPcs, ReceiverPcs
<1>4. ASSUME pc'["server"] = q, pc'["client"] = pc["client"], wire'["server"] = <<>>,
             wire'["client"] = Append(wire["client"], m), Live("client")
      PROVE  Where'
  <2>1. Listing
    BY <1>1, <1>4, ServerFacts
       DEF Where, Meeting, Listing, Refusing, Authenticating, Directing, Starting, Exchanging, Now, Between,
           Sending, Receiving
  <2>2. wire["client"] \in Seq(Message) /\ OnlyLines(wire["client"])
        /\ pc["client"] \in {"listing", "auth"} /\ request.module = "#list"
    BY <1>2, <2>1 DEF Listing, TypeOK
  <2>3. /\ OnlyLines(Append(wire["client"], Msg("line", "")))
        /\ Lines(Append(wire["client"], Msg("line", "")))
        /\ Lines(Append(wire["client"], Msg("exit", "")))
    BY ONLY <2>2, AppendToLines
  <2>4. Lines(wire'["client"]) /\ (q = "list" => OnlyLines(wire'["client"]))
    <3>1. CASE q = "list" /\ m = Msg("line", "")
      BY <1>4, <2>3, <3>1, Zenon
    <3>2. CASE q = "listDone" /\ m = Msg("exit", "")
      BY <1>4, <2>3, <3>2
    <3> QED
      BY <3>1, <3>2
  <2> QED
    BY <1>1, <1>4, <2>2, <2>4 DEF Where, Listing
<1> QED
  BY <1>1, <1>2, <1>3, <1>4, ServerSays, ServerFacts DEF Opening, Unanswered

\* The listing.
LEMMA ServerListingStep == DaemonInv /\ ServerListing => DaemonInv'
<1> SUFFICES ASSUME DaemonInv, ServerListing
             PROVE  DaemonInv'
  OBVIOUS
<1> USE Sides
<1>1. UNCHANGED <<request, told, transfer>>
  BY DEF ServerListing
<1>2. CASE /\ At("server", "list") /\ Say("server", Msg("line", ""), "list")
           /\ listed' = listed + 1
  <2>1. listed \in Nat /\ listed' = listed + 1
    BY <1>2, ServerFacts DEF At, Live
  <2>2. listed' \in Nat
    BY ONLY <2>1
  <2> QED
    BY <1>1, <1>2, <2>2, ServerLists DEF At
<1>3. CASE At("server", "list") /\ Say("server", Msg("exit", ""), "listDone") /\ listed' = listed
  <2>1. listed' \in Nat
    BY <1>3, ServerFacts DEF At, Live
  <2> QED
    BY <1>1, <1>3, <2>1, ServerLists DEF At
<1>4. CASE At("server", "listDone") /\ Leave("server", "listed") /\ UNCHANGED <<wire, listed>>
  <2>1. pc["server"] = "listDone" /\ Live("server")
    BY <1>4 DEF At, Live
  <2>2. /\ TypeOK /\ listed \in Nat /\ n \in [Side -> Nat] /\ f \in [Side -> Nat]
        /\ UNCHANGED <<n, f, written>>
    BY <1>1, <2>1, ServerFacts DEF transfer
  <2>3. WiresOK'
    BY <1>4, <2>2 DEF WiresOK, TypeOK
  <2> QED
    BY <1>1, <1>4, <2>1, <2>2, <2>3, LeaveStep DEF Outcome
<1> QED
  BY <1>2, <1>3, <1>4 DEF ServerListing

\* What the server answers: a challenge, or that the client may go on.
LEMMA ServerAnswers ==
  ASSUME DaemonInv, pc["server"] \in {"auth", "authOk"}, NEW m, NEW q, Say("server", m, q),
         \/ q = "direct" /\ m = Ok /\ Authenticated
         \/ q = "verify" /\ m = Challenge /\ pc["server"] = "auth",
         UNCHANGED <<request, told, transfer, listed>>
  PROVE  DaemonInv'
<1> USE Sides
<1>1. Live("server") /\ q \in {"direct", "verify"} /\ UNCHANGED <<selected, direction, dryRun>>
  BY DEF Live, told
<1>2. TypeOK /\ m \in Message /\ listed' \in Nat
  BY <1>1, ServerFacts, Messages
<1>3. ASSUME pc'["server"] = q
      PROVE  ServerAt'
  <2>1. ServerAt /\ direction = "none" /\ selected = request.module /\ request.module \in DOMAIN Config
    BY <1>1, ServerFacts DEF ServerAt, Opening, InTransfer, Authenticated
  <2> QED
    BY <1>1, <1>3, <2>1 DEF ServerAt, InTransfer, SenderPcs, ReceiverPcs, Authenticated
<1>4. ASSUME pc'["server"] = q, pc'["client"] = pc["client"], wire'["server"] = <<>>,
             wire'["client"] = Append(wire["client"], m), Live("client")
      PROVE  Where'
  <2>1. pc["client"] = "auth" /\ wire["client"] = <<>>
    BY <1>1, <1>4, ServerFacts
       DEF Where, Meeting, Listing, Refusing, Authenticating, Directing, Starting, Exchanging, Now, Between,
           Sending, Receiving
  <2>2. wire'["client"] = <<m>>
    BY <1>4, <2>1, Streams
  <2>3. Ok' = Ok /\ Challenge' = Challenge
    BY DEF Ok, Challenge
  <2> QED
    BY <1>4, <2>1, <2>2, <2>3 DEF Where, Authenticating, Now
<1> QED
  BY <1>1, <1>2, <1>3, <1>4, ServerSays, ServerFacts DEF Opening, Unanswered

\* ServeAuth: the challenge, the response checked, the answer.
LEMMA ServerAuthStep == DaemonInv /\ ServerAuth => DaemonInv'
<1> SUFFICES ASSUME DaemonInv, ServerAuth
             PROVE  DaemonInv'
  OBVIOUS
<1> USE Sides
<1>1. UNCHANGED <<request, told, transfer, listed>>
  BY DEF ServerAuth
<1>2. UNCHANGED <<selected, direction, dryRun>>
  BY <1>1 DEF told
<1>3. CASE /\ At("server", "verify") /\ Hear("server")
           /\ IF Accepted(Heard("server").val) THEN Goto("server", "authOk") ELSE Refuse
  <2>1. pc["server"] = "verify" /\ Live("server")
    BY <1>3 DEF At, Live
  <2>2. /\ wire["server"] = <<Response>> /\ TypeOK /\ ServerAt
        /\ selected \in DOMAIN Config \cup {"", "#list"} \cup {r.module : r \in Requests}
        /\ direction \in {"none", "get", "put"} /\ dryRun \in [Side -> BOOLEAN]
    BY <1>3, <2>1, ServerFacts DEF Hear, ServerHears
  <2>3. Heard("server") = Response /\ wire'["server"] = <<>>
    BY <1>3, <2>2, HearShort
  <2>4. PICK q \in {"authOk", "refuse"} : Goto("server", q) /\ (q = "authOk" => Accepted(Response.val))
    BY <1>3, <2>3 DEF Refuse
  <2>5. selected = request.module /\ request.module \in DOMAIN Config
    BY <2>1, <2>2 DEF ServerAt, Live
  <2>6. q = "authOk" => Authenticated
    BY <2>4, <2>5, Kinds DEF Accepted, Authenticated
  <2>7. ASSUME pc'["server"] = q
        PROVE  ServerAt'
    BY <1>1, <1>2, <2>1, <2>2, <2>4, <2>6, <2>7
       DEF ServerAt, Opening, InTransfer, SenderPcs, ReceiverPcs, Authenticated, Live
  <2>8. ASSUME pc'["server"] = q, pc'["client"] = pc["client"],
               wire'["client"] = wire["client"], Live("client")
        PROVE  Where'
    <3>1. pc["client"] = "auth" /\ wire["client"] = <<>>
      <4>1. Authenticating
        BY <2>1, <2>8, ServerFacts
           DEF Where, Meeting, Listing, Refusing, Authenticating, Directing, Starting, Exchanging, Now, Between,
               Sending, Receiving
      <4>2. <<Response>> # <<>>
        BY Streams
      <4>3. wire["server"] = <<Response>>
        BY <2>2
      <4> QED
        BY ONLY <2>1, <4>1, <4>2, <4>3 DEF Authenticating, Now
    <3> QED
      BY <2>3, <2>4, <2>8, <3>1 DEF Where, Authenticating, Refusing, Now
  <2> QED
    BY <1>1, <1>2, <1>3, <2>1, <2>2, <2>3, <2>4, <2>7, <2>8, ServerHeard DEF Opening
<1>4. CASE At("server", "auth") /\ (IF Config[selected].users = {} THEN Say("server", Msg("ok", ""), "direct")
                                  ELSE Say("server", Msg("authreqd", ""), "verify"))
  <2>1. pc["server"] = "auth" /\ selected = request.module /\ request.module \in DOMAIN Config
    BY <1>4, ServerFacts DEF At, Live, ServerAt
  <2>2. CASE Config[selected].users = {}
    <3>1. Authenticated /\ Say("server", Ok, "direct")
      BY <1>4, <2>1, <2>2 DEF Authenticated, Ok
    <3> QED
      BY <1>1, <2>1, <3>1, ServerAnswers
  <2>3. CASE Config[selected].users # {}
    <3>1. Say("server", Challenge, "verify")
      BY <1>4, <2>3 DEF Challenge
    <3> QED
      BY <1>1, <2>1, <3>1, ServerAnswers
  <2> QED
    BY <2>2, <2>3
<1>5. CASE At("server", "authOk") /\ Say("server", Msg("ok", ""), "direct")
  <2>1. pc["server"] = "authOk" /\ Authenticated /\ Say("server", Ok, "direct")
    BY <1>5, ServerFacts DEF At, Live, ServerAt, Ok
  <2> QED
    BY <1>1, <2>1, ServerAnswers
<1> QED
  BY <1>3, <1>4, <1>5 DEF ServerAuth

\* "@ERROR", and the end of the session.
LEMMA ServerRefuseStep == DaemonInv /\ ServerRefuse => DaemonInv'
<1> SUFFICES ASSUME DaemonInv, ServerRefuse
             PROVE  DaemonInv'
  OBVIOUS
<1> USE Sides
<1>1. UNCHANGED <<request, told, transfer, listed>>
  BY DEF ServerRefuse
<1>2. UNCHANGED <<selected, direction, dryRun>>
  BY <1>1 DEF told
<1>3. CASE At("server", "refuse") /\ Say("server", Msg("error", ""), "refuseSent")
  <2>1. pc["server"] = "refuse" /\ Live("server") /\ Say("server", Error, "refuseSent")
    BY <1>3 DEF At, Live, Error
  <2>2. TypeOK /\ Error \in Message /\ listed' \in Nat
    BY <1>1, <2>1, ServerFacts, Messages
  <2>3. ASSUME pc'["server"] = "refuseSent"
        PROVE  ServerAt'
    <3>1. ServerAt /\ selected = request.module
      BY <2>1, ServerFacts DEF ServerAt
    <3> QED
      BY <1>1, <1>2, <2>3, <3>1
         DEF ServerAt, Opening, InTransfer, SenderPcs, ReceiverPcs, Authenticated
  <2>4. ASSUME pc'["server"] = "refuseSent", pc'["client"] = pc["client"], wire'["server"] = <<>>,
               wire'["client"] = Append(wire["client"], Error), Live("client")
        PROVE  Where'
    <3>1. pc["client"] \in {"auth", "ack"} /\ wire["client"] = <<>>
      BY <2>1, <2>4, ServerFacts
         DEF Where, Meeting, Listing, Refusing, Authenticating, Directing, Starting, Exchanging, Now, Between,
             Sending, Receiving
    <3>2. wire'["client"] = <<Error>> /\ Error' = Error
      BY <2>4, <3>1, Streams DEF Error
    <3> QED
      BY <2>4, <3>1, <3>2 DEF Where, Refusing, Now
  <2> QED
    BY <1>1, <2>1, <2>2, <2>3, <2>4, ServerSays DEF Opening, Unanswered
<1>4. CASE At("server", "refuseSent") /\ Leave("server", "refused") /\ UNCHANGED wire
  <2>1. pc["server"] = "refuseSent" /\ Live("server")
    BY <1>4 DEF At, Live
  <2>2. /\ TypeOK /\ listed' \in Nat /\ n \in [Side -> Nat] /\ f \in [Side -> Nat]
        /\ UNCHANGED <<n, f, written>>
    BY <1>1, <2>1, ServerFacts DEF transfer
  <2>3. WiresOK'
    BY <1>4, <2>2 DEF WiresOK, TypeOK
  <2> QED
    BY <1>1, <1>4, <2>1, <2>2, <2>3, LeaveStep DEF Outcome
<1> QED
  BY <1>3, <1>4 DEF ServerRefuse

\* ServeModule: the direction is taken, and acknowledged or refused.
LEMMA ServerDirectedStep ==
  ASSUME DaemonInv, At("server", "direct"), Hear("server"),
         direction' = Heard("server").val[1],
         dryRun' = [dryRun EXCEPT !["server"] = Heard("server").val[2]],
         IF Refused(Heard("server").val[1]) THEN Refuse ELSE Goto("server", "ack"),
         UNCHANGED <<request, selected, transfer, listed>>
  PROVE  DaemonInv'
<1> USE Sides
<1>1. pc["server"] = "direct" /\ Live("server")
  BY DEF At, Live
<1>2. /\ wire["server"] = <<Direction>> /\ TypeOK /\ ServerAt
      /\ selected \in DOMAIN Config \cup {"", "#list"} \cup {r.module : r \in Requests}
      /\ dryRun \in [Side -> BOOLEAN]
  BY <1>1, ServerFacts DEF Hear, ServerHears
<1>3. Heard("server") = Direction /\ wire'["server"] = <<>>
  BY <1>2, HearShort
<1>4. /\ direction = "none" /\ selected = request.module /\ Authenticated
  BY <1>1, <1>2 DEF ServerAt, Opening
<1>5. direction' = request.direction /\ direction' \in {"none", "get", "put"}
  BY <1>2, <1>3, Kinds, RequestFacts
<1>6. /\ dryRun' \in [Side -> BOOLEAN] /\ dryRun'["client"] = dryRun["client"]
      /\ dryRun'["server"] = (request.direction = "put" /\ request.dryRun)
  <2>1. dryRun' = [dryRun EXCEPT !["server"] = (request.direction = "put" /\ request.dryRun)]
    BY <1>3, Kinds
  <2>2. (request.direction = "put" /\ request.dryRun) \in BOOLEAN
    OBVIOUS
  <2>3. \A b \in BOOLEAN : /\ [dryRun EXCEPT !["server"] = b] \in [Side -> BOOLEAN]
                          /\ [dryRun EXCEPT !["server"] = b]["client"] = dryRun["client"]
                          /\ [dryRun EXCEPT !["server"] = b]["server"] = b
    BY <1>2
  <2> QED
    BY ONLY <2>1, <2>2, <2>3
<1>7. PICK q \in {"ack", "refuse"} : Goto("server", q) /\ (q = "ack" => ~Refused(request.direction))
  BY <1>3, Kinds DEF Refuse
<1>8. ASSUME pc'["server"] = q
      PROVE  ServerAt'
  <2>1. Authenticated' /\ (q = "ack" => ~Refused(direction)')
    BY <1>4, <1>5, <1>7 DEF Authenticated, Refused
  <2>2. request' = request /\ selected' = selected
    OBVIOUS
  <2>3. q \in {"ack", "refuse"}
    BY <1>7
  <2> QED
    BY ONLY <1>4, <1>5, <1>6, <1>8, <2>1, <2>2, <2>3
       DEF ServerAt, Opening, InTransfer, SenderPcs, ReceiverPcs
<1>9. ASSUME pc'["server"] = q, pc'["client"] = pc["client"],
             wire'["client"] = wire["client"], Live("client")
      PROVE  Where'
  <2>1. pc["client"] = "ack" /\ wire["client"] = <<>>
    <3>1. Authenticating \/ Directing
      BY <1>1, <1>9, ServerFacts
         DEF Where, Meeting, Listing, Refusing, Authenticating, Directing, Starting, Exchanging, Now, Between,
             Sending, Receiving
    <3>2. <<Direction>> # <<>>
      BY Streams
    <3> QED
      BY ONLY <1>1, <1>2, <3>1, <3>2 DEF Authenticating, Directing, Now
  <2> QED
    BY <1>3, <1>7, <1>9, <2>1 DEF Where, Directing, Refusing, Now
<1>10. pc["server"] \in {"peer", "select", "verify", "direct"} /\ q \in Opening["server"]
       /\ q # "refuseSent" /\ q # "select" /\ Goto("server", q)
  BY <1>1, <1>7 DEF Opening
<1> QED
  BY <1>2, <1>3, <1>4, <1>5, <1>6, <1>8, <1>9, <1>10, ServerHeard

\* The acknowledgement, and a side of the transfer.
LEMMA ServerStartsStep ==
  ASSUME DaemonInv, At("server", "ack"),
         Say("server", Msg("ok", ""), IF direction = "put" THEN "recvList" ELSE "sendList"),
         UNCHANGED <<request, told, transfer, listed>>
  PROVE  DaemonInv'
<1> DEFINE q == IF direction = "put" THEN "recvList" ELSE "sendList"
<1> USE Sides
<1>1. /\ pc["server"] = "ack" /\ Live("server") /\ UNCHANGED <<selected, direction, dryRun>>
      /\ UNCHANGED <<n, f, written>>
  BY DEF At, Live, told, transfer
<1>2. /\ TypeOK /\ ServerAt /\ wire["server"] = <<>> /\ listed' \in Nat
      /\ selected \in DOMAIN Config \cup {"", "#list"} \cup {r.module : r \in Requests}
      /\ direction \in {"none", "get", "put"} /\ dryRun \in [Side -> BOOLEAN]
      /\ n \in [Side -> Nat] /\ f \in [Side -> Nat] /\ result["server"] = "none"
  BY <1>1, ServerFacts DEF ServerHears, Opening
<1>3. /\ direction = request.direction /\ direction # "none"
      /\ direction = "put" <=> Sending = "client"
  BY <1>1, <1>2, RequestFacts DEF ServerAt
<1>4. /\ q \in {"sendList", "recvList"} /\ q = "sendList" <=> Sending = "server"
      /\ q = "recvList" <=> Receiving = "server"
  BY <1>3 DEF Sending, Receiving, Peer
<1>5. /\ Ok \in Message /\ q \in Pcs("server") /\ Say("server", Ok, q)
  BY <1>2, Messages DEF Ok, Pcs, SenderPcs, ReceiverPcs
<1>6. Sending' = Sending /\ Receiving' = Receiving /\ Ok' = Ok
  BY DEF Sending, Receiving, Ok
<1> HIDE DEF q
<1>7. /\ WiresOK'
      /\ \/ /\ Goto("server", q) /\ wire'["server"] = <<>>
            /\ Live("client") => wire'["client"] = Append(wire["client"], Ok)
         \/ pc["client"] = "end" /\ Leave("server", "cut") /\ wire' = wire
  <2>1. "server" \in Side /\ Peer("server") = "client"
    OBVIOUS
  <2>2. /\ wire' \in [Side -> Seq(Message)] /\ \A y \in Side : Len(wire'[y]) <= Capacity
        /\ \/ /\ Goto("server", q) /\ pc[Peer("server")] # "end" /\ wire'["server"] = wire["server"]
              /\ wire'[Peer("server")] = Append(wire[Peer("server")], Ok)
           \/ pc[Peer("server")] = "end" /\ Goto("server", q) /\ Lost("server")
           \/ pc[Peer("server")] = "end" /\ Leave("server", "cut") /\ wire' = wire
    BY ONLY <1>2, <1>5, <2>1, SayFacts
  <2>3. /\ \/ /\ Goto("server", q) /\ wire'["server"] = wire["server"]
              /\ wire'["client"] = Append(wire["client"], Ok)
           \/ pc["client"] = "end" /\ Goto("server", q) /\ Lost("server")
           \/ pc["client"] = "end" /\ Leave("server", "cut") /\ wire' = wire
    BY <2>1, <2>2, Zenon
  <2>4. Lost("server") => wire'["server"] = <<>>
    BY <1>2 DEF Lost
  <2>5. pc["client"] = "end" => ~Live("client")
    BY DEF Live
  <2> QED
    BY <1>2, <2>2, <2>3, <2>4, <2>5, Zenon DEF WiresOK
<1>8. CASE pc["client"] = "end" /\ Leave("server", "cut") /\ wire' = wire
  BY <1>1, <1>2, <1>8, CutStep
<1>9. CASE /\ Goto("server", q) /\ wire'["server"] = <<>>
           /\ Live("client") => wire'["client"] = Append(wire["client"], Ok)
  <2>1. EndsOK'
    <3>1. /\ pc["server"] \in Opening["server"]
          /\ q \in Opening["server"] \cup {"sendList", "recvList"}
      BY <1>1, <1>4 DEF Opening
    <3> QED
      BY <1>1, <1>2, <1>4, <1>7, <1>9, <3>1, OpeningStep
  <2>2. pc'["server"] = q /\ pc'["client"] = pc["client"] /\ result' = result
    <3>1. "server" \in Side /\ Peer("server") = "client"
      OBVIOUS
    <3>2. pc'["server"] = q /\ pc'[Peer("server")] = pc[Peer("server")] /\ result' = result
      BY ONLY <1>2, <1>5, <1>9, <3>1, GotoFacts
    <3> QED
      BY <3>1, <3>2, Zenon
  <2>3. ServerAt'
    <3>1. /\ selected = request.module /\ Authenticated /\ ~Refused(direction)
          /\ dryRun["server"] = (request.direction = "put" /\ request.dryRun)
      BY <1>1, <1>2 DEF ServerAt
    <3>2. Authenticated' /\ ~Refused(direction)'
      BY <1>1, <3>1 DEF Authenticated, Refused
    <3>3. request' = request
      OBVIOUS
    <3>4. q \in {"sendList", "recvList"}
      BY <1>4
    <3> QED
      BY ONLY <1>1, <1>3, <2>2, <3>1, <3>2, <3>3, <3>4
         DEF ServerAt, Opening, InTransfer, SenderPcs, ReceiverPcs
  <2>4. ClientAt'
    BY <1>1, <2>2 DEF DaemonInv, ClientAt
  <2>5. Together'
    <3> SUFFICES ASSUME Live("client")
                 PROVE  Where'
      BY <2>2 DEF Together, Live
    <3>1. pc["client"] = "ack" /\ wire["client"] = <<>>
      <4>1. Directing \/ Starting
        BY <1>1, ServerFacts
           DEF Where, Meeting, Listing, Refusing, Authenticating, Directing, Starting, Exchanging, Now, Between,
               Sending, Receiving
      <4>2. <<Ok>> # <<>> /\ <<Ok, List>> # <<>>
        BY Streams
      <4>3. wire["server"] = <<>> /\ pc["server"] = "ack"
        BY <1>1, <1>2
      <4>4. ~Starting
        BY ONLY <4>3, Sides, Directing \/ Starting DEF Starting, Between, Sending, Receiving
      <4> QED
        BY <4>1, <4>3, <4>4 DEF Directing, Now
    <3>2. wire'["client"] = <<Ok>>
      BY <1>9, <3>1, Streams
    <3>3. Starting'
      BY <1>4, <1>6, <1>9, <2>2, <3>1, <3>2 DEF Starting, Between, Side
    <3> QED
      BY <1>1, <1>3, <3>3 DEF Where
  <2>6. Refusal'
    BY <1>2, <1>4, <2>2 DEF Refusal
  <2>7. Hears'
    <3>1. CASE Live("client")
      BY <1>4, <2>1, <2>2, <2>5, <3>1, TogetherHears DEF Live
    <3>2. CASE ~Live("client")
      <4>1. ClientHears' /\ ServerHears'
        BY <1>4, <2>2, <3>2 DEF ClientHears, ServerHears, Live, Opening
      <4>2. TransferHears'
        BY <1>4, <1>6, <1>9, <2>2, <3>2 DEF TransferHears, Live
      <4> QED
        BY <4>1, <4>2 DEF Hears
    <3> QED
      BY <3>1, <3>2
  <2> QED
    BY <2>1, <2>3, <2>4, <2>5, <2>6, <2>7 DEF DaemonInv
<1> QED
  BY <1>7, <1>8, <1>9

LEMMA ServerModuleStep == DaemonInv /\ ServerModule => DaemonInv'
<1> SUFFICES ASSUME DaemonInv, ServerModule
             PROVE  DaemonInv'
  OBVIOUS
<1>1. CASE /\ At("server", "ack")
           /\ Say("server", Msg("ok", ""), IF direction = "put" THEN "recvList" ELSE "sendList")
           /\ UNCHANGED <<direction, dryRun>>
  <2>1. UNCHANGED <<request, told, transfer, listed>>
    BY <1>1 DEF ServerModule, told
  <2> QED
    BY <1>1, <2>1, ServerStartsStep
<1> QED
  BY <1>1, ServerDirectedStep DEF ServerModule

-----------------------------------------------------------------------------
(* The transfer. *)

\* What an end that transfers can take for granted.
LEMMA TransferFacts ==
  ASSUME DaemonInv, NEW x \in Side, pc[x] \in InTransfer
  PROVE  /\ Live(x) /\ TypeOK /\ result[x] = "none" /\ direction # "none" /\ listed \in Nat
         /\ n \in [Side -> Nat] /\ f \in [Side -> Nat] /\ written \in [Side -> Nat]
         /\ Files(Sending) \in Nat /\ dryRun[Receiving] \in BOOLEAN
         /\ pc[x] \in SenderPcs => x = Sending /\ Peer(x) = Receiving
         /\ pc[x] \in ReceiverPcs =>
              x = Receiving /\ Peer(x) = Sending /\ dryRun[x] = request.dryRun
         /\ SenderAt /\ ReceiverAt /\ TransferHears
         /\ Live(Peer(x)) => Starting \/ Exchanging
         /\ result["server"] # "refused"
         /\ x = "client" => pc["server"] \notin Unanswered \cup {"refuseSent"}
<1> USE Sides
<1>1. /\ TypeOK /\ Results /\ ServerAt /\ ClientAt /\ SenderAt /\ ReceiverAt
      /\ Hears /\ Together /\ Refusal
  BY DEF DaemonInv, EndsOK
<1>2. Live(x) /\ pc[x] \notin Opening["client"] \cup Opening["server"] \cup {"close", "end"}
  BY DEF Live, InTransfer, SenderPcs, ReceiverPcs, Opening
<1>3. result[x] = "none"
  BY <1>1, <1>2 DEF Results
<1>4. /\ n \in [Side -> Nat] /\ f \in [Side -> Nat] /\ written \in [Side -> Nat] /\ listed \in Nat
      /\ dryRun[Receiving] \in BOOLEAN
  BY <1>1 DEF TypeOK
<1>5. direction # "none"
  <2>1. CASE x = "client"
    BY <1>1, <2>1 DEF ClientAt
  <2>2. CASE x = "server"
    BY <1>1, <2>2, RequestFacts DEF ServerAt
  <2> QED
    BY <2>1, <2>2 DEF Side
<1>6. Files(Sending) \in Nat
  <2>1. selected = request.module /\ request.module \in DOMAIN Config
    BY <1>1, <1>5 DEF ServerAt, Authenticated
  <2> QED
    BY <1>1, <2>1, RequestFacts DEF Files
<1>7. /\ pc[x] \in SenderPcs => x = Sending
      /\ pc[x] \in ReceiverPcs => x = Receiving
  <2>1. x = Sending \/ x = Receiving
    OBVIOUS
  <2> QED
    BY <1>1, <2>1 DEF SenderAt, ReceiverAt
<1>8. pc[x] \in ReceiverPcs => dryRun[x] = request.dryRun
  <2> SUFFICES ASSUME pc[x] \in ReceiverPcs
               PROVE  dryRun[x] = request.dryRun
    OBVIOUS
  <2>1. CASE x = "client"
    BY <1>1, <2>1 DEF ClientAt
  <2>2. CASE x = "server"
    <3>1. Sending = "client" /\ request.direction = "put" /\ request.dryRun \in BOOLEAN
      BY <1>1, <1>7, <2>2, RequestFacts
    <3>2. dryRun["server"] = (request.direction = "put" /\ request.dryRun)
      BY <1>1, <2>2 DEF ServerAt
    <3> QED
      BY <2>2, <3>1, <3>2
  <2> QED
    BY <2>1, <2>2 DEF Side
<1>9. Live(Peer(x)) => Starting \/ Exchanging
  <2> SUFFICES ASSUME Live(Peer(x))
               PROVE  Starting \/ Exchanging
    OBVIOUS
  <2>1. Where
    BY <1>1, <1>2 DEF Together, Side
  <2>2. ~(Meeting \/ Listing \/ Refusing \/ Authenticating \/ Directing)
    BY <1>2 DEF Meeting, Listing, Refusing, Authenticating, Directing, Now, Side, Opening
  <2> QED
    BY <2>1, <2>2 DEF Where
<1>10. result["server"] # "refused"
  <2>1. CASE x = "client"
    BY <1>1, <1>2, <2>1 DEF Refusal, Opening
  <2>2. CASE x = "server"
    BY <1>3, <2>2
  <2> QED
    BY <2>1, <2>2 DEF Side
<1>11. x = "client" => pc["server"] \notin Unanswered \cup {"refuseSent"}
  <2> SUFFICES ASSUME x = "client"
               PROVE  pc["server"] \notin Unanswered \cup {"refuseSent"}
    OBVIOUS
  <2>1. CASE Live("server")
    BY <1>9, <2>1 DEF Starting, Exchanging, Between, Sending, Receiving, Unanswered
  <2>2. CASE ~Live("server")
    BY <2>2 DEF Live, Unanswered
  <2> QED
    BY <2>1, <2>2
<1> QED
  BY <1>1, <1>2, <1>3, <1>4, <1>5, <1>6, <1>7, <1>8, <1>9, <1>10, <1>11 DEF Hears

\* An end goes on with the transfer.
LEMMA TransferMoves ==
  ASSUME DaemonInv, NEW x \in Side, pc[x] \in InTransfer, NEW q \in InTransfer, Goto(x, q),
         UNCHANGED <<request, told, listed>>, EndsOK',
         Live(Peer(x)) => (Starting \/ Exchanging)', ~Live(Peer(x)) => TransferHears'
  PROVE  DaemonInv'
<1> USE Sides
<1>1. /\ TypeOK /\ ServerAt /\ ClientAt /\ Refusal
  BY DEF DaemonInv, EndsOK
<1>2. /\ Live(x) /\ result[x] = "none" /\ direction # "none" /\ result["server"] # "refused"
  BY TransferFacts
<1>3. /\ UNCHANGED <<request, selected, direction, dryRun>>
  BY DEF told
<1>4. /\ pc'[x] = q /\ pc'[Peer(x)] = pc[Peer(x)] /\ result' = result
  <2>1. q \in Pcs(x)
    BY DEF Pcs, InTransfer
  <2> QED
    BY <1>1, <2>1, GotoFacts
<1>5. q \notin Opening["client"] \cup Opening["server"] \cup {"close", "end"}
  BY DEF InTransfer, SenderPcs, ReceiverPcs, Opening
<1>6. ServerAt'
  <2>1. Authenticated' = Authenticated /\ Refused(direction)' = Refused(direction)
    BY <1>3 DEF Authenticated, Refused
  <2>2. CASE x = "server"
    BY <1>1, <1>3, <1>4, <1>5, <2>1, <2>2 DEF ServerAt, Live, InTransfer, SenderPcs, ReceiverPcs, Opening
  <2>3. CASE x = "client"
    BY <1>1, <1>3, <1>4, <2>1, <2>3 DEF ServerAt, Live
  <2> QED
    BY <2>2, <2>3 DEF Side
<1>7. ClientAt'
  BY <1>1, <1>2, <1>3, <1>4 DEF ClientAt, Side
<1>8. Together'
  BY <1>2, <1>3, <1>4 DEF Together, Where, Live, Side
<1>9. Refusal'
  <2>1. CASE x = "server"
    BY <1>2, <1>4, <1>5, <2>1 DEF Refusal, Opening
  <2>2. CASE x = "client"
    BY <1>2, <1>4, <1>5, <2>2 DEF Refusal, Live
  <2> QED
    BY <2>1, <2>2 DEF Side
<1>10. Hears'
  <2>1. CASE Live(Peer(x))
    BY <1>4, <1>5, <1>8, <2>1, TogetherHears DEF Live, Side
  <2>2. CASE ~Live(Peer(x))
    <3>1. pc'[x] = q /\ pc'[Peer(x)] \in {"close", "end"}
      BY <1>4, <2>2 DEF Live
    <3>2. ClientHears' /\ ServerHears'
      BY <1>5, <3>1 DEF ClientHears, ServerHears, Side, Opening
    <3> QED
      BY <2>2, <3>2 DEF Hears
  <2> QED
    BY <2>1, <2>2
<1> QED
  BY <1>6, <1>7, <1>8, <1>9, <1>10 DEF DaemonInv

\* Sender goes on.
LEMMA SenderMoves ==
  ASSUME DaemonInv, NEW x \in Side, pc[x] \in SenderPcs,
         NEW q \in {"turn", "load", "waitDone"}, Goto(x, q),
         UNCHANGED <<request, told, listed, written>>, WiresOK',
         n' \in [Side -> Nat], n'[Peer(x)] = n[Peer(x)],
         f' \in [Side -> Nat], f'[Peer(x)] = f[Peer(x)],
         n'[x] = Files(x), f'[x] \in 1..n'[x] + 1,
         q = "load" => f'[x] <= n'[x], q = "waitDone" => f'[x] = n'[x] + 1,
         Live(Peer(x)) => (Starting \/ Exchanging)', ~Live(Peer(x)) => TransferHears'
  PROVE  DaemonInv'
<1> USE Sides
<1>1. /\ TypeOK /\ Results /\ SenderAt /\ ReceiverAt /\ OkMeansFinished /\ OnlyPermittedWrites
  BY DEF DaemonInv, EndsOK
<1>2. /\ Live(x) /\ result[x] = "none" /\ x = Sending /\ Peer(x) = Receiving
  BY TransferFacts DEF InTransfer
<1>3. /\ UNCHANGED <<request, selected, direction, dryRun, written, listed>>
      /\ Sending' = Sending /\ Receiving' = Receiving /\ \A y \in Side : Files(y)' = Files(y)
  BY DEF told, Sending, Receiving, Files
<1>4. q \in SenderPcs /\ q \in Pcs(x) /\ q \in InTransfer /\ q \notin ReceiverPcs /\ q \notin {"close", "end"}
  BY DEF SenderPcs, ReceiverPcs, Pcs, InTransfer
<1>5. /\ pc' \in [Side -> Pcs("client") \cup Pcs("server")] /\ \A y \in Side : pc'[y] \in Pcs(y)
      /\ pc'[x] = q /\ pc'[Peer(x)] = pc[Peer(x)] /\ result' = result
  BY <1>1, <1>4, GotoFacts
<1>6. TypeOK'
  BY <1>1, <1>3, <1>5 DEF TypeOK, WiresOK
<1>7. Results'
  BY <1>1, <1>2, <1>5 DEF Results, Live, InPhase
<1>8. SenderAt'
  BY <1>1, <1>2, <1>3, <1>5 DEF SenderAt
<1>9. ReceiverAt'
  BY <1>1, <1>2, <1>3, <1>4, <1>5 DEF ReceiverAt, WrittenBy, Live
<1>10. OkMeansFinished'
  BY <1>1, <1>2, <1>3, <1>5 DEF OkMeansFinished, Finished, WrittenBy
<1>11. OnlyPermittedWrites'
  BY <1>1, <1>3 DEF OnlyPermittedWrites
<1>12. EndsOK' /\ pc[x] \in InTransfer
  BY <1>6, <1>7, <1>8, <1>9, <1>10, <1>11 DEF EndsOK, InTransfer
<1> QED
  BY <1>4, <1>12, TransferMoves

\* Receiver goes on.
LEMMA ReceiverMoves ==
  ASSUME DaemonInv, NEW x \in Side, pc[x] \in ReceiverPcs \ {"doneSent"},
         NEW q \in ReceiverPcs \ {"recvList"}, Goto(x, q),
         UNCHANGED <<request, told, listed>>, WiresOK',
         n' \in [Side -> Nat], n'[Peer(x)] = n[Peer(x)],
         f' \in [Side -> Nat], f'[Peer(x)] = f[Peer(x)],
         written' \in [Side -> Nat], written'[Peer(x)] = written[Peer(x)],
         n'[x] = Files(Peer(x)), f'[x] \in 1..n'[x] + 1, WrittenBy(x, f[x] - 1)',
         q \in {"delta", "write"} => f'[x] <= n'[x], q = "doneSent" => f'[x] = n'[x] + 1,
         Live(Peer(x)) => (Starting \/ Exchanging)', ~Live(Peer(x)) => TransferHears'
  PROVE  DaemonInv'
<1> USE Sides
<1>1. /\ TypeOK /\ Results /\ ServerAt /\ SenderAt /\ ReceiverAt /\ OkMeansFinished
  BY DEF DaemonInv, EndsOK
<1>2. /\ Live(x) /\ result[x] = "none" /\ x = Receiving /\ Peer(x) = Sending
  BY TransferFacts DEF InTransfer
<1>3. /\ UNCHANGED <<request, selected, direction, dryRun, listed>>
      /\ Sending' = Sending /\ Receiving' = Receiving /\ \A y \in Side : Files(y)' = Files(y)
  BY DEF told, Sending, Receiving, Files
<1>4. q \in Pcs(x) /\ q \in InTransfer /\ q \notin SenderPcs /\ q \notin {"close", "end"}
  BY DEF SenderPcs, ReceiverPcs, Pcs, InTransfer
<1>5. /\ pc' \in [Side -> Pcs("client") \cup Pcs("server")] /\ \A y \in Side : pc'[y] \in Pcs(y)
      /\ pc'[x] = q /\ pc'[Peer(x)] = pc[Peer(x)] /\ result' = result
  BY <1>1, <1>4, GotoFacts
<1>6. TypeOK'
  BY <1>1, <1>3, <1>5 DEF TypeOK, WiresOK
<1>7. Results'
  BY <1>1, <1>2, <1>5 DEF Results, Live, InPhase
<1>8. SenderAt'
  BY <1>1, <1>2, <1>3, <1>4, <1>5 DEF SenderAt
<1>9. ReceiverAt'
  BY <1>1, <1>2, <1>3, <1>4, <1>5 DEF ReceiverAt, WrittenBy, Live
<1>10. OkMeansFinished'
  <2>1. \A y \in Side : result[y] # "ok"
    <3>1. ~Finished
      BY <1>2 DEF Finished, Live
    <3> QED
      BY <1>1, <3>1 DEF OkMeansFinished
  <2> QED
    BY <1>5, <2>1 DEF OkMeansFinished
<1>11. OnlyPermittedWrites'
  <2> SUFFICES ASSUME written'["server"] > 0
               PROVE  OnlyPermittedWrites'
    BY DEF OnlyPermittedWrites
  <2>1. written'[Sending] = 0
    BY <1>1, <1>2 DEF ReceiverAt
  <2>2. x = "server" /\ Sending = "client"
    BY <1>2, <2>1 DEF Side
  <2>3. request.direction = "put" /\ direction = "put" /\ ~Refused("put") /\ Authenticated
        /\ selected = request.module
    <3>1. pc["server"] \in InTransfer
      BY <2>2 DEF InTransfer
    <3>2. direction = request.direction /\ ~Refused(direction) /\ Authenticated /\ direction # "none"
      BY <1>1, <3>1, RequestFacts DEF ServerAt
    <3>3. selected = request.module
      BY <1>1, <3>2 DEF ServerAt
    <3> QED
      BY <1>1, <2>2, <3>2, <3>3, RequestFacts
  <2>4. ~request.dryRun
    BY <1>3, <2>2 DEF WrittenBy
  <2> QED
    BY <1>3, <2>3, <2>4 DEF OnlyPermittedWrites, Refused, Authenticated
<1>12. EndsOK' /\ pc[x] \in InTransfer
  BY <1>6, <1>7, <1>8, <1>9, <1>10, <1>11 DEF EndsOK, InTransfer
<1> QED
  BY <1>4, <1>12, TransferMoves

\* An end says something in the transfer: it goes on, or is cut off.
LEMMA TransferSays ==
  ASSUME TypeOK, NEW x \in Side, wire[x] = <<>>, NEW q \in InTransfer, NEW m \in Message, Say(x, m, q)
  PROVE  /\ WiresOK'
         /\ \/ /\ Goto(x, q) /\ wire'[x] = <<>>
               /\ Live(Peer(x)) => wire'[Peer(x)] = Append(wire[Peer(x)], m)
            \/ pc[Peer(x)] = "end" /\ Leave(x, "cut") /\ wire' = wire
<1>1. q \in Pcs(x)
  BY DEF InTransfer, Pcs
<1>2. /\ wire' \in [Side -> Seq(Message)] /\ \A y \in Side : Len(wire'[y]) <= Capacity
      /\ \/ /\ Goto(x, q) /\ pc[Peer(x)] # "end" /\ wire'[x] = wire[x]
            /\ wire'[Peer(x)] = Append(wire[Peer(x)], m)
         \/ pc[Peer(x)] = "end" /\ Goto(x, q) /\ Lost(x)
         \/ pc[Peer(x)] = "end" /\ Leave(x, "cut") /\ wire' = wire
  BY ONLY <1>1, SayFacts, TypeOK, x \in Side, m \in Message, Say(x, m, q)
<1>3. Lost(x) => wire'[x] = <<>>
  BY DEF Lost
<1>4. pc[Peer(x)] = "end" => ~Live(Peer(x))
  BY DEF Live
<1> QED
  BY <1>2, <1>3, <1>4, Zenon DEF WiresOK

\* An end that transfers fails to write: its connection is gone.
LEMMA TransferCut ==
  ASSUME DaemonInv, NEW x \in Side, pc[x] \in InTransfer,
         pc[Peer(x)] = "end", Leave(x, "cut"), UNCHANGED <<request, told, wire, written, listed>>,
         n' \in [Side -> Nat], n'[Peer(x)] = n[Peer(x)],
         f' \in [Side -> Nat], f'[Peer(x)] = f[Peer(x)]
  PROVE  DaemonInv'
<1>1. pc[x] \notin {"auth", "ack"}
  BY DEF InTransfer, SenderPcs, ReceiverPcs
<1>2. Live(x) /\ listed' \in Nat
  BY TransferFacts
<1> QED
  BY <1>1, <1>2, CutStep

\* Sender: the list.
LEMMA SendListStep ==
  ASSUME DaemonInv, NEW x \in Side, SendList(x)
  PROVE  DaemonInv'
<1> USE Sides
<1>1. /\ pc[x] = "sendList" /\ pc[x] \in InTransfer /\ pc[x] \in SenderPcs
      /\ Say(x, Msg("list", Files(x)), "turn")
      /\ n' = [n EXCEPT ![x] = Files(x)] /\ f' = [f EXCEPT ![x] = 1]
      /\ UNCHANGED <<request, told, listed, written>>
  BY DEF SendList, At, InTransfer, SenderPcs
<1>2. /\ TypeOK /\ x = Sending /\ Peer(x) = Receiving /\ Files(x) \in Nat /\ wire[x] = <<>>
      /\ n \in [Side -> Nat] /\ f \in [Side -> Nat]
      /\ Live(Receiving) => Starting \/ Exchanging
  BY <1>1, TransferFacts DEF TransferHears
<1>3. /\ n' \in [Side -> Nat] /\ n'[x] = Files(x) /\ n'[Peer(x)] = n[Peer(x)]
      /\ f' \in [Side -> Nat] /\ f'[x] = 1 /\ f'[Peer(x)] = f[Peer(x)]
  BY <1>1, <1>2
<1>4. /\ List = Msg("list", Files(x)) /\ List \in Message /\ List' = List
      /\ Sending' = Sending /\ Receiving' = Receiving /\ Ok' = Ok
  <2>1. UNCHANGED <<request, selected>>
    BY <1>1 DEF told
  <2> QED
    BY <1>2, <2>1, Messages DEF List, Sending, Receiving, Files, Ok
<1>5. /\ WiresOK'
      /\ \/ /\ Goto(x, "turn") /\ wire'[x] = <<>>
            /\ Live(Peer(x)) => wire'[Peer(x)] = Append(wire[Peer(x)], List)
         \/ pc[Peer(x)] = "end" /\ Leave(x, "cut") /\ wire' = wire
  <2>1. "turn" \in InTransfer
    BY DEF InTransfer, SenderPcs
  <2>2. TypeOK /\ wire[x] = <<>> /\ List \in Message /\ Say(x, List, "turn")
    BY <1>1, <1>2, <1>4
  <2> QED
    BY ONLY <2>1, <2>2, TransferSays, x \in Side
<1>6. CASE pc[Peer(x)] = "end" /\ Leave(x, "cut") /\ wire' = wire
  BY <1>1, <1>3, <1>6, TransferCut
<1>7. CASE /\ Goto(x, "turn") /\ wire'[x] = <<>>
           /\ Live(Peer(x)) => wire'[Peer(x)] = Append(wire[Peer(x)], List)
  <2>1. pc'[x] = "turn" /\ pc'[Peer(x)] = pc[Peer(x)]
    BY <1>2, <1>7, GotoFacts DEF Pcs, SenderPcs
  <2>2. Live(Peer(x)) => Starting'
    <3> SUFFICES ASSUME Live(Peer(x))
                 PROVE  Starting'
      OBVIOUS
    <3>1. \/ Sending = "server" /\ pc[Receiving] = "ack" /\ wire[Receiving] = <<Ok>>
          \/ pc[Receiving] = "recvList" /\ wire[Receiving] = <<>>
      BY <1>1, <1>2 DEF Starting, Exchanging, Between
    <3>2. /\ wire[Receiving] = <<Ok>> => wire'[Receiving] = <<Ok, List>>
          /\ wire[Receiving] = <<>> => wire'[Receiving] = <<List>>
      <4>1. Append(<<Ok>>, List) = <<Ok, List>> /\ Append(<<>>, List) = <<List>>
        BY Streams
      <4> QED
        BY <1>2, <1>7, <4>1
    <3> QED
      BY <1>2, <1>3, <1>4, <1>7, <2>1, <3>1, <3>2 DEF Starting, Between
  <2>3. ~Live(Peer(x)) => TransferHears'
    BY <1>2, <1>4, <1>7, <2>1 DEF TransferHears, Live
  <2>4. 1 \in 1..n'[x] + 1
    BY <1>2, <1>3
  <2> QED
    BY <1>1, <1>2, <1>3, <1>5, <1>7, <2>2, <2>3, <2>4, SenderMoves
<1> QED
  BY <1>5, <1>6, <1>7

\* Sender: a signature is read.
LEMMA ReceiveSignatureStep ==
  ASSUME DaemonInv, NEW x \in Side, ReceiveSignature(x)
  PROVE  DaemonInv'
<1> USE Sides
<1>1. /\ pc[x] = "turn" /\ pc[x] \in InTransfer /\ pc[x] \in SenderPcs
      /\ f[x] <= n[x] /\ Hear(x)
      /\ IF Heard(x) = Msg("signature", f[x]) THEN Goto(x, "load") ELSE Leave(x, "protocol")
      /\ UNCHANGED <<request, told, listed, written, n, f>>
  BY DEF ReceiveSignature, At, InTransfer, SenderPcs, transfer
<1>2. /\ TypeOK /\ x = Sending /\ Peer(x) = Receiving
      /\ n \in [Side -> Nat] /\ f \in [Side -> Nat]
      /\ Live(Receiving) => Starting \/ Exchanging
      /\ n[x] = Files(x) /\ f[x] \in 1..n[x] + 1
  BY <1>1, TransferFacts DEF SenderAt
<1>3. wire[x] = <<Signature(f[x])>>
  <2>1. \/ wire[x] = <<>> \/ wire[x] = <<Signature(f[x])>> \/ f[x] > n[x]
    BY <1>1, <1>2, TransferFacts DEF TransferHears
  <2>2. ~(f[x] > n[x])
    BY <1>1, <1>2
  <2> QED
    BY <1>1, <2>1, <2>2 DEF Hear
<1>4. Heard(x) = Signature(f[x]) /\ wire'[x] = <<>>
  BY <1>1, <1>2, <1>3, HearShort
<1>5. WiresOK' /\ wire'[Peer(x)] = wire[Peer(x)]
  BY <1>1, <1>2, HearFacts DEF WiresOK
<1>6. Goto(x, "load")
  BY <1>1, <1>4 DEF Signature
<1>7. pc'[x] = "load" /\ pc'[Peer(x)] = pc[Peer(x)]
  BY <1>2, <1>6, GotoFacts DEF Pcs, SenderPcs
<1>8. /\ Sending' = Sending /\ Receiving' = Receiving /\ Files(x)' = Files(x)
  <2>1. UNCHANGED <<request, selected>>
    BY <1>1 DEF told
  <2> QED
    BY <2>1 DEF Sending, Receiving, Files
<1>9. Live(Peer(x)) => Exchanging'
  <2> SUFFICES ASSUME Live(Peer(x))
               PROVE  Exchanging'
    OBVIOUS
  <2>1. <<Signature(f[x])>> # <<>> /\ <<Signature(f[x])>> # <<Done>>
    BY DEF Signature, Done, Msg
  <2>2. pc[Receiving] = "delta" /\ wire[Receiving] = <<>> /\ f[Sending] = f[Receiving]
    BY <1>1, <1>2, <1>3, <2>1 DEF Starting, Exchanging, Between
  <2> QED
    BY <1>1, <1>2, <1>4, <1>5, <1>7, <1>8, <2>2 DEF Exchanging, Between
<1>10. ~Live(Peer(x)) => TransferHears'
  BY <1>2, <1>4, <1>7, <1>8 DEF TransferHears, Live
<1> QED
  BY <1>1, <1>2, <1>5, <1>6, <1>9, <1>10, SenderMoves

\* Sender: a delta.
LEMMA SendDeltaStep ==
  ASSUME DaemonInv, NEW x \in Side, SendDelta(x)
  PROVE  DaemonInv'
<1> USE Sides
<1>1. /\ pc[x] = "load" /\ pc[x] \in InTransfer /\ pc[x] \in SenderPcs
      /\ Say(x, Delta(f[x]), "turn") /\ f' = [f EXCEPT ![x] = f[x] + 1]
      /\ UNCHANGED <<request, told, n, listed, written>>
  BY DEF SendDelta, At, InTransfer, SenderPcs, Delta
<1>2. /\ TypeOK /\ x = Sending /\ Peer(x) = Receiving /\ Files(x) \in Nat /\ wire[x] = <<>>
      /\ n \in [Side -> Nat] /\ f \in [Side -> Nat]
      /\ Live(Receiving) => Starting \/ Exchanging
      /\ n[x] = Files(x) /\ f[x] \in 1..n[x] + 1 /\ f[x] <= n[x]
  BY <1>1, TransferFacts DEF TransferHears, SenderAt
<1>3. /\ n' \in [Side -> Nat] /\ n'[x] = Files(x) /\ n'[Peer(x)] = n[Peer(x)]
      /\ f' \in [Side -> Nat] /\ f'[x] = f[x] + 1 /\ f'[Peer(x)] = f[Peer(x)]
  BY <1>1, <1>2
<1>4. /\ Delta(f[x]) \in Message /\ Sending' = Sending /\ Receiving' = Receiving
  <2>1. \A k \in Nat : Delta(k) \in Message
    BY <1>2, Messages
  <2>2. f[x] \in Nat
    BY <1>2
  <2>3. request' = request
    BY <1>1
  <2> QED
    BY <2>1, <2>2, <2>3 DEF Sending, Receiving
<1>5. /\ WiresOK'
      /\ \/ /\ Goto(x, "turn") /\ wire'[x] = <<>>
            /\ Live(Peer(x)) => wire'[Peer(x)] = Append(wire[Peer(x)], Delta(f[x]))
         \/ pc[Peer(x)] = "end" /\ Leave(x, "cut") /\ wire' = wire
  <2>1. "turn" \in InTransfer
    BY DEF InTransfer, SenderPcs
  <2>2. TypeOK /\ wire[x] = <<>> /\ Delta(f[x]) \in Message /\ Say(x, Delta(f[x]), "turn")
    BY <1>1, <1>2, <1>4
  <2> QED
    BY ONLY <2>1, <2>2, TransferSays, x \in Side
<1>6. CASE pc[Peer(x)] = "end" /\ Leave(x, "cut") /\ wire' = wire
  BY <1>1, <1>3, <1>6, TransferCut
<1>7. CASE /\ Goto(x, "turn") /\ wire'[x] = <<>>
           /\ Live(Peer(x)) => wire'[Peer(x)] = Append(wire[Peer(x)], Delta(f[x]))
  <2>1. pc'[x] = "turn" /\ pc'[Peer(x)] = pc[Peer(x)]
    BY <1>2, <1>7, GotoFacts DEF Pcs, SenderPcs
  <2>2. Live(Peer(x)) => Exchanging'
    <3> SUFFICES ASSUME Live(Peer(x))
                 PROVE  Exchanging'
      OBVIOUS
    <3>1. pc[Receiving] = "delta" /\ wire[Receiving] = <<>> /\ f[Sending] = f[Receiving]
      BY <1>1, <1>2 DEF Starting, Exchanging, Between
    <3>2. wire'[Receiving] = <<Delta(f[x])>>
      BY <1>2, <1>7, <3>1, Streams
    <3>3. /\ f'[Sending'] = f'[Receiving'] + 1
          /\ Between("turn", "delta", <<>>, <<Delta(f[Receiving])>>)'
      BY <1>2, <1>3, <1>4, <1>7, <2>1, <3>1, <3>2 DEF Between
    <3> QED
      BY <3>3 DEF Exchanging
  <2>3. ~Live(Peer(x)) => TransferHears'
    BY <1>2, <1>4, <1>7, <2>1 DEF TransferHears, Live
  <2>4. f'[x] \in 1..n'[x] + 1
    BY <1>2, <1>3
  <2> QED
    BY <1>1, <1>2, <1>3, <1>5, <1>7, <2>2, <2>3, <2>4, SenderMoves
<1> QED
  BY <1>5, <1>6, <1>7

\* Sender: every delta is under way, and the end of the transfer is awaited.
LEMMA SenderEndsStep ==
  ASSUME DaemonInv, NEW x \in Side, SenderEnds(x)
  PROVE  DaemonInv'
<1> USE Sides
<1>1. /\ pc[x] \in {"turn", "waitDone"} /\ pc[x] \in InTransfer /\ pc[x] \in SenderPcs
      /\ UNCHANGED <<request, told, listed, written, n, f>>
  BY DEF SenderEnds, At, InTransfer, SenderPcs, transfer
<1>2. /\ TypeOK /\ x = Sending /\ Peer(x) = Receiving /\ Live(x) /\ listed \in Nat
      /\ n \in [Side -> Nat] /\ f \in [Side -> Nat]
      /\ Live(Receiving) => Starting \/ Exchanging
      /\ n[x] = Files(x) /\ f[x] \in 1..n[x] + 1 /\ n[x] \in Nat
      /\ TransferHears /\ ReceiverAt /\ direction # "none" /\ result["server"] # "refused"
      /\ x = "client" => pc["server"] \notin Unanswered \cup {"refuseSent"}
  BY <1>1, TransferFacts DEF SenderAt
<1>3. /\ Sending' = Sending /\ Receiving' = Receiving
      /\ Files(x)' = Files(x) /\ Done' = Done /\ List' = List /\ Ok' = Ok
  <2>1. UNCHANGED <<request, selected>>
    BY <1>1 DEF told
  <2> QED
    BY <2>1 DEF Sending, Receiving, Files, Done, List, Ok
<1>4. CASE At(x, "turn") /\ f[x] > n[x] /\ Goto(x, "waitDone") /\ UNCHANGED wire
  <2>1. pc'[x] = "waitDone" /\ pc'[Peer(x)] = pc[Peer(x)] /\ pc[x] = "turn"
    BY <1>2, <1>4, GotoFacts DEF Pcs, SenderPcs, At
  <2>2. WiresOK'
    BY <1>2, <1>4 DEF TypeOK, WiresOK
  <2>3. f[x] = n[x] + 1
    BY <1>2, <1>4
  <2>4. Live(Peer(x)) => (Starting \/ Exchanging)'
    <3> SUFFICES ASSUME Live(Peer(x))
                 PROVE  (Starting \/ Exchanging)'
      OBVIOUS
    <3>1. CASE Starting
      BY <1>1, <1>2, <1>3, <1>4, <2>1, <3>1 DEF Starting, Between
    <3>2. CASE Exchanging
      <4>1. pc[Receiving] = "delta" => f[Receiving] <= n[x]
        BY <1>2 DEF ReceiverAt, ReceiverPcs
      <4>2. ~(f[Sending] = f[Receiving] /\ pc[Receiving] = "delta")
        <5>1. ~(f[x] <= n[x])
          BY <1>2, <2>3
        <5> QED
          BY <1>2, <4>1, <5>1
      <4> QED
        BY <1>1, <1>2, <1>3, <1>4, <2>1, <3>2, <4>2 DEF Exchanging, Between
    <3> QED
      BY <1>2, <3>1, <3>2
  <2>5. ~Live(Peer(x)) => TransferHears'
    <3> SUFFICES ASSUME ~Live(Peer(x))
                 PROVE  TransferHears'
      OBVIOUS
    <3>1. ~(f[x] <= n[x])
      BY <1>2, <2>3
    <3>2. wire[x] = <<>> \/ (wire[x] = <<Done>> /\ Finished)
      BY <1>2, <2>1, <3>1 DEF TransferHears
    <3>3. Finished => Finished'
      <4>1. Files(Sending)' = Files(Sending)
        BY <1>2, <1>3
      <4> QED
        BY <1>1, <1>2, <1>3, <2>1, <4>1 DEF Finished, WrittenBy
    <3>4. wire'[x] = <<>> \/ (wire'[x] = <<Done'>> /\ Finished')
      BY <1>3, <1>4, <3>2, <3>3
    <3>5. pc'[Receiving] \in {"close", "end"}
      BY <1>2, <2>1 DEF Live
    <3> QED
      BY <1>2, <1>3, <2>1, <3>4, <3>5 DEF TransferHears
  <2> QED
    BY <1>1, <1>2, <1>4, <2>2, <2>3, <2>4, <2>5, SenderMoves
<1>5. CASE /\ At(x, "waitDone") /\ Hear(x)
           /\ IF Heard(x).kind = "done" THEN Leave(x, "ok") ELSE Leave(x, "protocol")
  <2>1. pc[x] = "waitDone" /\ wire[x] = <<Done>> /\ Finished
    BY <1>2, <1>5 DEF At, TransferHears, Hear
  <2>2. Heard(x) = Done
    BY <1>2, <1>5, <2>1, HearShort
  <2>3. Leave(x, "ok")
    BY <1>5, <2>2, Kinds
  <2>4. WiresOK' /\ wire'[Peer(x)] = wire[Peer(x)]
    BY <1>2, <1>5, HearFacts DEF WiresOK
  <2>5. WrittenBy(Receiving, Files(Sending)) /\ pc[Receiving] \in {"doneSent", "close", "end"}
    BY <2>1 DEF Finished
  <2>6. x = "client" => Refusal'
    <3> SUFFICES ASSUME x = "client"
                 PROVE  Refusal'
      OBVIOUS
    <3>1. pc'["server"] = pc["server"] /\ result'["server"] = result["server"]
      BY <1>2, <2>3 DEF Leave, TypeOK
    <3> QED
      BY <1>2, <3>1 DEF Refusal, Unanswered
  <2> QED
    BY <1>1, <1>2, <2>3, <2>4, <2>5, <2>6, LeaveStep DEF Outcome
<1> QED
  BY <1>4, <1>5 DEF SenderEnds

\* Receiver, once it has the list.
LEMMA ReceiverFacts ==
  ASSUME DaemonInv, NEW x \in Side, pc[x] \in ReceiverPcs \ {"recvList"}
  PROVE  /\ x = Receiving /\ Peer(x) = Sending /\ pc[x] \in InTransfer
         /\ n[x] = Files(Sending) /\ n[x] \in Nat /\ f[x] \in 1..n[x] + 1 /\ WrittenBy(x, f[x] - 1)
         /\ pc[x] \in {"delta", "write"} => f[x] <= n[x]
         /\ pc[x] = "doneSent" => f[x] = n[x] + 1
         /\ pc[x] \in {"entry", "write", "doneSent"} => wire[x] = <<>>
         /\ pc[x] = "delta" => wire[x] \in {<<>>, <<Delta(f[x])>>}
<1>1. /\ x = Receiving /\ Peer(x) = Sending /\ pc[x] \in InTransfer /\ Files(Sending) \in Nat
      /\ ReceiverAt /\ TransferHears
  BY TransferFacts DEF InTransfer
<1>2. /\ n[x] = Files(Sending) /\ f[x] \in 1..n[x] + 1 /\ WrittenBy(x, f[x] - 1)
      /\ pc[x] \in {"delta", "write"} => f[x] <= n[x]
      /\ pc[x] = "doneSent" => f[x] = n[x] + 1
  BY <1>1 DEF ReceiverAt
<1>3. /\ pc[x] \in {"entry", "write", "doneSent"} => wire[x] = <<>>
      /\ pc[x] = "delta" => wire[x] \in {<<>>, <<Delta(f[x])>>}
  BY <1>1 DEF TransferHears
<1> QED
  BY <1>1, <1>2, <1>3

\* Receiver: the list is read.
LEMMA ReceiveListStep ==
  ASSUME DaemonInv, NEW x \in Side, ReceiveList(x)
  PROVE  DaemonInv'
<1> USE Sides
<1>1. /\ pc[x] = "recvList" /\ pc[x] \in InTransfer /\ pc[x] \in ReceiverPcs \ {"doneSent"}
      /\ pc[x] \in ReceiverPcs /\ Hear(x) /\ UNCHANGED <<request, told, listed, written>>
      /\ Heard(x).kind = "list" => /\ n' = [n EXCEPT ![x] = Heard(x).val]
                                   /\ f' = [f EXCEPT ![x] = 1] /\ Goto(x, "entry")
  BY DEF ReceiveList, At, InTransfer, ReceiverPcs
<1>2. /\ TypeOK /\ x = Receiving /\ Peer(x) = Sending /\ Live(x) /\ Files(Sending) \in Nat
      /\ n \in [Side -> Nat] /\ f \in [Side -> Nat] /\ written \in [Side -> Nat]
      /\ Live(Sending) => Starting \/ Exchanging
      /\ wire[x] \in {<<>>, <<List>>} /\ ReceiverAt
  BY <1>1, TransferFacts DEF TransferHears
<1>3. wire[x] = <<List>>
  BY <1>1, <1>2 DEF Hear
<1>4. Heard(x) = List /\ wire'[x] = <<>>
  BY <1>1, <1>2, <1>3, HearShort
<1>5. n' = [n EXCEPT ![x] = Files(Sending)] /\ f' = [f EXCEPT ![x] = 1] /\ Goto(x, "entry")
  BY <1>1, <1>4, Kinds
<1>6. /\ n' \in [Side -> Nat] /\ n'[x] = Files(Peer(x)) /\ n'[Peer(x)] = n[Peer(x)]
      /\ f' \in [Side -> Nat] /\ f'[x] = 1 /\ f'[Peer(x)] = f[Peer(x)]
  BY <1>2, <1>5
<1>7. WiresOK' /\ wire'[Peer(x)] = wire[Peer(x)]
  BY <1>1, <1>2, HearFacts DEF WiresOK
<1>8. pc'[x] = "entry" /\ pc'[Peer(x)] = pc[Peer(x)]
  BY <1>2, <1>5, GotoFacts DEF Pcs, ReceiverPcs
<1>9. Sending' = Sending /\ Receiving' = Receiving
  BY <1>1 DEF Sending, Receiving
<1>10. WrittenBy(x, f[x] - 1)'
  <2>1. written'[x] = 0
    BY <1>1, <1>2 DEF ReceiverAt
  <2> QED
    BY <1>6, <2>1 DEF WrittenBy
<1>11. Live(Peer(x)) => Exchanging'
  <2> SUFFICES ASSUME Live(Peer(x))
               PROVE  Exchanging'
    OBVIOUS
  <2>1. <<List>> # <<>>
    BY Streams
  <2>2. pc[Sending] \in {"turn", "waitDone"} /\ wire[Sending] = <<>> /\ f[Sending] = 1
    BY <1>1, <1>2, <1>3, <2>1 DEF Starting, Exchanging, Between
  <2>3. /\ f'[Sending'] = f'[Receiving']
        /\ \E s \in {"turn", "waitDone"} : Between(s, "entry", <<>>, <<>>)'
    <3>1. f'[Sending] = 1 /\ f'[Receiving] = 1
      BY <1>2, <1>6, <2>2
    <3>2. pc'[Sending] = pc[Sending] /\ pc'[Receiving] = "entry" /\ wire'[Sending] = <<>> /\ wire'[Receiving] = <<>>
      BY <1>2, <1>4, <1>7, <1>8, <2>2
    <3> QED
      BY ONLY <1>9, <2>2, <3>1, <3>2 DEF Between
  <2> QED
    BY ONLY <2>3 DEF Exchanging
<1>12. ~Live(Peer(x)) => TransferHears'
  BY <1>2, <1>4, <1>8, <1>9 DEF TransferHears, Live
<1>13. f'[x] \in 1..n'[x] + 1 /\ "entry" \in ReceiverPcs \ {"recvList"}
  <2>1. n'[x] \in Nat /\ f'[x] = 1
    BY <1>2, <1>6
  <2>2. f'[x] \in 1..n'[x] + 1
    BY ONLY <2>1
  <2> QED
    BY <2>2 DEF ReceiverPcs
<1> QED
  BY <1>1, <1>2, <1>5, <1>6, <1>7, <1>10, <1>11, <1>12, <1>13, ReceiverMoves

\* Receiver: a signature.
LEMMA SendSignatureStep ==
  ASSUME DaemonInv, NEW x \in Side, SendSignature(x)
  PROVE  DaemonInv'
<1> USE Sides
<1>1. /\ pc[x] = "entry" /\ pc[x] \in InTransfer /\ pc[x] \in ReceiverPcs \ {"doneSent"}
      /\ pc[x] \in ReceiverPcs /\ f[x] <= n[x] /\ Say(x, Signature(f[x]), "delta")
      /\ UNCHANGED <<request, told, listed, written, n, f>>
  BY DEF SendSignature, At, InTransfer, ReceiverPcs, Signature, transfer
<1>2. /\ TypeOK /\ x = Receiving /\ Peer(x) = Sending /\ Files(Sending) \in Nat /\ wire[x] = <<>>
      /\ n \in [Side -> Nat] /\ f \in [Side -> Nat] /\ written \in [Side -> Nat]
      /\ Live(Sending) => Starting \/ Exchanging
      /\ n[x] = Files(Sending) /\ f[x] \in 1..n[x] + 1 /\ WrittenBy(x, f[x] - 1)
      /\ pc[Sending] = "waitDone" => f[Sending] = n[Sending] + 1 /\ n[Sending] = Files(Sending)
  BY <1>1, TransferFacts DEF TransferHears, SenderAt, ReceiverAt, ReceiverPcs
<1>3. /\ Signature(f[x]) \in Message /\ Sending' = Sending /\ Receiving' = Receiving
  <2>1. \A k \in Nat : Signature(k) \in Message
    BY <1>2, Messages
  <2>2. f[x] \in Nat /\ request' = request
    BY <1>1, <1>2
  <2> QED
    BY <2>1, <2>2 DEF Sending, Receiving
<1>4. /\ WiresOK'
      /\ \/ /\ Goto(x, "delta") /\ wire'[x] = <<>>
            /\ Live(Peer(x)) => wire'[Peer(x)] = Append(wire[Peer(x)], Signature(f[x]))
         \/ pc[Peer(x)] = "end" /\ Leave(x, "cut") /\ wire' = wire
  <2>1. "delta" \in InTransfer
    BY DEF InTransfer, ReceiverPcs
  <2>2. TypeOK /\ wire[x] = <<>> /\ Signature(f[x]) \in Message /\ Say(x, Signature(f[x]), "delta")
    BY <1>1, <1>2, <1>3
  <2> QED
    BY ONLY <2>1, <2>2, TransferSays, x \in Side
<1>5. CASE pc[Peer(x)] = "end" /\ Leave(x, "cut") /\ wire' = wire
  BY <1>1, <1>2, <1>5, TransferCut
<1>6. CASE /\ Goto(x, "delta") /\ wire'[x] = <<>>
           /\ Live(Peer(x)) => wire'[Peer(x)] = Append(wire[Peer(x)], Signature(f[x]))
  <2>1. pc'[x] = "delta" /\ pc'[Peer(x)] = pc[Peer(x)] /\ "delta" \in ReceiverPcs \ {"recvList"}
    BY <1>2, <1>6, GotoFacts DEF Pcs, ReceiverPcs
  <2>2. Live(Peer(x)) => Exchanging'
    <3> SUFFICES ASSUME Live(Peer(x))
                 PROVE  Exchanging'
      OBVIOUS
    <3>1. /\ pc[Sending] \in {"turn", "waitDone"} /\ wire[Sending] = <<>>
          /\ f[Sending] = f[Receiving]
      BY <1>1, <1>2 DEF Starting, Exchanging, Between
    <3>2. pc[Sending] = "turn"
      <4>1. f[Sending] # n[x] + 1
        BY <1>1, <1>2, <3>1
      <4> QED
        BY <1>2, <3>1, <4>1
    <3>3. wire'[Sending] = <<Signature(f[x])>>
      <4>1. Append(<<>>, Signature(f[x])) = <<Signature(f[x])>>
        BY Streams
      <4> QED
        BY <1>2, <1>6, <3>1, <4>1
    <3>4. /\ f'[Sending'] = f'[Receiving']
          /\ Between("turn", "delta", <<Signature(f[Receiving])>>, <<>>)'
      BY <1>1, <1>2, <1>3, <1>6, <2>1, <3>1, <3>2, <3>3 DEF Between
    <3> QED
      BY <3>4 DEF Exchanging
  <2>3. ~Live(Peer(x)) => TransferHears'
    BY <1>2, <1>3, <1>6, <2>1 DEF TransferHears, Live
  <2>4. WrittenBy(x, f[x] - 1)'
    BY <1>1, <1>2 DEF WrittenBy
  <2> QED
    BY <1>1, <1>2, <1>4, <1>6, <2>1, <2>2, <2>3, <2>4, ReceiverMoves
<1> QED
  BY <1>4, <1>5, <1>6

\* Receiver: a delta is read.
LEMMA ReceiveDeltaStep ==
  ASSUME DaemonInv, NEW x \in Side, ReceiveDelta(x)
  PROVE  DaemonInv'
<1> USE Sides
<1>1. /\ pc[x] = "delta" /\ pc[x] \in InTransfer /\ pc[x] \in ReceiverPcs \ {"doneSent"}
      /\ pc[x] \in ReceiverPcs /\ Hear(x)
      /\ IF Heard(x) = Msg("delta", f[x]) THEN Goto(x, "write") ELSE Leave(x, "protocol")
      /\ UNCHANGED <<request, told, listed, written, n, f>>
  BY DEF ReceiveDelta, At, InTransfer, ReceiverPcs, transfer
<1>2. /\ TypeOK /\ x = Receiving /\ Peer(x) = Sending
      /\ n \in [Side -> Nat] /\ f \in [Side -> Nat] /\ written \in [Side -> Nat]
      /\ Live(Sending) => Starting \/ Exchanging
      /\ n[x] = Files(Sending) /\ f[x] \in 1..n[x] + 1 /\ f[x] <= n[x] /\ WrittenBy(x, f[x] - 1)
      /\ wire[x] \in {<<>>, <<Delta(f[x])>>}
  <2>1. pc[x] \in ReceiverPcs \ {"recvList"}
    BY <1>1
  <2>2. /\ TypeOK /\ Live(x) /\ listed \in Nat /\ dryRun[x] = request.dryRun
        /\ n \in [Side -> Nat] /\ f \in [Side -> Nat] /\ written \in [Side -> Nat]
        /\ Live(Peer(x)) => Starting \/ Exchanging
        /\ direction # "none" /\ result["server"] # "refused"
        /\ x = "client" => pc["server"] \notin Unanswered \cup {"refuseSent"}
    BY <1>1, TransferFacts
  <2> QED
    BY <1>1, <2>1, <2>2, ReceiverFacts
<1>3. wire[x] = <<Delta(f[x])>>
  BY <1>1, <1>2 DEF Hear
<1>4. Heard(x) = Delta(f[x]) /\ wire'[x] = <<>>
  BY <1>1, <1>2, <1>3, HearShort
<1>5. Goto(x, "write")
  BY <1>1, <1>4 DEF Delta
<1>6. WiresOK' /\ wire'[Peer(x)] = wire[Peer(x)]
  BY <1>1, <1>2, HearFacts DEF WiresOK
<1>7. pc'[x] = "write" /\ pc'[Peer(x)] = pc[Peer(x)] /\ "write" \in ReceiverPcs \ {"recvList"}
  BY <1>2, <1>5, GotoFacts DEF Pcs, ReceiverPcs
<1>8. /\ Sending' = Sending /\ Receiving' = Receiving /\ Files(Sending)' = Files(Sending)
  <2>1. UNCHANGED <<request, selected>>
    BY <1>1 DEF told
  <2> QED
    BY <2>1 DEF Sending, Receiving, Files
<1>9. Live(Peer(x)) => Exchanging'
  <2> SUFFICES ASSUME Live(Peer(x))
               PROVE  Exchanging'
    OBVIOUS
  <2>1. <<Delta(f[x])>> # <<>>
    BY Streams
  <2>2. /\ pc[Sending] \in {"turn", "waitDone"} /\ wire[Sending] = <<>>
        /\ f[Sending] = f[Receiving] + 1
    BY <1>1, <1>2, <1>3, <2>1 DEF Starting, Exchanging, Between
  <2> QED
    BY <1>1, <1>2, <1>4, <1>6, <1>7, <1>8, <2>2 DEF Exchanging, Between
<1>10. ~Live(Peer(x)) => TransferHears'
  BY <1>2, <1>4, <1>7, <1>8 DEF TransferHears, Live
<1>11. WrittenBy(x, f[x] - 1)'
  BY <1>1, <1>2 DEF WrittenBy
<1> QED
  BY <1>1, <1>2, <1>5, <1>6, <1>7, <1>9, <1>10, <1>11, ReceiverMoves

\* Receiver: a file is written, or would have been.
LEMMA WriteFileStep ==
  ASSUME DaemonInv, NEW x \in Side, WriteFile(x)
  PROVE  DaemonInv'
<1> USE Sides
<1>1. /\ pc[x] = "write" /\ pc[x] \in InTransfer /\ pc[x] \in ReceiverPcs \ {"doneSent"}
      /\ pc[x] \in ReceiverPcs /\ Goto(x, "entry")
      /\ written' = [written EXCEPT ![x] = IF dryRun[x] THEN written[x] ELSE written[x] + 1]
      /\ f' = [f EXCEPT ![x] = f[x] + 1]
      /\ UNCHANGED <<request, told, listed, n, wire>>
  BY DEF WriteFile, At, InTransfer, ReceiverPcs
<1>2. /\ TypeOK /\ x = Receiving /\ Peer(x) = Sending /\ dryRun[x] = request.dryRun
      /\ n \in [Side -> Nat] /\ f \in [Side -> Nat] /\ written \in [Side -> Nat]
      /\ Live(Sending) => Starting \/ Exchanging
      /\ n[x] = Files(Sending) /\ f[x] \in 1..n[x] + 1 /\ f[x] <= n[x] /\ WrittenBy(x, f[x] - 1)
      /\ wire[x] = <<>>
  <2>1. pc[x] \in ReceiverPcs \ {"recvList"}
    BY <1>1
  <2>2. /\ TypeOK /\ Live(x) /\ listed \in Nat /\ dryRun[x] = request.dryRun
        /\ n \in [Side -> Nat] /\ f \in [Side -> Nat] /\ written \in [Side -> Nat]
        /\ Live(Peer(x)) => Starting \/ Exchanging
        /\ direction # "none" /\ result["server"] # "refused"
        /\ x = "client" => pc["server"] \notin Unanswered \cup {"refuseSent"}
    BY <1>1, TransferFacts
  <2> QED
    BY <1>1, <2>1, <2>2, ReceiverFacts
<1>3. /\ f' \in [Side -> Nat] /\ f'[x] = f[x] + 1 /\ f'[Peer(x)] = f[Peer(x)]
      /\ f'[x] \in 1..n[x] + 1
  BY <1>1, <1>2
<1>4. /\ written' \in [Side -> Nat] /\ written'[Peer(x)] = written[Peer(x)]
      /\ written'[x] = IF request.dryRun THEN written[x] ELSE written[x] + 1
  <2>1. (IF dryRun[x] THEN written[x] ELSE written[x] + 1) \in Nat
    BY <1>2
  <2> QED
    BY <1>1, <1>2, <2>1
<1>5. WrittenBy(x, f[x] - 1)'
  <2>1. written[x] = IF request.dryRun THEN 0 ELSE f[x] - 1
    BY <1>2 DEF WrittenBy
  <2>2. f[x] \in Nat /\ f[x] - 1 + 1 = f[x] + 1 - 1
    BY <1>2
  <2> QED
    BY <1>1, <1>3, <1>4, <2>1, <2>2 DEF WrittenBy
<1>6. WiresOK' /\ wire' = wire
  BY <1>1, <1>2 DEF WiresOK, TypeOK
<1>7. pc'[x] = "entry" /\ pc'[Peer(x)] = pc[Peer(x)] /\ "entry" \in ReceiverPcs \ {"recvList"}
  BY <1>1, <1>2, GotoFacts DEF Pcs, ReceiverPcs
<1>8. Sending' = Sending /\ Receiving' = Receiving
  BY <1>1 DEF Sending, Receiving
<1>9. Live(Peer(x)) => Exchanging'
  <2> SUFFICES ASSUME Live(Peer(x))
               PROVE  Exchanging'
    OBVIOUS
  <2>1. /\ pc[Sending] \in {"turn", "waitDone"} /\ wire[Sending] = <<>>
        /\ f[Sending] = f[Receiving] + 1
    BY <1>1, <1>2 DEF Starting, Exchanging, Between
  <2> QED
    BY <1>2, <1>3, <1>6, <1>7, <1>8, <2>1 DEF Exchanging, Between
<1>10. ~Live(Peer(x)) => TransferHears'
  BY <1>2, <1>6, <1>7, <1>8 DEF TransferHears, Live
<1> QED
  BY <1>1, <1>2, <1>3, <1>4, <1>5, <1>6, <1>7, <1>9, <1>10, ReceiverMoves

\* Receiver: the end of the transfer.
LEMMA SendDoneStep ==
  ASSUME DaemonInv, NEW x \in Side, SendDone(x)
  PROVE  DaemonInv'
<1> USE Sides
<1>1. /\ pc[x] \in {"entry", "doneSent"} /\ pc[x] \in InTransfer /\ pc[x] \in ReceiverPcs
      /\ UNCHANGED <<request, told, listed, written, n, f>>
  BY DEF SendDone, At, InTransfer, ReceiverPcs, transfer
<1>2. /\ TypeOK /\ x = Receiving /\ Peer(x) = Sending /\ Live(x) /\ listed \in Nat
      /\ n \in [Side -> Nat] /\ f \in [Side -> Nat] /\ written \in [Side -> Nat]
      /\ Live(Sending) => Starting \/ Exchanging
      /\ n[x] = Files(Sending) /\ n[x] \in Nat /\ f[x] \in 1..n[x] + 1 /\ WrittenBy(x, f[x] - 1)
      /\ wire[x] = <<>> /\ direction # "none" /\ result["server"] # "refused"
      /\ pc[x] = "doneSent" => f[x] = n[x] + 1
      /\ x = "client" => pc["server"] \notin Unanswered \cup {"refuseSent"}
  <2>1. pc[x] \in ReceiverPcs \ {"recvList"}
    BY <1>1
  <2>2. /\ TypeOK /\ Live(x) /\ listed \in Nat /\ dryRun[x] = request.dryRun
        /\ n \in [Side -> Nat] /\ f \in [Side -> Nat] /\ written \in [Side -> Nat]
        /\ Live(Peer(x)) => Starting \/ Exchanging
        /\ direction # "none" /\ result["server"] # "refused"
        /\ x = "client" => pc["server"] \notin Unanswered \cup {"refuseSent"}
    BY <1>1, TransferFacts
  <2> QED
    BY <1>1, <2>1, <2>2, ReceiverFacts
<1>3. Sending' = Sending /\ Receiving' = Receiving /\ Done' = Done
  BY <1>1 DEF Sending, Receiving, Done
<1>4. CASE At(x, "entry") /\ f[x] > n[x] /\ Say(x, Msg("done", ""), "doneSent")
  <2>1. /\ WiresOK'
        /\ \/ /\ Goto(x, "doneSent") /\ wire'[x] = <<>>
              /\ Live(Peer(x)) => wire'[Peer(x)] = Append(wire[Peer(x)], Done)
           \/ pc[Peer(x)] = "end" /\ Leave(x, "cut") /\ wire' = wire
    <3>1. "doneSent" \in InTransfer
      BY DEF InTransfer, ReceiverPcs
    <3>2. TypeOK /\ wire[x] = <<>> /\ Done \in Message /\ Say(x, Done, "doneSent")
      BY <1>2, <1>4, Messages DEF Done
    <3> QED
      BY ONLY <3>1, <3>2, TransferSays, x \in Side
  <2>2. CASE pc[Peer(x)] = "end" /\ Leave(x, "cut") /\ wire' = wire
    BY <1>1, <1>2, <2>2, TransferCut
  <2>3. CASE /\ Goto(x, "doneSent") /\ wire'[x] = <<>>
             /\ Live(Peer(x)) => wire'[Peer(x)] = Append(wire[Peer(x)], Done)
    <3>1. /\ pc[x] = "entry" /\ pc'[x] = "doneSent" /\ pc'[Peer(x)] = pc[Peer(x)]
          /\ "doneSent" \in ReceiverPcs \ {"recvList"} /\ pc[x] \in ReceiverPcs \ {"doneSent"}
      <4>1. "doneSent" \in Pcs(x) /\ "doneSent" \in ReceiverPcs \ {"recvList"} /\ pc[x] = "entry"
        BY <1>4 DEF Pcs, ReceiverPcs, At
      <4>2. pc'[x] = "doneSent" /\ pc'[Peer(x)] = pc[Peer(x)]
        BY ONLY <1>2, <2>3, <4>1, GotoFacts, x \in Side
      <4> QED
        BY <1>1, <4>1, <4>2
    <3>2. f[x] = n[x] + 1
      <4>1. f[x] > n[x] /\ f[x] \in 1..n[x] + 1 /\ n[x] \in Nat
        BY <1>2, <1>4
      <4> QED
        BY ONLY <4>1
    <3>3. Live(Peer(x)) => Exchanging'
      <4> SUFFICES ASSUME Live(Peer(x))
                   PROVE  Exchanging'
        OBVIOUS
      <4>1. /\ pc[Sending] \in {"turn", "waitDone"} /\ wire[Sending] = <<>>
            /\ f[Sending] = f[Receiving]
        BY <1>2, <3>1 DEF Starting, Exchanging, Between
      <4>2. wire'[Sending] = <<Done>>
        <5>1. Append(<<>>, Done) = <<Done>>
          BY Streams
        <5> QED
          BY <1>2, <2>3, <4>1, <5>1
      <4> QED
        BY <1>1, <1>2, <1>3, <2>3, <3>1, <4>1, <4>2 DEF Exchanging, Between
    <3>4. ~Live(Peer(x)) => TransferHears'
      BY <1>2, <1>3, <2>3, <3>1 DEF TransferHears, Live
    <3>5. WrittenBy(x, f[x] - 1)'
      BY <1>1, <1>2 DEF WrittenBy
    <3> QED
      BY <1>1, <1>2, <2>1, <2>3, <3>1, <3>2, <3>3, <3>4, <3>5, ReceiverMoves
  <2> QED
    BY <2>1, <2>2, <2>3
<1>5. CASE At(x, "doneSent") /\ Leave(x, "ok") /\ UNCHANGED wire
  <2>1. WrittenBy(Receiving, Files(Sending))
    <3>1. f[x] = n[x] + 1 /\ f[x] - 1 = n[x]
      BY <1>2, <1>5 DEF At
    <3> QED
      BY <1>2, <3>1
  <2>2. WiresOK'
    BY <1>2, <1>5 DEF WiresOK, TypeOK
  <2>3. x = "client" => Refusal'
    <3> SUFFICES ASSUME x = "client"
                 PROVE  Refusal'
      OBVIOUS
    <3>1. pc'["server"] = pc["server"] /\ result'["server"] = result["server"]
      BY <1>2, <1>5 DEF Leave, TypeOK
    <3> QED
      BY <1>2, <3>1 DEF Refusal, Unanswered
  <2> QED
    BY <1>1, <1>2, <1>5, <2>1, <2>2, <2>3, LeaveStep DEF Outcome
<1> QED
  BY <1>4, <1>5 DEF SendDone

-----------------------------------------------------------------------------
(* The theorems. *)

LEMMA DaemonInit == Init => DaemonInv
<1> SUFFICES ASSUME Init
             PROVE  DaemonInv
  OBVIOUS
<1> USE Sides
<1>1. /\ request \in Requests /\ selected = "" /\ direction = "none" /\ listed = 0
      /\ \A x \in Side : /\ pc[x] = "greet" /\ result[x] = "none" /\ wire[x] = <<>>
                        /\ dryRun[x] = FALSE /\ n[x] = 0 /\ f[x] = 0 /\ written[x] = 0
  BY DEF Init, Both
<1>2. TypeOK
  <2>1. <<>> \in Seq(Message) /\ Len(<<>>) = 0 /\ 0 <= Capacity
    BY CapacityAssumption
  <2>2. "greet" \in Pcs("client") /\ "greet" \in Pcs("server")
    BY DEF Pcs, Opening
  <2>3. pc \in [Side -> Pcs("client") \cup Pcs("server")] /\ \A x \in Side : pc[x] \in Pcs(x)
    BY <2>2 DEF Init, Both, Side
  <2>4. wire \in [Side -> Seq(Message)] /\ \A x \in Side : Len(wire[x]) <= Capacity
    BY <2>1 DEF Init, Both
  <2>5. /\ result \in [Side -> {"none", "ok", "listed", "refused", "cut", "protocol", "failed"}]
        /\ dryRun \in [Side -> BOOLEAN]
        /\ n \in [Side -> Nat] /\ f \in [Side -> Nat] /\ written \in [Side -> Nat]
    BY DEF Init, Both
  <2> QED
    BY <1>1, <2>3, <2>4, <2>5 DEF TypeOK
<1>3. Results /\ SenderAt /\ ReceiverAt /\ OkMeansFinished /\ OnlyPermittedWrites
  <2>1. Results
    BY <1>1 DEF Results, InPhase
  <2>2. SenderAt /\ ReceiverAt
    BY <1>1 DEF SenderAt, ReceiverAt, SenderPcs, ReceiverPcs
  <2>3. OkMeansFinished
    BY <1>1 DEF OkMeansFinished
  <2>4. written["server"] = 0
    BY <1>1, Zenon
  <2>5. OnlyPermittedWrites
    BY <2>4 DEF OnlyPermittedWrites
  <2> QED
    BY <2>1, <2>2, <2>3, <2>5
<1>4. ServerAt /\ ClientAt
  BY <1>1 DEF ServerAt, ClientAt, Live, Opening, InTransfer, SenderPcs, ReceiverPcs
<1>5. Hears
  BY <1>1 DEF Hears, ClientHears, ServerHears, TransferHears, Opening
<1>6. Together
  BY <1>1 DEF Together, Where, Meeting, Now
<1>7. Refusal
  BY <1>1 DEF Refusal, Live
<1> QED
  BY <1>2, <1>3, <1>4, <1>5, <1>6, <1>7 DEF DaemonInv, EndsOK

\* A step that changes nothing.
LEMMA Stutter == DaemonInv /\ UNCHANGED vars => DaemonInv'
<1> SUFFICES ASSUME DaemonInv, UNCHANGED vars
             PROVE  DaemonInv'
  OBVIOUS
<1>1. /\ UNCHANGED <<request, pc, result, wire, selected, direction, dryRun, n, f, listed, written>>
  BY DEF vars
<1>2. TypeOK' = TypeOK /\ OnlyPermittedWrites' = OnlyPermittedWrites
  BY <1>1 DEF TypeOK, OnlyPermittedWrites
<1>3. Results' = Results /\ SenderAt' = SenderAt /\ ReceiverAt' = ReceiverAt
      /\ OkMeansFinished' = OkMeansFinished
  BY <1>1 DEF Results, InPhase, Live, SenderAt, ReceiverAt, OkMeansFinished, Finished, WrittenBy,
              Sending, Receiving, Files
<1>4. ServerAt' = ServerAt /\ ClientAt' = ClientAt
  BY <1>1 DEF ServerAt, ClientAt, Live, Authenticated, Refused
<1>5. Hears' = Hears
  BY <1>1 DEF Hears, ClientHears, ServerHears, TransferHears, Finished, WrittenBy, Sending, Receiving,
              Files, List, ModuleLine, Response, Direction, Greeting, Challenge, Ok, Error, Done
<1>6. Together' = Together
  BY <1>1 DEF Together, Live, Where, Meeting, Listing, Refusing, Authenticating, Directing, Starting,
              Exchanging, Now, Between, Sending, Receiving, Files, List, ModuleLine, Response, Direction,
              Greeting, Challenge, Ok, Error, Done
<1>7. Refusal' = Refusal
  BY <1>1 DEF Refusal, Live, Error
<1> QED
  BY <1>2, <1>3, <1>4, <1>5, <1>6, <1>7 DEF DaemonInv, EndsOK

LEMMA DaemonStep == DaemonInv /\ [Next]_vars => DaemonInv'
<1> SUFFICES ASSUME DaemonInv, Next
             PROVE  DaemonInv'
  BY Stutter
<1>1. CASE \E x \in Side : Transfer(x) \/ EndOfStream(x) \/ CloseConn(x) \/ Breaks(x)
  BY <1>1, SendListStep, ReceiveSignatureStep, SendDeltaStep, SenderEndsStep, ReceiveListStep,
     SendSignatureStep, ReceiveDeltaStep, WriteFileStep, SendDoneStep, EndOfStreamStep, CloseConnStep,
     BreaksStep
     DEF Transfer
<1>2. CASE ClientGreeting \/ ClientListing \/ ClientAuth \/ ClientModule
  BY <1>2, ClientGreetingStep, ClientListingStep, ClientAuthStep, ClientModuleStep
<1>3. CASE ServerGreeting \/ ServerListing \/ ServerAuth \/ ServerModule \/ ServerRefuse
  BY <1>3, ServerGreetingStep, ServerListingStep, ServerAuthStep, ServerModuleStep, ServerRefuseStep
<1> QED
  BY <1>1, <1>2, <1>3, Sides DEF Next, ClientStep, ServerStep

\* The two ends agree on where they are: each is told only what was asked for, and
\* what either has to read is what it is about to read.
THEOREM DaemonInvariant == Spec => []DaemonInv
  BY DaemonInit, DaemonStep, PTL DEF Spec

\* Every variable keeps its type, and no stream holds more than it can.
THEOREM DaemonTypeCorrect == Spec => []TypeOK
<1>1. DaemonInv => TypeOK
  BY DEF DaemonInv, EndsOK
<1> QED
  BY <1>1, DaemonInvariant, PTL

\* Neither end ever reads a line or a frame that is meant for another phase, but for
\* the client that named "#list" as its module.
THEOREM InPhaseCorrect == Spec => []InPhase
<1>1. DaemonInv => InPhase
  BY DEF DaemonInv, EndsOK, Results
<1> QED
  BY <1>1, DaemonInvariant, PTL

\* A file is written into a module only for a client that asked for a real upload,
\* to a module that takes uploads, as a user it authenticated.
THEOREM OnlyPermittedWritesCorrect == Spec => []OnlyPermittedWrites
<1>1. DaemonInv => OnlyPermittedWrites
  BY DEF DaemonInv, EndsOK
<1> QED
  BY <1>1, DaemonInvariant, PTL

\* A client the server refused learns so, or had itself failed.
THEOREM RefusalReachesClientCorrect == Spec => []RefusalReachesClient
<1>1. DaemonInv => RefusalReachesClient
  BY Sides DEF DaemonInv, EndsOK, Results, Refusal, RefusalReachesClient, Live
<1> QED
  BY <1>1, DaemonInvariant, PTL

\* When either end reports success every file has been written.
THEOREM DoneMeansWrittenCorrect == Spec => []DoneMeansWritten
<1>1. DaemonInv => DoneMeansWritten
  BY Sides DEF DaemonInv, EndsOK, OkMeansFinished, Finished, WrittenBy, DoneMeansWritten
<1> QED
  BY <1>1, DaemonInvariant, PTL

-----------------------------------------------------------------------------
(* A sync with a daemon is a sync command. *)

\* The abstract command has one source, whose files are its positions.
LEMMA CommandFiles ==
  ASSUME TypeOK
  PROVE  /\ Wanted \in Nat /\ Len(Work) = 1 /\ 1 \in 1..Len(Work)
         /\ DOMAIN Work[1] = 1..Wanted
         /\ \A m \in 1..Wanted : Work[1][m] = m
         /\ UNION {Command!Files(t) : t \in 1..1 - 1} = {}
         /\ Command!All = {1} \X (1..Wanted)
<1>1. Wanted \in Nat
  BY RequestFacts DEF Wanted
<1>2. /\ Len(Work) = 1 /\ Work[1] = [m \in 1..Wanted |-> m]
  BY DEF Work
<1>3. 1..Len(Work) = {1} /\ 1..1 - 1 = {}
  BY <1>2
<1>4. Command!Files(1) = {1} \X (1..Wanted)
  BY <1>2 DEF Command!Files
<1>5. Command!All = {1} \X (1..Wanted)
  BY <1>3, <1>4 DEF Command!All
<1> QED
  BY <1>1, <1>2, <1>3, <1>5

\* A finished exchange has written every file wanted.
LEMMA FinishedIsAll ==
  DaemonInv /\ Finished /\ direction # "none" => Wanted = written[Receiving]
<1> SUFFICES ASSUME DaemonInv, Finished, direction # "none"
             PROVE  Wanted = written[Receiving]
  OBVIOUS
<1>1. selected = request.module /\ request.module \in DOMAIN Config /\ TypeOK
  BY DEF DaemonInv, EndsOK, ServerAt, Authenticated
<1>2. Files(Sending) = IF request.direction = "put" THEN request.files
                       ELSE Config[request.module].files
  BY <1>1 DEF Files, Sending
<1> QED
  BY <1>1, <1>2 DEF Finished, WrittenBy, Wanted

Pairs == {1} \X (1..written[Receiving])
ClientResult == IF result["client"] = "none" THEN "running" ELSE result["client"]

LEMMA Mapped == /\ Command!vars = <<Work, Pairs, ClientResult>>
                /\ Command!vars' = <<Work', Pairs', ClientResult'>>
  BY DEF Command!vars, Pairs, ClientResult

\* A file written is the next in order; of a dry run nothing is.
LEMMA WriteRefines ==
  ASSUME DaemonInv, NEW x \in Side, WriteFile(x)
  PROVE  [Command!Next]_(Command!vars)
<1>1. /\ pc[x] = "write" /\ UNCHANGED <<request, result>>
      /\ written' = [written EXCEPT ![x] = IF dryRun[x] THEN written[x] ELSE written[x] + 1]
  BY DEF WriteFile, At, Goto
<1>2. /\ x = Receiving /\ f[x] <= n[x] /\ n[x] = Files(Sending) /\ n[x] \in Nat
      /\ f[x] \in 1..n[x] + 1 /\ WrittenBy(x, f[x] - 1)
  <2>1. pc[x] \in ReceiverPcs \ {"recvList"}
    BY <1>1 DEF ReceiverPcs
  <2> QED
    BY <1>1, <2>1, ReceiverFacts
<1>3. /\ TypeOK /\ direction # "none" /\ dryRun[x] = request.dryRun
      /\ written \in [Side -> Nat] /\ OkMeansFinished
  <2>1. pc[x] \in InTransfer /\ pc[x] \in ReceiverPcs
    BY <1>1 DEF InTransfer, ReceiverPcs
  <2> QED
    BY <2>1, TransferFacts DEF DaemonInv, EndsOK
<1>4. /\ Work' = Work /\ ClientResult' = ClientResult /\ Receiving' = Receiving
  BY <1>1 DEF Work, Wanted, ClientResult, Receiving, Sending
<1>5. CASE request.dryRun
  <2>1. written'[x] = written[x]
    BY <1>1, <1>3, <1>5
  <2>2. Pairs' = Pairs
    BY <1>2, <1>4, <2>1 DEF Pairs
  <2> QED
    BY <1>4, <2>2, Mapped
<1>6. CASE ~request.dryRun
  <2>1. written[x] = f[x] - 1 /\ written'[x] = f[x] /\ f[x] \in Nat /\ 1 <= f[x]
    BY <1>1, <1>2, <1>3, <1>6 DEF WrittenBy
  <2>2. Wanted = Files(Sending)
    <3>1. selected = request.module /\ Authenticated
      BY <1>3 DEF DaemonInv, ServerAt
    <3> QED
      BY <1>6, <3>1 DEF Wanted, Files, Sending, Authenticated
  <2>3. f[x] \in 1..Wanted
    BY <1>2, <2>1, <2>2
  <2>4. Pairs = {1} \X (1..f[x] - 1) /\ Pairs' = Pairs \cup {<<1, f[x]>>}
    <3>1. 1..f[x] = 1..f[x] - 1 \cup {f[x]}
      BY <2>1
    <3>2. Pairs = {1} \X (1..f[x] - 1) /\ Pairs' = {1} \X (1..f[x])
      BY <1>2, <1>4, <2>1 DEF Pairs
    <3> QED
      BY <3>1, <3>2
  <2>5. ClientResult # "ok"
    BY <1>1, <1>2, <1>3 DEF ClientResult, OkMeansFinished, Finished, Side
  <2>6. \A m \in DOMAIN Work[1] : m < f[x] => <<1, Work[1][m]>> \in Pairs
    BY <1>3, <2>1, <2>4, CommandFiles
  <2>7. /\ 1 \in 1..Len(Work) /\ f[x] \in DOMAIN Work[1] /\ Work[1][f[x]] = f[x]
        /\ UNION {Command!Files(t) : t \in 1..1 - 1} \subseteq Pairs
    BY <1>3, <2>3, CommandFiles
  <2>8. Command!Apply
    <3>1. ClientResult = "running" \/ (TRUE /\ ClientResult # "ok")
      BY <2>5
    <3>2. Pairs' = Pairs \cup {<<1, Work[1][f[x]]>>}
      BY <2>4, <2>7
    <3>3. Work' = Work /\ ClientResult' = ClientResult
      BY <1>4
    <3> QED
      BY <2>6, <2>7, <3>1, <3>2, <3>3, Zenon DEF Command!Apply, Pairs, ClientResult
  <2> QED
    BY <2>8 DEF Command!Next
<1> QED
  BY <1>5, <1>6

\* Every other step writes nothing, and gives the client a result at most once.
LEMMA OtherSteps ==
  ASSUME DaemonInv, Next, \A x \in Side : ~WriteFile(x)
  PROVE  /\ UNCHANGED <<request, written>>
         /\ result'["client"] = result["client"] \/ result["client"] = "none"
<1> DEFINE Once == result'["client"] = result["client"] \/ result["client"] = "none"
           Kept == UNCHANGED <<request, written>> /\ Once
<1>1. result \in [Side -> Outcome]
  BY DEF DaemonInv, EndsOK, TypeOK, Outcome
<1>2. \A x \in Side : \A r :
        result' = result \/ result' = [result EXCEPT ![x] = IF @ = "none" THEN r ELSE @] => Once
  BY <1>1, Sides
<1>3. \A x \in Side : \A r, m, p : Leave(x, r) \/ Goto(x, p) \/ Say(x, m, p) => Once
  BY <1>2 DEF Leave, Goto, Say
<1>4. ASSUME NEW x \in Side, SendList(x)
      PROVE  Kept
  BY <1>2, <1>3, <1>4, Sides DEF SendList, transfer
<1>5. ASSUME NEW x \in Side, ReceiveSignature(x)
      PROVE  Kept
  BY <1>2, <1>3, <1>5, Sides DEF ReceiveSignature, transfer
<1>6. ASSUME NEW x \in Side, SendDelta(x)
      PROVE  Kept
  BY <1>2, <1>3, <1>6, Sides DEF SendDelta, transfer
<1>7. ASSUME NEW x \in Side, SenderEnds(x)
      PROVE  Kept
  BY <1>2, <1>3, <1>7, Sides DEF SenderEnds, transfer
<1>8. ASSUME NEW x \in Side, ReceiveList(x)
      PROVE  Kept
  BY <1>2, <1>3, <1>8, Sides DEF ReceiveList, transfer
<1>9. ASSUME NEW x \in Side, SendSignature(x)
      PROVE  Kept
  BY <1>2, <1>3, <1>9, Sides DEF SendSignature, transfer
<1>10. ASSUME NEW x \in Side, ReceiveDelta(x)
      PROVE  Kept
  BY <1>2, <1>3, <1>10, Sides DEF ReceiveDelta, transfer
<1>11. ASSUME NEW x \in Side, SendDone(x)
      PROVE  Kept
  BY <1>2, <1>3, <1>11, Sides DEF SendDone, transfer
<1>12. ASSUME NEW x \in Side, EndOfStream(x)
      PROVE  Kept
  BY <1>2, <1>3, <1>12, Sides DEF EndOfStream, transfer
<1>13. ASSUME NEW x \in Side, CloseConn(x)
      PROVE  Kept
  BY <1>2, <1>3, <1>13, Sides DEF CloseConn, transfer
<1>14. ASSUME NEW x \in Side, Breaks(x)
      PROVE  Kept
  BY <1>2, <1>3, <1>14, Sides DEF Breaks, transfer
<1>15. ASSUME ClientGreeting
      PROVE  Kept
  BY <1>2, <1>3, <1>15, Sides DEF ClientGreeting, transfer
<1>16. ASSUME ClientListing
      PROVE  Kept
  BY <1>2, <1>3, <1>16, Sides DEF ClientListing, transfer
<1>17. ASSUME ClientAuth
      PROVE  Kept
  BY <1>2, <1>3, <1>17, Sides DEF ClientAuth, transfer
<1>18. ASSUME ClientModule
      PROVE  Kept
  BY <1>2, <1>3, <1>18, Sides DEF ClientModule, transfer
<1>19. ASSUME ServerGreeting
      PROVE  Kept
  BY <1>2, <1>3, <1>19, Sides DEF ServerGreeting, Refuse, transfer
<1>20. ASSUME ServerListing
      PROVE  Kept
  BY <1>2, <1>3, <1>20, Sides DEF ServerListing, Refuse, transfer
<1>21. ASSUME ServerAuth
      PROVE  Kept
  BY <1>2, <1>3, <1>21, Sides DEF ServerAuth, Refuse, transfer
<1>22. ASSUME ServerModule
      PROVE  Kept
  BY <1>2, <1>3, <1>22, Sides DEF ServerModule, Refuse, transfer
<1>23. ASSUME ServerRefuse
      PROVE  Kept
  BY <1>2, <1>3, <1>23, Sides DEF ServerRefuse, Refuse, transfer
<1> QED
  BY <1>4, <1>5, <1>6, <1>7, <1>8, <1>9, <1>10, <1>11, <1>12, <1>13, <1>14, <1>15, <1>16, <1>17, <1>18, <1>19, <1>20, <1>21, <1>22, <1>23, Sides
     DEF Next, ClientStep, ServerStep, Transfer

\* Every step is a step of the abstract command, or changes nothing of it.
LEMMA CommandStep ==
  ASSUME DaemonInv, DaemonInv', [Next]_vars
  PROVE  [Command!Next]_(Command!vars)
<1>1. CASE UNCHANGED vars
  <2>1. UNCHANGED <<request, result, written>>
    BY <1>1 DEF vars
  <2>2. Work' = Work /\ Pairs' = Pairs /\ ClientResult' = ClientResult
    BY <2>1 DEF Work, Wanted, Pairs, ClientResult, Receiving, Sending
  <2> QED
    BY <2>2, Mapped
<1>2. CASE Next /\ \E x \in Side : WriteFile(x)
  BY <1>2, WriteRefines
<1>3. CASE Next /\ \A x \in Side : ~WriteFile(x)
  <2>1. /\ UNCHANGED <<request, written>>
        /\ result'["client"] = result["client"] \/ result["client"] = "none"
    BY <1>3, OtherSteps
  <2>2. Work' = Work /\ Pairs' = Pairs /\ Wanted' = Wanted
    BY <2>1 DEF Work, Wanted, Pairs, Receiving, Sending
  <2>3. CASE ClientResult' = ClientResult
    BY <2>2, <2>3, Mapped
  <2>4. CASE ClientResult' # ClientResult
    <3>1. /\ ClientResult = "running" /\ ClientResult' = result'["client"]
          /\ ClientResult' # "running"
      <4>1. result'["client"] \in Outcome
        <5>1. (result \in [Side -> Outcome])'
          BY DEF DaemonInv, EndsOK, TypeOK, Outcome
        <5> QED
          BY <5>1, Sides
      <4> QED
        BY <2>1, <2>4, <4>1 DEF ClientResult, Outcome
    <3>2. CASE result'["client"] = "ok"
      <4>1. OkMeansFinished'
        BY DEF DaemonInv, EndsOK
      <4>2. Finished' /\ (direction # "none")'
        BY <3>2, <4>1, Sides DEF OkMeansFinished
      <4>3. Wanted' = written'[Receiving']
        <5>1. DaemonInv' /\ Finished' /\ (direction # "none")' => (Wanted = written[Receiving])'
          BY FinishedIsAll, PTL
        <5> QED
          BY <4>2, <5>1
      <4>4. Command!All = Pairs
        <5>1. Receiving' = Receiving
          BY <2>1 DEF Receiving, Sending
        <5> QED
          BY <2>1, <2>2, <4>3, <5>1, CommandFiles DEF Pairs, DaemonInv, EndsOK
      <4>5. Command!Succeed
        BY <2>2, <3>1, <3>2, <4>4 DEF Command!Succeed, Pairs, ClientResult
      <4> QED
        BY <4>5 DEF Command!Next
    <3>3. CASE result'["client"] # "ok"
      <4>1. Command!Fail
        BY <2>2, <3>1, <3>3 DEF Command!Fail, Pairs, ClientResult
      <4> QED
        BY <4>1 DEF Command!Next
    <3> QED
      BY <3>2, <3>3
  <2> QED
    BY <2>3, <2>4
<1> QED
  BY <1>1, <1>2, <1>3

\* A sync with a daemon implements a sync command, for every configuration, every
\* request and streams of any capacity: the client's "ok" says that every file is
\* written at the end that receives, for either direction, and none comes after it.
THEOREM DaemonImplements == Spec => ImplementsCommand
<1>1. Init => Command!Init
  <2> SUFFICES ASSUME Init
               PROVE  Pairs = {} /\ ClientResult = "running"
    BY DEF Command!Init, Pairs, ClientResult
  <2>1. \A x \in Side : written[x] = 0 /\ result[x] = "none"
    BY DEF Init, Both
  <2> QED
    BY <2>1, Sides DEF Pairs, ClientResult
<1>2. DaemonInv /\ DaemonInv' /\ [Next]_vars => [Command!Next]_(Command!vars)
  BY CommandStep
<1> QED
  BY <1>1, <1>2, DaemonInvariant, PTL DEF Spec, ImplementsCommand, Command!Spec
=============================================================================
