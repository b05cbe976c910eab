---------------------------- MODULE DaemonSession ----------------------------
(***************************************************************************)
(* One connection to the daemon, both ends: the greeting and the choice of  *)
(* a module, its authentication, the direction and its acknowledgement, the *)
(* transfer (Sender at one end, Receiver at the other, for either           *)
(* direction) and the line that ends it.                                    *)
(*                                                                          *)
(* wire[x] is what x has been sent and has not read: lines and frames come  *)
(* in order on one TCP stream that holds Capacity of them.  An end that     *)
(* closes with something unread, or that is written to after it closed,     *)
(* resets the connection: what its peer has not read may be lost.           *)
(***************************************************************************)
EXTENDS Integers, Sequences, FiniteSets

CONSTANTS Config,     \* the modules by name: [readOnly, list, users, files]
          Secrets,    \* users with a secret in the secrets file
          Requests,   \* what clients may ask for
          Capacity

Side == {"client", "server"}
Request == [module : STRING, user : STRING, right : BOOLEAN,
            direction : {"get", "put"}, dryRun : BOOLEAN, files : Nat]

ASSUME CapacityAssumption == Capacity \in Nat \ {0}
ASSUME ConfigAssumption ==
  \A name \in DOMAIN Config :
    Config[name] \in [readOnly : BOOLEAN, list : BOOLEAN, users : SUBSET STRING, files : Nat]
ASSUME RequestsAssumption == Requests \subseteq Request /\ "#list" \notin DOMAIN Config

VARIABLES request,              \* the client's arguments
          pc, result, wire,
          selected, direction,  \* what the server was told
          dryRun, n, f,         \* each end's transfer: the list's length, the position
          listed, written       \* listing lines sent; files written at each end

vars == <<request, pc, result, wire, selected, direction, dryRun, n, f, listed, written>>
transfer == <<n, f, written>>
told == <<selected, direction, dryRun>>

Peer(x) == IF x = "client" THEN "server" ELSE "client"
Msg(kind, val) == [kind |-> kind, val |-> val]
Both(v) == [x \in Side |-> v]

Init ==
  /\ request \in Requests
  /\ pc = Both("greet") /\ result = Both("none") /\ wire = Both(<<>>)
  /\ selected = "" /\ direction = "none"
  /\ dryRun = Both(FALSE) /\ n = Both(0) /\ f = Both(0)
  /\ listed = 0 /\ written = Both(0)

-----------------------------------------------------------------------------
(* The connection. *)

At(x, p) == pc[x] = p
Goto(x, p) == pc' = [pc EXCEPT ![x] = p] /\ UNCHANGED result

\* x is done with outcome r; its connection is closed next.
Leave(x, r) ==
  /\ pc' = [pc EXCEPT ![x] = "close"]
  /\ result' = [result EXCEPT ![x] = IF @ = "none" THEN r ELSE @]

Say(x, m, next) ==
  \/ /\ pc[Peer(x)] # "end" /\ Len(wire[Peer(x)]) < Capacity
     /\ wire' = [wire EXCEPT ![Peer(x)] = Append(@, m)]
     /\ Goto(x, next)
  \/ /\ pc[Peer(x)] = "end"
     /\ \/ Goto(x, next) /\ wire' \in {wire, [wire EXCEPT ![x] = <<>>]}
        \/ Leave(x, "cut") /\ UNCHANGED wire

Hear(x) == wire[x] # <<>> /\ wire' = [wire EXCEPT ![x] = Tail(@)]
Heard(x) == Head(wire[x])

\* A read meets the end of the stream.
Waiting == [client |-> {"greet", "listing", "auth", "ack", "turn", "waitDone", "recvList", "delta"},
            server |-> {"peer", "select", "verify", "direct", "turn", "waitDone", "recvList", "delta"}]
EndOfStream(x) ==
  /\ pc[x] \in Waiting[x] /\ wire[x] = <<>> /\ pc[Peer(x)] = "end"
  /\ At(x, "turn") => f[x] <= n[x]
  /\ Leave(x, "cut")
  /\ UNCHANGED <<request, wire, told, transfer, listed>>

\* Mutant: the server returns without closing the connection.
CloseConn_ClientOnly(x) ==
  /\ x = "client" /\ At(x, "close")
  /\ pc' = [pc EXCEPT ![x] = "end"]
  /\ UNCHANGED <<request, result, wire, told, transfer, listed>>

\* nc.Close, deferred at both ends.
CloseConn(x) ==
  /\ At(x, "close")
  /\ pc' = [pc EXCEPT ![x] = "end"]
  /\ wire' \in {[wire EXCEPT ![x] = <<>>]} \cup (IF wire[x] = <<>> THEN {} ELSE {Both(<<>>)})
  /\ UNCHANGED <<request, result, told, transfer, listed>>

\* A disk, a connection, a prompt or the process fails, at any moment.
Breaks(x) ==
  /\ pc[x] \notin {"close", "end"}
  /\ Leave(x, "failed")
  /\ UNCHANGED <<request, wire, told, transfer, listed>>

-----------------------------------------------------------------------------
(* The client: DialGreeting, DialAuth, DialModule. *)

\* "#list" asks for the modules where no module was named; DialClient sends it for a
\* module of that name too (rsync://host/%23list), and goes on to authenticate.
ClientGreeting ==
  /\ \/ At("client", "greet") /\ Hear("client")
        /\ IF Heard("client").kind = "greeting" THEN Goto("client", "greetBack")
           ELSE Leave("client", "protocol")
     \/ At("client", "greetBack") /\ Say("client", Msg("greeting", ""), "choose")
     \/ /\ At("client", "choose")
        /\ \E next \in {"listing", "auth"} :
             /\ next = "listing" => request.module = "#list"
             /\ Say("client", Msg("module", request.module), next)
  /\ UNCHANGED <<request, told, transfer, listed>>

ClientListing ==
  /\ At("client", "listing") /\ Hear("client")
  /\ CASE Heard("client").kind = "exit" -> Leave("client", "listed")
       [] Heard("client").kind = "error" -> Leave("client", "refused")
       [] OTHER -> UNCHANGED <<pc, result>>
  /\ UNCHANGED <<request, told, transfer, listed>>

ClientAuth ==
  /\ \/ /\ At("client", "auth") /\ Hear("client")
        /\ CASE Heard("client").kind = "authreqd" -> Goto("client", "respond")
             [] Heard("client").kind = "ok" -> Goto("client", "direct")
             [] Heard("client").kind = "error" -> Leave("client", "refused")
             [] OTHER -> Leave("client", "protocol")
     \/ /\ At("client", "respond")
        /\ Say("client", Msg("response", <<request.user, request.right>>), "auth")
  /\ UNCHANGED <<request, told, transfer, listed>>

\* Mutant: the acknowledgement is not awaited.
ClientModule_NoAck ==
  /\ At("client", "direct")
  /\ Say("client", Msg("direction", <<request.direction, request.dryRun>>),
         IF request.direction = "put" THEN "sendList" ELSE "recvList")
  /\ dryRun' = dryRun
  /\ UNCHANGED <<request, selected, direction, transfer, listed>>

\* The direction, the server's acknowledgement, then a side of the transfer.
ClientModule ==
  /\ \/ /\ At("client", "direct")
        /\ Say("client", Msg("direction", <<request.direction,
                                            request.direction = "put" /\ request.dryRun>>), "ack")
        /\ dryRun' = dryRun
     \/ /\ At("client", "ack") /\ Hear("client")
        /\ IF Heard("client").kind # "ok" THEN Leave("client", "refused")
           ELSE Goto("client", IF request.direction = "put" THEN "sendList" ELSE "recvList")
        /\ dryRun' = [dryRun EXCEPT !.client = request.dryRun]
  /\ UNCHANGED <<request, selected, direction, transfer, listed>>

-----------------------------------------------------------------------------
(* The server: ServeGreeting, ServeAuth, ServeModule, as far as a client of this *)
(* program takes them: its response has two fields and its direction is "get" or *)
(* "put", so the refusals of other lines (auth.go:116, session.go:86) are not met. *)

Refuse == Goto("server", "refuse")

ServerGreeting ==
  /\ \/ At("server", "greet") /\ Say("server", Msg("greeting", ""), "peer") /\ UNCHANGED selected
     \/ /\ At("server", "peer") /\ Hear("server") /\ UNCHANGED selected
        /\ IF Heard("server").kind = "greeting" THEN Goto("server", "select")
           ELSE Leave("server", "protocol")
     \/ /\ At("server", "select") /\ Hear("server")
        /\ selected' = Heard("server").val
        /\ IF Heard("server").val = "#list" THEN Goto("server", "list")
           ELSE IF Heard("server").val \in DOMAIN Config THEN Goto("server", "auth")
           ELSE Refuse
  /\ UNCHANGED <<request, direction, dryRun, transfer, listed>>

Listed == {name \in DOMAIN Config : Config[name].list}

\* A line for each listable module, then EXIT.
ServerListing ==
  /\ \/ /\ At("server", "list") /\ listed < Cardinality(Listed)
        /\ Say("server", Msg("line", ""), "list") /\ listed' = listed + 1
     \/ /\ At("server", "list") /\ listed = Cardinality(Listed)
        /\ Say("server", Msg("exit", ""), "listDone") /\ listed' = listed
     \/ At("server", "listDone") /\ Leave("server", "listed") /\ UNCHANGED <<wire, listed>>
  /\ UNCHANGED <<request, told, transfer>>

\* The user is one of the module's, has a secret, and hashed it with the challenge.
Accepted(response) ==
  response[1] \in Config[selected].users \cap Secrets /\ response[2]

ServerAuth ==
  /\ \/ /\ At("server", "auth")
        /\ IF Config[selected].users = {} THEN Say("server", Msg("ok", ""), "direct")
           ELSE Say("server", Msg("authreqd", ""), "verify")
     \/ /\ At("server", "verify") /\ Hear("server")
        /\ IF Accepted(Heard("server").val) THEN Goto("server", "authOk") ELSE Refuse
     \/ At("server", "authOk") /\ Say("server", Msg("ok", ""), "direct")
  /\ UNCHANGED <<request, told, transfer, listed>>

\* Mutant: read only is not looked at.
Refused_Never(d) == FALSE

Refused(d) == d = "put" /\ Config[selected].readOnly

\* Mutant: the module's name is taken for the direction.
ServerModule_WrongField ==
  /\ \/ /\ At("server", "direct") /\ Hear("server")
        /\ direction' = selected
        /\ dryRun' = [dryRun EXCEPT !.server = Heard("server").val[2]]
        /\ IF Refused(Heard("server").val[1]) THEN Refuse ELSE Goto("server", "ack")
     \/ /\ At("server", "ack")
        /\ Say("server", Msg("ok", ""), IF direction = "put" THEN "recvList" ELSE "sendList")
        /\ UNCHANGED <<direction, dryRun>>
  /\ UNCHANGED <<request, selected, transfer, listed>>

ServerModule ==
  /\ \/ /\ At("server", "direct") /\ Hear("server")
        /\ direction' = Heard("server").val[1]
        /\ dryRun' = [dryRun EXCEPT !.server = Heard("server").val[2]]
        /\ IF Refused(Heard("server").val[1]) THEN Refuse ELSE Goto("server", "ack")
     \/ /\ At("server", "ack")
        /\ Say("server", Msg("ok", ""), IF direction = "put" THEN "recvList" ELSE "sendList")
        /\ UNCHANGED <<direction, dryRun>>
  /\ UNCHANGED <<request, selected, transfer, listed>>

\* "@ERROR", whose own failure is ignored, and the end of the session.
ServerRefuse ==
  /\ \/ At("server", "refuse") /\ Say("server", Msg("error", ""), "refuseSent")
     \/ At("server", "refuseSent") /\ Leave("server", "refused") /\ UNCHANGED wire
  /\ UNCHANGED <<request, told, transfer, listed>>

-----------------------------------------------------------------------------
(* The transfer: Sender at end x. *)

Files(x) == IF x = "client" THEN request.files ELSE Config[selected].files

SendList(x) ==
  /\ At(x, "sendList")
  /\ Say(x, Msg("list", Files(x)), "turn")
  /\ n' = [n EXCEPT ![x] = Files(x)] /\ f' = [f EXCEPT ![x] = 1]
  /\ UNCHANGED <<request, told, listed, written>>

ReceiveSignature(x) ==
  /\ At(x, "turn") /\ f[x] <= n[x] /\ Hear(x)
  /\ IF Heard(x) = Msg("signature", f[x]) THEN Goto(x, "load") ELSE Leave(x, "protocol")
  /\ UNCHANGED <<request, told, transfer, listed>>

SendDelta(x) ==
  /\ At(x, "load")
  /\ Say(x, Msg("delta", f[x]), "turn")
  /\ f' = [f EXCEPT ![x] = @ + 1]
  /\ UNCHANGED <<request, told, n, listed, written>>

\* Mutant: Sender's return ends the session.
SenderEnds_NoWait(x) ==
  /\ At(x, "turn") /\ f[x] > n[x] /\ Leave(x, "ok")
  /\ UNCHANGED <<request, wire, told, transfer, listed>>

\* waitForTransferDone.
SenderEnds(x) ==
  /\ \/ At(x, "turn") /\ f[x] > n[x] /\ Goto(x, "waitDone") /\ UNCHANGED wire
     \/ /\ At(x, "waitDone") /\ Hear(x)
        /\ IF Heard(x).kind = "done" THEN Leave(x, "ok") ELSE Leave(x, "protocol")
  /\ UNCHANGED <<request, told, transfer, listed>>

(* Receiver at end x. *)

ReceiveList(x) ==
  /\ At(x, "recvList") /\ Hear(x)
  /\ IF Heard(x).kind = "list"
     THEN /\ n' = [n EXCEPT ![x] = Heard(x).val] /\ f' = [f EXCEPT ![x] = 1] /\ Goto(x, "entry")
     ELSE Leave(x, "protocol") /\ UNCHANGED <<n, f>>
  /\ UNCHANGED <<request, told, listed, written>>

SendSignature(x) ==
  /\ At(x, "entry") /\ f[x] <= n[x]
  /\ Say(x, Msg("signature", f[x]), "delta")
  /\ UNCHANGED <<request, told, transfer, listed>>

ReceiveDelta(x) ==
  /\ At(x, "delta") /\ Hear(x)
  /\ IF Heard(x) = Msg("delta", f[x]) THEN Goto(x, "write") ELSE Leave(x, "protocol")
  /\ UNCHANGED <<request, told, transfer, listed>>

WriteFile(x) ==
  /\ At(x, "write") /\ Goto(x, "entry")
  /\ written' = [written EXCEPT ![x] = IF dryRun[x] THEN @ ELSE @ + 1]
  /\ f' = [f EXCEPT ![x] = @ + 1]
  /\ UNCHANGED <<request, wire, told, n, listed>>

\* Receiver has returned: the transferDone line.
SendDone(x) ==
  /\ \/ At(x, "entry") /\ f[x] > n[x] /\ Say(x, Msg("done", ""), "doneSent")
     \/ At(x, "doneSent") /\ Leave(x, "ok") /\ UNCHANGED wire
  /\ UNCHANGED <<request, told, transfer, listed>>

-----------------------------------------------------------------------------
Transfer(x) == \/ SendList(x) \/ ReceiveSignature(x) \/ SendDelta(x) \/ SenderEnds(x)
               \/ ReceiveList(x) \/ SendSignature(x) \/ ReceiveDelta(x) \/ WriteFile(x)
               \/ SendDone(x)

ClientStep == \/ ClientGreeting \/ ClientListing \/ ClientAuth \/ ClientModule
              \/ Transfer("client") \/ EndOfStream("client") \/ CloseConn("client")
ServerStep == \/ ServerGreeting \/ ServerListing \/ ServerAuth \/ ServerModule \/ ServerRefuse
              \/ Transfer("server") \/ EndOfStream("server") \/ CloseConn("server")

Next == ClientStep \/ ServerStep \/ \E x \in Side : Breaks(x)

Spec == Init /\ [][Next]_vars
\* Both ends run, TCP delivers, and a prompt for a password is answered.
FairSpec == Spec /\ WF_vars(ClientStep) /\ WF_vars(ServerStep)

-----------------------------------------------------------------------------
(* Properties. *)

SenderPcs == {"sendList", "turn", "load", "waitDone"}
ReceiverPcs == {"recvList", "entry", "delta", "write", "doneSent"}
Opening == [client |-> {"greet", "greetBack", "choose", "listing", "auth", "respond", "direct", "ack"},
            server |-> {"greet", "peer", "select", "list", "listDone", "auth", "verify", "authOk",
                        "direct", "ack", "refuse", "refuseSent"}]
Pcs(x) == Opening[x] \cup SenderPcs \cup ReceiverPcs \cup {"close", "end"}
Message == [kind : {"greeting", "line", "exit", "error", "ok", "authreqd", "done"}, val : {""}]
           \cup [kind : {"module"}, val : STRING]
           \cup [kind : {"response"}, val : STRING \X BOOLEAN]
           \cup [kind : {"direction"}, val : {"get", "put"} \X BOOLEAN]
           \cup [kind : {"list", "signature", "delta"}, val : Nat]

\* Every variable keeps its type; the stream holds no more than it can.
TypeOK ==
  /\ request \in Requests
  /\ pc \in [Side -> Pcs("client") \cup Pcs("server")] /\ \A x \in Side : pc[x] \in Pcs(x)
  /\ wire \in [Side -> Seq(Message)]
  /\ result \in [Side -> {"none", "ok", "listed", "refused", "cut", "protocol", "failed"}]
  /\ \A x \in Side : Len(wire[x]) <= Capacity
  /\ selected \in DOMAIN Config \cup {"", "#list"} \cup {r.module : r \in Requests}
  /\ direction \in {"none", "get", "put"} /\ dryRun \in [Side -> BOOLEAN]
  /\ n \in [Side -> Nat] /\ f \in [Side -> Nat] /\ written \in [Side -> Nat]
  /\ listed \in Nat

\* A file is written into a module only for a client that asked for a real
\* upload, to a module that takes uploads, as a user it authenticated.
OnlyPermittedWrites ==
  written["server"] > 0 =>
    /\ request.direction = "put" /\ ~request.dryRun
    /\ ~Config[request.module].readOnly
    /\ Config[request.module].users # {} =>
         request.user \in Config[request.module].users \cap Secrets /\ request.right

\* The end that sends files and the one that receives them.
Sending == IF request.direction = "put" THEN "client" ELSE "server"
Receiving == Peer(Sending)

\* When the end that sends reports success, the other has written every file:
\* Sender's return alone would only mean that the last delta is under way.
DoneMeansWritten ==
  \A x \in Side :
    result[x] = "ok" =>
      written[Receiving] = IF request.dryRun THEN 0 ELSE Files(Sending)

\* Lines and frames share one stream: neither end ever reads one for the other, but
\* for the client that named "#list" as its module and reads a listing for an answer.
InPhase ==
  \A x \in Side : result[x] = "protocol" => x = "client" /\ request.module = "#list"

\* A client the server refused learns so from the "@ERROR" line: nothing it sent
\* ahead makes the close reset the connection under that line.
RefusalReachesClient ==
  result["server"] = "refused" => result["client"] \in {"none", "refused", "failed"}

\* One source: the files asked for, unless the run is dry or there is no such module.
Wanted == IF request.dryRun THEN 0
          ELSE IF request.direction = "put" THEN request.files
          ELSE IF request.module \in DOMAIN Config THEN Config[request.module].files
          ELSE 0
Work == <<[m \in 1..Wanted |-> m]>>

Command == INSTANCE SyncCommand WITH
             Detached <- TRUE, work <- Work,
             applied <- {1} \X (1..written[Receiving]),
             result <- IF result["client"] = "none" THEN "running" ELSE result["client"]

\* A sync with a daemon implements a sync command: the client reports "ok" only
\* when every file is written at the receiving end, although Sender ends when its
\* last delta is under way, and none is written after that.  A server whose client
\* has failed may still write what had reached it.
ImplementsCommand == Command!Spec

\* Neither end waits for the other for ever, whichever fails.
BothEnd == <>(\A x \in Side : pc[x] = "end")
=============================================================================
