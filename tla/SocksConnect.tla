---------------------------- MODULE SocksConnect ----------------------------
(***************************************************************************)
(* The SOCKS5 server and its TCP tunnels: StartSocks5 and handleSocksConn  *)
(* in socks.go.  An accept loop hands each connection to a handler of its  *)
(* own; a handler that tunnels waits for two copying goroutines.  The      *)
(* caller cancels the context and then stops the server.                   *)
(* A definition Name_Word that stands before Name is a mutation of it: a   *)
(* mistake the code could have contained, which a property must catch.     *)
(***************************************************************************)
EXTENDS Naturals, SocksPolicy

CONSTANTS
  Conns,     \* the connections clients may open
  Requests,  \* the requests they may make
  BindIf,    \* the server is given an interface to bind to
  Faults     \* a subset of {"accept", "bind", "write"}

\* What Dial may end with, and the code the error is mapped to.
DialReply == [refused |-> 5, netUnreach |-> 3, hostUnreach |-> 4, timeout |-> 4, other |-> 1]

ASSUME SocksConnectAssumption ==
  \* "kind": what the handler makes of the request's version, command and type.
  /\ Requests \subseteq [kind: {"connect", "udp", "version", "command", "type"}, name: Name,
                        resolves: BOOLEAN]
  /\ BindIf \in BOOLEAN /\ Faults \subseteq {"accept", "bind", "write"}

VARIABLES
  conn,       \* each connection: see NewConn
  loop,       \* the accept loop: its next statement and the connection it holds
  listening,  \* the listener is open
  stopper,    \* the caller of stop: "not called", "waiting" or "returned"
  ctxDone     \* the context is cancelled

vars == <<conn, loop, listening, stopper, ctxDone>>
server == <<loop, listening, stopper, ctxDone>>

\* What a client sends before it makes its request, and nothing at all.
Word(kind) == [kind |-> kind, name |-> <<>>, resolves |-> TRUE]
Nothing == Word("nothing")
Greetings == {Word("greeting"), Word("garbage")}

\* at: the handler's next statement.  said: what the client sent and the handler
\* has not read.  deadline: the one set on the client's connection.  client, remote:
\* the two peers, which may have ended their sending ("shut") or left ("gone").
\* rc: the connection to the remote.  up, down: the two copies.  eof: the peers an
\* end of stream was sent to.  replies, dial: history of what was answered, and
\* of how the dial ended.
NewConn == [at |-> "none", said |-> Nothing, request |-> Nothing, deadline |-> "none",
            client |-> "open", remote |-> "open", rc |-> "nil", up |-> "off", down |-> "off",
            eof |-> {}, replies |-> <<>>, dial |-> "none"]

Init ==
  /\ conn = [c \in Conns |-> NewConn]
  /\ loop = [at |-> "accept", holds |-> "none"]
  /\ listening = TRUE /\ stopper = "not called" /\ ctxDone = FALSE

At(c, statement) == conn[c].at = statement
Late(c) == conn[c].deadline = "passed"

(***************************************************************************)
(* StartSocks5: the accept loop and stop.                                  *)
(***************************************************************************)
Accept(c) ==
  /\ loop.at = "accept" /\ listening /\ At(c, "backlog")
  /\ loop' = [at |-> "spawn", holds |-> c]
  /\ conn' = [conn EXCEPT ![c].at = "accepted"]
  /\ UNCHANGED <<listening, stopper, ctxDone>>

Spawn ==
  /\ loop.at = "spawn"
  /\ conn' = [conn EXCEPT ![loop.holds].at = "start"]
  /\ loop' = [at |-> "accept", holds |-> "none"]
  /\ UNCHANGED <<listening, stopper, ctxDone>>

\* Mutation: every error is taken for a timeout, and the loop goes on.
AcceptFails_GoesOn ==
  /\ loop.at = "accept" /\ (~listening \/ "accept" \in Faults)
  /\ UNCHANGED vars

\* The listener was closed, or the process has no descriptor left: either way the
\* error is not a timeout and the loop ends.
AcceptFails ==
  /\ loop.at = "accept" /\ (~listening \/ "accept" \in Faults)
  /\ loop' = [loop EXCEPT !.at = "ended"]
  /\ UNCHANGED <<conn, listening, stopper, ctxDone>>

Cancel ==
  /\ ~ctxDone /\ ctxDone' = TRUE
  /\ UNCHANGED <<conn, loop, listening, stopper>>

\* ln.Close resets the connections nobody accepted.
StopCloses ==
  /\ ctxDone /\ stopper = "not called"
  /\ stopper' = "waiting" /\ listening' = FALSE
  /\ conn' = [c \in Conns |-> IF At(c, "backlog") THEN [conn[c] EXCEPT !.at = "closed"] ELSE conn[c]]
  /\ UNCHANGED <<loop, ctxDone>>

\* Mutation: stop does not wait for the loop.
StopReturns_AtOnce ==
  /\ stopper = "waiting"
  /\ stopper' = "returned"
  /\ UNCHANGED <<conn, loop, listening, ctxDone>>

\* <-done
StopReturns ==
  /\ stopper = "waiting" /\ loop.at = "ended"
  /\ stopper' = "returned"
  /\ UNCHANGED <<conn, loop, listening, ctxDone>>

(***************************************************************************)
(* handleSocksConn: the handshake.                                         *)
(***************************************************************************)
\* Returning runs the deferred calls: both connections are closed.
Close(k) == [k EXCEPT !.at = "closed", !.rc = IF @ = "nil" THEN "nil" ELSE "closed"]

\* A reply cannot be written once the deadline has passed.
Written(c, k, code) == IF Late(c) THEN k ELSE [k EXCEPT !.replies = Append(@, code)]

Becomes(c, k) == conn' = [conn EXCEPT ![c] = k] /\ UNCHANGED server

\* Mutation: no deadline is set.
Start_NoDeadline(c) == At(c, "start") /\ Becomes(c, [conn[c] EXCEPT !.at = "greeting"])

Start(c) ==
  At(c, "start") /\ Becomes(c, [conn[c] EXCEPT !.at = "greeting", !.deadline = "set"])

\* A read succeeds when the client has sent enough and the deadline has not passed;
\* it fails when it has passed, or the client will send no more.
CanRead(c) == ~Late(c) /\ conn[c].said # Nothing
CannotRead(c) == Late(c) \/ (conn[c].said = Nothing /\ conn[c].client # "open")

ReadGreeting(c) ==
  /\ At(c, "greeting") /\ CanRead(c)
  /\ Becomes(c, IF conn[c].said.kind = "greeting"
                THEN [conn[c] EXCEPT !.at = "request", !.said = Nothing] ELSE Close(conn[c]))

ReadRequest(c) ==
  /\ At(c, "request") /\ CanRead(c)
  /\ LET r == conn[c].said
         Refuse(code) == Close(Written(c, conn[c], code))
     IN  Becomes(c, CASE r.kind = "connect" -> [conn[c] EXCEPT !.at = "resolve", !.request = r,
                                                               !.said = Nothing]
                      [] r.kind = "udp"     -> [conn[c] EXCEPT !.at = "udp"]
                      [] r.kind = "version" -> Refuse(1)
                      [] r.kind = "command" -> Refuse(7)
                      [] r.kind = "type"    -> Refuse(8))

ReadFails(c) ==
  /\ conn[c].at \in {"greeting", "request"} /\ CannotRead(c)
  /\ Becomes(c, Close(conn[c]))

Resolve(c) ==
  /\ At(c, "resolve")
  /\ LET r == conn[c].request
     IN  Becomes(c, IF r.name = <<>> \/ r.resolves THEN [conn[c] EXCEPT !.at = "dial"]
                    ELSE Close(Written(c, conn[c], 4)))

\* The socket is to be bound when the lists say so and an interface is given.  A binding
\* that is refused is hidden by bindFDToInterface, and the dial goes on.
DialSocket(name) ==
  IF UseVPN(name) /\ BindIf
  THEN {"bound"} \cup (IF "bind" \in Faults THEN {"refused"} ELSE {})
  ELSE {"unbound"}

DialOpens(c) ==
  /\ At(c, "dial") /\ ~ctxDone
  /\ \E s \in DialSocket(conn[c].request.name) :
       Becomes(c, [conn[c] EXCEPT !.at = "reply", !.rc = s, !.dial = "ok"])

\* Mutation: the handler goes on after the error.
DialFails_GoesOn(c) ==
  /\ At(c, "dial")
  /\ \E e \in DOMAIN DialReply :
       /\ e = "timeout" => Late(c)
       /\ Becomes(c, [Written(c, conn[c], DialReply[e]) EXCEPT !.at = "reply", !.dial = e])

\* The dial may take thirty seconds, and a timeout ends it no sooner; the deadline
\* of the handshake, ten seconds, has then passed.
DialFails(c) ==
  /\ At(c, "dial")
  /\ \E e \in DOMAIN DialReply :
       /\ e = "timeout" => Late(c)
       /\ Becomes(c, [Close(Written(c, conn[c], DialReply[e])) EXCEPT !.dial = e])

\* Mutation: rc is not closed when the reply cannot be written.
ReplyFails_LeavesRemote(c) ==
  /\ At(c, "reply") /\ (Late(c) \/ conn[c].client = "gone" \/ "write" \in Faults)
  /\ Becomes(c, [conn[c] EXCEPT !.at = "closed"])

ReplyFails(c) ==
  /\ At(c, "reply") /\ (Late(c) \/ conn[c].client = "gone" \/ "write" \in Faults)
  /\ Becomes(c, Close(conn[c]))

Reply(c) ==
  /\ At(c, "reply") /\ ~Late(c)
  /\ Becomes(c, [conn[c] EXCEPT !.at = "clear", !.replies = Append(@, 0)])

\* Mutation: the tunnel keeps the deadline of the handshake.
ClearDeadline_Forgotten(c) ==
  /\ At(c, "clear")
  /\ Becomes(c, [conn[c] EXCEPT !.at = "relay", !.up = "copy", !.down = "copy"])

\* SetDeadline with the zero time also revives a connection whose deadline passed.
ClearDeadline(c) ==
  /\ At(c, "clear")
  /\ Becomes(c, [conn[c] EXCEPT !.at = "relay", !.deadline = "none", !.up = "copy", !.down = "copy"])

(***************************************************************************)
(* handleSocksConn: the tunnel.                                            *)
(***************************************************************************)
\* Mutation: the copy ends without closing the write side of its destination.
UpEnds_NoCloseWrite(c) ==
  /\ conn[c].up = "copy" /\ (conn[c].client # "open" \/ Late(c))
  /\ Becomes(c, [conn[c] EXCEPT !.up = "done"])

UpEnds(c) ==
  /\ conn[c].up = "copy" /\ (conn[c].client # "open" \/ Late(c))
  /\ Becomes(c, [conn[c] EXCEPT !.up = "done", !.eof = @ \cup {"remote"}])

DownEnds(c) ==
  /\ conn[c].down = "copy" /\ (conn[c].remote # "open" \/ Late(c))
  /\ Becomes(c, [conn[c] EXCEPT !.down = "done", !.eof = @ \cup {"client"}])

\* A write fails because the other peer is gone: nothing makes that happen.
CopyBreaks(c) ==
  \/ /\ conn[c].up = "copy" /\ conn[c].remote = "gone"
     /\ Becomes(c, [conn[c] EXCEPT !.up = "done", !.eof = @ \cup {"remote"}])
  \/ /\ conn[c].down = "copy" /\ conn[c].client = "gone"
     /\ Becomes(c, [conn[c] EXCEPT !.down = "done", !.eof = @ \cup {"client"}])

\* wg.Wait()
TunnelEnds(c) ==
  /\ At(c, "relay") /\ conn[c].up = "done" /\ conn[c].down = "done"
  /\ Becomes(c, Close(conn[c]))

(***************************************************************************)
(* The environment.                                                        *)
(***************************************************************************)
Connects(c) ==
  /\ At(c, "none") /\ listening
  /\ Becomes(c, [conn[c] EXCEPT !.at = "backlog"])

\* The client may greet before the handler is there to read it, or send nothing.
Greets(c) ==
  /\ conn[c].at \in {"backlog", "greeting"} /\ conn[c].client = "open" /\ conn[c].said = Nothing
  /\ \E g \in Greetings : Becomes(c, [conn[c] EXCEPT !.said = g])

Asks(c) ==
  /\ At(c, "request") /\ conn[c].client = "open" /\ conn[c].said = Nothing
  /\ \E r \in Requests : Becomes(c, [conn[c] EXCEPT !.said = r])

DeadlinePasses(c) ==
  /\ conn[c].deadline = "set" /\ conn[c].at \notin {"closed", "udp"}
  /\ Becomes(c, [conn[c] EXCEPT !.deadline = "passed"])

Ends(was, now) == <<was, now>> \in {<<"open", "shut">>, <<"open", "gone">>, <<"shut", "gone">>}

ClientEnds(c) ==
  /\ conn[c].at \notin {"none", "closed", "udp"}
  /\ \E p \in {"shut", "gone"} :
       Ends(conn[c].client, p) /\ Becomes(c, [conn[c] EXCEPT !.client = p])

RemoteEnds(c) ==
  /\ conn[c].rc \in {"bound", "refused", "unbound"}
  /\ \E p \in {"shut", "gone"} :
       Ends(conn[c].remote, p) /\ Becomes(c, [conn[c] EXCEPT !.remote = p])

AcceptLoop == (\E c \in Conns : Accept(c)) \/ Spawn \/ AcceptFails
Stop == StopCloses \/ StopReturns
Handshake(c) ==
  \/ Start(c) \/ ReadGreeting(c) \/ ReadRequest(c) \/ ReadFails(c) \/ Resolve(c)
  \/ DialOpens(c) \/ DialFails(c) \/ ReplyFails(c) \/ Reply(c) \/ ClearDeadline(c)
Tunnel(c) == UpEnds(c) \/ DownEnds(c) \/ CopyBreaks(c) \/ TunnelEnds(c)
Environment(c) ==
  \/ Connects(c) \/ Greets(c) \/ Asks(c) \/ DeadlinePasses(c) \/ ClientEnds(c) \/ RemoteEnds(c)

Next ==
  \/ AcceptLoop \/ Cancel \/ Stop
  \/ \E c \in Conns : Handshake(c) \/ Tunnel(c) \/ Environment(c)

Spec == Init /\ [][Next]_vars

\* Every goroutine runs on, timers fire, a lookup and a dial end; a client may stay
\* silent for ever and an accept may fail or not.
FairSpec ==
  /\ Spec
  /\ WF_vars(Spawn) /\ WF_vars(AcceptLoop) /\ WF_vars(Stop)
  /\ \A c \in Conns :
       /\ WF_vars(Handshake(c)) /\ WF_vars(DeadlinePasses(c))
       /\ WF_vars(UpEnds(c)) /\ WF_vars(DownEnds(c)) /\ WF_vars(TunnelEnds(c))

\* A peer that was sent an end of stream ends its own side in time.
PoliteSpec ==
  /\ FairSpec
  /\ \A c \in Conns :
       /\ WF_vars("remote" \in conn[c].eof /\ RemoteEnds(c))
       /\ WF_vars("client" \in conn[c].eof /\ ClientEnds(c))

(***************************************************************************)
(* Properties.                                                             *)
(***************************************************************************)
Statement == {"none", "backlog", "accepted", "start", "greeting", "request", "resolve", "dial",
              "reply", "clear", "relay", "udp", "closed"}
Peer == {"open", "shut", "gone"}

Connection ==
  [at: Statement, said: {Nothing} \cup Greetings \cup Requests, request: {Nothing} \cup Requests,
   deadline: {"none", "set", "passed"}, client: Peer, remote: Peer,
   rc: {"nil", "bound", "refused", "unbound", "closed"},
   up: {"off", "copy", "done"}, down: {"off", "copy", "done"}, eof: SUBSET {"client", "remote"},
   replies: Seq(0..8), dial: {"none", "ok"} \cup DOMAIN DialReply]

Loop == [at: {"accept", "spawn", "ended"}, holds: Conns \cup {"none"}]

\* Every variable keeps its type; a tunnel has its two copies and its remote.
TypeOK ==
  /\ conn \in [Conns -> Connection]
  /\ \A c \in Conns : At(c, "relay") => "off" \notin {conn[c].up, conn[c].down} /\ conn[c].rc # "nil"
  /\ loop \in Loop
  /\ stopper \in {"not called", "waiting", "returned"}
  /\ listening \in BOOLEAN /\ ctxDone \in BOOLEAN

\* socks.go:217-254: a client is answered at most once, and told of success only
\* when there is a connection to the remote.
OneTrueReply ==
  \A c \in Conns :
    /\ Len(conn[c].replies) <= 1
    /\ conn[c].replies = <<0>> => conn[c].dial = "ok"

\* socks.go:253: however the handler returns, it leaves no connection to a remote open.
NothingLeftOpen == \A c \in Conns : At(c, "closed") => conn[c].rc \in {"nil", "closed"}

\* socks.go:180-215: while a remote is connected, the kernel was asked to bind its socket to
\* the VPN exactly if its name must go there and the server has an interface to bind to.
\* Whether the kernel does so is another matter ("refused").
TunnelFollowsLists ==
  \A c \in Conns :
    conn[c].rc \in {"bound", "refused", "unbound"} =>
      (conn[c].rc # "unbound" <=> BindIf /\ MustUseVPN(conn[c].request.name))

\* socks.go:80, "Once the tunnel is established the deadline is cleared so long-lived
\* connections work": a copy ends only after one of the two peers ended.
TunnelOutlivesHandshake ==
  \A c \in Conns :
    conn[c].up = "done" \/ conn[c].down = "done" => conn[c].client # "open" \/ conn[c].remote # "open"

\* socks.go:51-64: once stop has returned no handler begins any more, not even for a
\* connection the loop had already accepted.
NoHandlerAfterStop ==
  [][stopper = "returned" => \A c \in Conns : conn'[c].at = "start" => At(c, "start")]_vars

\* socks.go:79, "to avoid leaking goroutines on clients that connect but never send
\* data": every handshake ends, whatever the client does.
HandshakesEnd ==
  \A c \in Conns : At(c, "greeting") ~> conn[c].at \in {"relay", "udp", "closed"}

\* socks.go:64: stop returns.
StopEnds == ctxDone ~> stopper = "returned"

\* socks.go:195-202: one peer's end of stream reaches the other and the tunnel ends.
EndsTravel ==
  \A c \in Conns :
    At(c, "relay") /\ (conn[c].client # "open" \/ conn[c].remote # "open") ~> At(c, "closed")
=============================================================================
