------------------------- MODULE SocksConnectProofs -------------------------
(***************************************************************************)
(* Theorems about SocksConnect, for every number of connections, every set *)
(* of requests, domain lists and faults.                                   *)
(***************************************************************************)
EXTENDS SocksConnect, SocksPolicyProofs

\* The statements before there can be a connection to a remote.
Early == {"none", "backlog", "accepted", "start", "greeting", "request", "resolve", "dial", "udp"}
\* The statements at which there is one.
Connected == {"reply", "clear", "relay"}

\* How far a handler has come decides what it has answered, what it holds, and what
\* its copies do.
Ordered(k) ==
  /\ k.at \in Early => k.replies = <<>> /\ k.dial = "none" /\ k.rc = "nil"
  /\ k.at \in Connected => k.dial = "ok" /\ k.rc \in {"bound", "refused", "unbound"}
  /\ k.at = "closed" => k.rc \in {"nil", "closed"}
  /\ k.at = "reply" => k.replies = <<>>
  /\ k.at = "request" => k.said \in {Nothing} \cup Requests
  /\ Len(k.replies) <= 1
  /\ k.replies = << 0 >> => k.dial = "ok"
  /\ k.rc \in {"bound", "refused", "unbound"} =>
       (k.rc # "unbound" <=> BindIf /\ UseVPN(k.request.name))
  /\ k.at = "relay" => k.deadline = "none" /\ "off" \notin {k.up, k.down}
  /\ k.at # "relay" => "copy" \notin {k.up, k.down}
  /\ "done" \in {k.up, k.down} => k.client # "open" \/ k.remote # "open"

\* The accept loop holds a connection only between the accept and the go statement,
\* and stop returns only once the loop has ended.
LoopInv ==
  /\ loop.at = "spawn" => loop.holds \in Conns /\ At(loop.holds, "accepted")
  /\ stopper = "returned" => loop.at = "ended"

Typing ==
  /\ conn \in [Conns -> Connection]
  /\ loop \in Loop
  /\ stopper \in {"not called", "waiting", "returned"}
  /\ listening \in BOOLEAN /\ ctxDone \in BOOLEAN

Inv == Typing /\ LoopInv /\ \A c \in Conns : Ordered(conn[c])

(***************************************************************************)
(* One connection.                                                         *)
(***************************************************************************)
\* What a step of a connection's own does to the others and to the server: nothing.
LEMMA OneConnection ==
  ASSUME NEW c \in Conns, Typing, Handshake(c) \/ Tunnel(c) \/ Environment(c)
  PROVE  UNCHANGED server /\ \E k : conn' = [conn EXCEPT ![c] = k]
BY DEF Handshake, Start, ReadGreeting, ReadRequest, ReadFails, Resolve, DialOpens, DialFails,
       ReplyFails, Reply, ClearDeadline, Tunnel, UpEnds, DownEnds, CopyBreaks, TunnelEnds,
       Environment, Connects, Greets, Asks, DeadlinePasses, ClientEnds, RemoteEnds, Becomes

\* The values the words of a client and the replies take.
LEMMA Values ==
  /\ Nothing \in {Nothing} \cup Greetings \cup Requests
  /\ Greetings \subseteq {Nothing} \cup Greetings \cup Requests
  /\ \A e \in DOMAIN DialReply : DialReply[e] \in 1..8 /\ e # "ok"
BY DEF Nothing, Greetings, DialReply

LEMMA Codes ==
  \A code \in 0..8 : /\ <<code>> \in Seq(0..8) /\ Len(<<code>>) = 1
                      /\ Append(<<>>, code) = <<code>>
                      /\ code # 0 => <<code>> # << 0 >>
OBVIOUS

\* A handler with other replies, or one that has returned, is a handler.
LEMMA Answered ==
  ASSUME NEW k \in Connection, NEW s \in Seq(0..8)
  PROVE  /\ [k EXCEPT !.replies = s] \in Connection
         /\ [k EXCEPT !.replies = s].replies = s
         /\ [k EXCEPT !.replies = s].at = k.at /\ [k EXCEPT !.replies = s].rc = k.rc
         /\ [k EXCEPT !.replies = s].dial = k.dial
         /\ [k EXCEPT !.replies = s].up = k.up /\ [k EXCEPT !.replies = s].down = k.down
         /\ [k EXCEPT !.replies = s].client = k.client
         /\ [k EXCEPT !.replies = s].remote = k.remote
         /\ [k EXCEPT !.replies = s].request = k.request
BY DEF Connection

LEMMA Closed ==
  ASSUME NEW k \in Connection
  PROVE  /\ Close(k) \in Connection
         /\ Close(k).at = "closed" /\ Close(k).rc = IF k.rc = "nil" THEN "nil" ELSE "closed"
         /\ Close(k).replies = k.replies /\ Close(k).dial = k.dial
         /\ Close(k).up = k.up /\ Close(k).down = k.down
         /\ Close(k).client = k.client /\ Close(k).remote = k.remote
         /\ Close(k).request = k.request
<1> DEFINE r == IF k.rc = "nil" THEN "nil" ELSE "closed"
<1>1. Close(k) = [k EXCEPT !.at = "closed", !.rc = r]
      BY DEF Close, Connection
<1>2. r \in {"nil", "closed"}
      OBVIOUS
<1> HIDE DEF r
<1>3. /\ [k EXCEPT !.at = "closed", !.rc = r] \in Connection
      /\ [k EXCEPT !.at = "closed", !.rc = r].at = "closed"
      /\ [k EXCEPT !.at = "closed", !.rc = r].rc = r
      BY <1>2 DEF Connection, Statement
<1>4. QED
      BY <1>1, <1>3 DEF r, Connection

\* Returning, with nothing more said.
LEMMA Returning ==
  ASSUME NEW k \in Connection, Ordered(k), k.at = "relay" => "copy" \notin {k.up, k.down}
  PROVE  Close(k) \in Connection /\ Ordered(Close(k))
<1>1. /\ Close(k).at = "closed" /\ Close(k).rc \in {"nil", "closed"}
      /\ Close(k).replies = k.replies /\ Close(k).dial = k.dial
      /\ Close(k).up = k.up /\ Close(k).down = k.down
      /\ Close(k).client = k.client /\ Close(k).remote = k.remote
      BY Closed
<1>2. Ordered(Close(k))
      BY <1>1 DEF Ordered, Early, Connected
<1>3. QED
      BY <1>2, Closed

\* Refusing, before there is a remote, with a code that is not success.
LEMMA Refusing ==
  ASSUME NEW k \in Connection, Ordered(k), k.at \in Early, NEW code \in 1..8
  PROVE  LET m == [k EXCEPT !.replies = Append(@, code)]
         IN  Close(m) \in Connection /\ Ordered(Close(m)) /\ Close(m).replies # << 0 >>
<1> DEFINE s == <<code>>
           m == [k EXCEPT !.replies = s]
<1>1. /\ k.replies = <<>> /\ k.rc = "nil" /\ "copy" \notin {k.up, k.down} /\ k.at # "relay"
      /\ "done" \in {k.up, k.down} => k.client # "open" \/ k.remote # "open"
      BY DEF Ordered, Early
<1>2. s \in Seq(0..8) /\ Len(s) = 1 /\ s # << 0 >> /\ s = Append(<<>>, code)
      BY Codes
<1>3. m = [k EXCEPT !.replies = Append(@, code)]
      BY <1>1, <1>2
<1> HIDE DEF s
<1>4. /\ m \in Connection /\ m.rc = "nil" /\ m.replies = s
      /\ m.up = k.up /\ m.down = k.down /\ m.client = k.client /\ m.remote = k.remote
      BY <1>1, <1>2, Answered
<1> HIDE DEF m
<1>5. /\ Close(m).at = "closed" /\ Close(m).rc = "nil" /\ Close(m).replies = s
      /\ Close(m).up = k.up /\ Close(m).down = k.down
      /\ Close(m).client = k.client /\ Close(m).remote = k.remote
      BY <1>4, Closed
<1>6. Ordered(Close(m))
      BY <1>1, <1>2, <1>5 DEF Ordered, Early, Connected
<1>7. QED
      BY <1>2, <1>3, <1>4, <1>5, <1>6, Closed

\* How a dial failed is noted of a handler that has returned without success.
LEMMA DialNoted ==
  ASSUME NEW l \in Connection, Ordered(l), l.at = "closed", l.replies # << 0 >>,
         NEW e \in DOMAIN DialReply
  PROVE  [l EXCEPT !.dial = e] \in Connection /\ Ordered([l EXCEPT !.dial = e])
<1> DEFINE m == [l EXCEPT !.dial = e]
<1>1. m \in Connection
      BY DEF Connection
<1>2. /\ m.at = l.at /\ m.rc = l.rc /\ m.replies = l.replies /\ m.up = l.up /\ m.down = l.down
      /\ m.client = l.client /\ m.remote = l.remote /\ m.request = l.request
      BY DEF Connection
<1>3. Ordered(m)
      BY <1>2 DEF Ordered, Early, Connected
<1>4. QED
      BY <1>1, <1>3

LEMMA HandshakeStep ==
  ASSUME NEW c \in Conns, Typing, Ordered(conn[c]), Handshake(c)
  PROVE  conn'[c] \in Connection /\ Ordered(conn'[c])
<1> DEFINE k == conn[c]
           l == conn'[c]
<1>0. conn \in [Conns -> Connection]
      BY DEF Typing
<1>1. k \in Connection /\ Ordered(k)
      BY <1>0
<1> HIDE DEF k, l
<1>2. CASE Start(c)
  <2>1. k.at = "start" /\ l = [k EXCEPT !.at = "greeting", !.deadline = "set"]
        BY <1>0, <1>2 DEF Start, Becomes, At, k, l
  <2>2. l \in Connection
        BY <1>1, <2>1 DEF Connection, Statement
  <2>3. Ordered(l)
        BY <1>1, <2>1 DEF Ordered, Early, Connected, Connection
  <2>4. QED
        BY <2>2, <2>3 DEF l
<1>3. CASE ReadGreeting(c)
  <2>1. k.at = "greeting" /\ l \in {[k EXCEPT !.at = "request", !.said = Nothing], Close(k)}
        BY <1>0, <1>3 DEF ReadGreeting, Becomes, At, k, l
  <2>2. CASE l = Close(k)
        BY <1>1, <2>1, <2>2, Returning DEF l
  <2>3. CASE l = [k EXCEPT !.at = "request", !.said = Nothing]
    <3>1. l \in Connection
          BY <1>1, <2>3, Values DEF Connection, Statement
    <3>2. Ordered(l)
          BY <1>1, <2>1, <2>3 DEF Ordered, Early, Connected, Connection
    <3>3. QED
          BY <3>1, <3>2 DEF l
  <2>4. QED
        BY <2>1, <2>2, <2>3
<1>4. CASE ReadRequest(c)
  <2>1. k.at = "request" /\ k.said \in Requests
        BY <1>0, <1>1, <1>4 DEF ReadRequest, At, CanRead, Ordered, k
  <2>2. k.said.kind \in {"connect", "udp", "version", "command", "type"}
        BY <2>1, SocksConnectAssumption
  <2>3. \/ l = [k EXCEPT !.at = "resolve", !.request = k.said, !.said = Nothing]
        \/ l = [k EXCEPT !.at = "udp"]
        \/ l = Close(k)
        \/ \E code \in {1, 7, 8} : l = Close([k EXCEPT !.replies = Append(@, code)])
        BY <1>0, <1>4, <2>2 DEF ReadRequest, Becomes, Written, k, l
  <2>4. CASE l = [k EXCEPT !.at = "resolve", !.request = k.said, !.said = Nothing]
    <3>1. l \in Connection
          BY <1>1, <2>1, <2>4, Values DEF Connection, Statement
    <3>2. Ordered(l)
          BY <1>1, <2>1, <2>4 DEF Ordered, Early, Connected, Connection
    <3>3. QED
          BY <3>1, <3>2 DEF l
  <2>5. CASE l = [k EXCEPT !.at = "udp"]
    <3>1. l \in Connection
          BY <1>1, <2>1, <2>5 DEF Connection, Statement
    <3>2. Ordered(l)
          BY <1>1, <2>1, <2>5 DEF Ordered, Early, Connected, Connection
    <3>3. QED
          BY <3>1, <3>2 DEF l
  <2>6. CASE l = Close(k)
        BY <1>1, <2>1, <2>6, Returning DEF l
  <2>7. CASE \E code \in {1, 7, 8} : l = Close([k EXCEPT !.replies = Append(@, code)])
    <3>1. k.at \in Early
          BY <2>1 DEF Early
    <3>2. PICK code \in {1, 7, 8} : l = Close([k EXCEPT !.replies = Append(@, code)])
          BY <2>7
    <3>3. code \in 1..8
          OBVIOUS
    <3>4. QED
          BY <1>1, <3>1, <3>2, <3>3, Refusing DEF l
  <2>8. QED
        BY <2>3, <2>4, <2>5, <2>6, <2>7
<1>5. CASE ReadFails(c)
  <2>1. k.at \in {"greeting", "request"} /\ l = Close(k)
        BY <1>0, <1>5 DEF ReadFails, Becomes, k, l
  <2>2. QED
        BY <1>1, <2>1, Returning DEF l
<1>6. CASE Resolve(c)
  <2>1. /\ k.at = "resolve"
        /\ \/ l = [k EXCEPT !.at = "dial"]
           \/ l = Close(k)
           \/ l = Close([k EXCEPT !.replies = Append(@, 4)])
        BY <1>0, <1>6 DEF Resolve, Becomes, Written, At, k, l
  <2>2. CASE l = [k EXCEPT !.at = "dial"]
    <3>1. l \in Connection
          BY <1>1, <2>1, <2>2 DEF Connection, Statement
    <3>2. Ordered(l)
          BY <1>1, <2>1, <2>2 DEF Ordered, Early, Connected, Connection
    <3>3. QED
          BY <3>1, <3>2 DEF l
  <2>3. CASE l = Close(k)
        BY <1>1, <2>1, <2>3, Returning DEF l
  <2>4. CASE l = Close([k EXCEPT !.replies = Append(@, 4)])
    <3>1. k.at \in Early /\ 4 \in 1..8
          BY <2>1 DEF Early
    <3>2. QED
          BY <1>1, <2>4, <3>1, Refusing DEF l
  <2>5. QED
        BY <2>1, <2>2, <2>3, <2>4
<1>7. CASE DialOpens(c)
  <2>1. PICK s \in DialSocket(k.request.name) :
          k.at = "dial" /\ l = [k EXCEPT !.at = "reply", !.rc = s, !.dial = "ok"]
        BY <1>0, <1>7 DEF DialOpens, Becomes, At, k, l
  <2>2. /\ s \in {"bound", "refused", "unbound"}
        /\ s # "unbound" <=> BindIf /\ UseVPN(k.request.name)
        BY DEF DialSocket
  <2>3. l \in Connection
        BY <1>1, <2>1, <2>2 DEF Connection, Statement
  <2>4. Ordered(l)
        BY <1>1, <2>1, <2>2 DEF Ordered, Early, Connected, Connection
  <2>5. QED
        BY <2>3, <2>4 DEF l
<1>8. CASE DialFails(c)
  <2>1. PICK e \in DOMAIN DialReply :
          l = [Close(Written(c, k, DialReply[e])) EXCEPT !.dial = e]
        BY <1>0, <1>8 DEF DialFails, Becomes, k, l
  <2> DEFINE code == DialReply[e]
             m == Close(Written(c, k, code))
  <2>2. code \in 1..8 /\ k.at = "dial" /\ k.at \in Early
        BY <1>8, Values DEF DialFails, At, Early, k
  <2>3. m = Close(k) \/ m = Close([k EXCEPT !.replies = Append(@, code)])
        BY DEF Written
  <2> HIDE DEF code, m
  <2>4. m \in Connection /\ Ordered(m) /\ m.at = "closed" /\ m.replies # << 0 >>
    <3>1. CASE m = Close(k)
      <4>1. k.replies = <<>> /\ k.at # "relay"
            BY <1>1, <2>2 DEF Ordered, Early
      <4>2. QED
            BY <1>1, <3>1, <4>1, Returning, Closed
    <3>2. CASE m = Close([k EXCEPT !.replies = Append(@, code)])
      <4>1. m \in Connection /\ Ordered(m) /\ m.replies # << 0 >>
            BY <1>1, <2>2, <3>2, Refusing
      <4>2. m.at = "closed"
            BY <3>2, <1>1 DEF Close, Connection
      <4>3. QED
            BY <4>1, <4>2
    <3>3. QED
          BY <2>3, <3>1, <3>2
  <2>5. l = [m EXCEPT !.dial = e]
        BY <2>1 DEF m, code
  <2>6. QED
        BY <2>4, <2>5, DialNoted DEF l
<1>9. CASE ReplyFails(c)
  <2>1. k.at = "reply" /\ l = Close(k)
        BY <1>0, <1>9 DEF ReplyFails, Becomes, At, k, l
  <2>2. QED
        BY <1>1, <2>1, Returning DEF l
<1>10. CASE Reply(c)
  <2>1. k.at = "reply" /\ l = [k EXCEPT !.at = "clear", !.replies = Append(@, 0)]
        BY <1>0, <1>10 DEF Reply, Becomes, At, k, l
  <2>2. k.replies = <<>>
        BY <1>1, <2>1 DEF Ordered
  <2>3. l = [k EXCEPT !.at = "clear", !.replies = << 0 >>]
        BY <2>1, <2>2, Codes
  <2> DEFINE s == << 0 >>
             m == [k EXCEPT !.replies = s]
  <2>4. s \in Seq(0..8) /\ Len(s) = 1
        BY Codes
  <2>5. l = [m EXCEPT !.at = "clear"]
        BY <1>1, <2>3 DEF Connection
  <2> HIDE DEF s
  <2>6. /\ m \in Connection /\ m.replies = s /\ m.rc = k.rc /\ m.dial = k.dial
        /\ m.up = k.up /\ m.down = k.down
        /\ m.client = k.client /\ m.remote = k.remote /\ m.request = k.request
        BY <1>1, <2>4, Answered
  <2> HIDE DEF m
  <2>7. l \in Connection
        BY <2>5, <2>6 DEF Connection, Statement
  <2>8. Ordered(l)
        BY <1>1, <2>1, <2>4, <2>5, <2>6 DEF Ordered, Early, Connected, Connection
  <2>9. QED
        BY <2>7, <2>8 DEF l
<1>11. CASE ClearDeadline(c)
  <2>1. k.at = "clear"
        /\ l = [k EXCEPT !.at = "relay", !.deadline = "none", !.up = "copy", !.down = "copy"]
        BY <1>0, <1>11 DEF ClearDeadline, Becomes, At, k, l
  <2>2. l \in Connection
        BY <1>1, <2>1 DEF Connection, Statement
  <2>3. Ordered(l)
        BY <1>1, <2>1 DEF Ordered, Early, Connected, Connection
  <2>4. QED
        BY <2>2, <2>3 DEF l
<1>12. QED
      BY <1>2, <1>3, <1>4, <1>5, <1>6, <1>7, <1>8, <1>9, <1>10, <1>11 DEF Handshake

LEMMA TunnelStep ==
  ASSUME NEW c \in Conns, Typing, Ordered(conn[c]), Tunnel(c) \/ Environment(c)
  PROVE  conn'[c] \in Connection /\ Ordered(conn'[c])
<1> DEFINE k == conn[c]
           l == conn'[c]
<1>0. conn \in [Conns -> Connection]
      BY DEF Typing
<1>1. k \in Connection /\ Ordered(k)
      BY <1>0
<1>2. /\ k.deadline = "passed" => k.at # "relay"
      /\ k.up = "copy" \/ k.down = "copy" => k.at = "relay"
      BY <1>1 DEF Ordered
<1> HIDE DEF k, l
<1>3. CASE UpEnds(c) \/ DownEnds(c) \/ CopyBreaks(c)
  <2>1. /\ k.at = "relay" /\ (k.client # "open" \/ k.remote # "open")
        /\ \/ l = [k EXCEPT !.up = "done", !.eof = @ \cup {"remote"}]
           \/ l = [k EXCEPT !.down = "done", !.eof = @ \cup {"client"}]
        BY <1>0, <1>2, <1>3 DEF UpEnds, DownEnds, CopyBreaks, Becomes, Late, k, l
  <2>2. l \in Connection
    <3>1. k.eof \cup {"remote"} \in SUBSET {"client", "remote"}
          BY <1>1 DEF Connection
    <3>2. k.eof \cup {"client"} \in SUBSET {"client", "remote"}
          BY <1>1 DEF Connection
    <3>3. CASE l = [k EXCEPT !.up = "done", !.eof = @ \cup {"remote"}]
          BY <1>1, <3>1, <3>3 DEF Connection
    <3>4. CASE l = [k EXCEPT !.down = "done", !.eof = @ \cup {"client"}]
          BY <1>1, <3>2, <3>4 DEF Connection
    <3>5. QED
          BY <2>1, <3>3, <3>4
  <2>3. Ordered(l)
        BY <1>1, <2>1 DEF Ordered, Early, Connected, Connection
  <2>4. QED
        BY <2>2, <2>3 DEF l
<1>4. CASE TunnelEnds(c)
  <2>1. k.up = "done" /\ k.down = "done" /\ l = Close(k)
        BY <1>0, <1>4 DEF TunnelEnds, Becomes, k, l
  <2>2. QED
        BY <1>1, <2>1, Returning DEF l
<1>5. CASE Connects(c)
  <2>1. k.at = "none" /\ l = [k EXCEPT !.at = "backlog"]
        BY <1>0, <1>5 DEF Connects, Becomes, At, k, l
  <2>2. l \in Connection
        BY <1>1, <2>1 DEF Connection, Statement
  <2>3. Ordered(l)
        BY <1>1, <2>1 DEF Ordered, Early, Connected, Connection
  <2>4. QED
        BY <2>2, <2>3 DEF l
<1>6. CASE Greets(c)
  <2>1. PICK g \in Greetings : k.at \in {"backlog", "greeting"} /\ l = [k EXCEPT !.said = g]
        BY <1>0, <1>6 DEF Greets, Becomes, k, l
  <2>2. l \in Connection
        BY <1>1, <2>1, Values DEF Connection
  <2>3. Ordered(l)
        BY <1>1, <2>1 DEF Ordered, Early, Connected, Connection
  <2>4. QED
        BY <2>2, <2>3 DEF l
<1>7. CASE Asks(c)
  <2>1. PICK r \in Requests : k.at = "request" /\ l = [k EXCEPT !.said = r]
        BY <1>0, <1>7 DEF Asks, Becomes, At, k, l
  <2>2. l \in Connection
        BY <1>1, <2>1, Values DEF Connection
  <2>3. Ordered(l)
        BY <1>1, <2>1 DEF Ordered, Early, Connected, Connection
  <2>4. QED
        BY <2>2, <2>3 DEF l
<1>8. CASE DeadlinePasses(c)
  <2>1. k.deadline = "set" /\ l = [k EXCEPT !.deadline = "passed"]
        BY <1>0, <1>8 DEF DeadlinePasses, Becomes, k, l
  <2>2. l \in Connection
        BY <1>1, <2>1 DEF Connection
  <2>3. Ordered(l)
        BY <1>1, <2>1 DEF Ordered, Early, Connected, Connection
  <2>4. QED
        BY <2>2, <2>3 DEF l
<1>9. CASE ClientEnds(c)
  <2>1. PICK p \in {"shut", "gone"} : l = [k EXCEPT !.client = p]
        BY <1>0, <1>9 DEF ClientEnds, Becomes, k, l
  <2>2. l \in Connection
        BY <1>1, <2>1 DEF Connection, Peer
  <2>3. Ordered(l)
        BY <1>1, <2>1 DEF Ordered, Early, Connected, Connection
  <2>4. QED
        BY <2>2, <2>3 DEF l
<1>10. CASE RemoteEnds(c)
  <2>1. PICK p \in {"shut", "gone"} : l = [k EXCEPT !.remote = p]
        BY <1>0, <1>10 DEF RemoteEnds, Becomes, k, l
  <2>2. l \in Connection
        BY <1>1, <2>1 DEF Connection, Peer
  <2>3. Ordered(l)
        BY <1>1, <2>1 DEF Ordered, Early, Connected, Connection
  <2>4. QED
        BY <2>2, <2>3 DEF l
<1>11. QED
      BY <1>3, <1>4, <1>5, <1>6, <1>7, <1>8, <1>9, <1>10 DEF Tunnel, Environment

\* What the accept loop and stop do to a connection: it moves on, or is reset, before a
\* handler has begun.
LEMMA ServerStep ==
  ASSUME NEW c \in Conns, Typing, LoopInv, Ordered(conn[c]), AcceptLoop \/ Cancel \/ Stop
  PROVE  conn'[c] \in Connection /\ Ordered(conn'[c])
<1> DEFINE k == conn[c]
           l == conn'[c]
<1>0. conn \in [Conns -> Connection]
      BY DEF Typing
<1>1. k \in Connection /\ Ordered(k)
      BY <1>0
<1>2. \/ l = k
      \/ k.at = "backlog" /\ l = [k EXCEPT !.at = "accepted"]
      \/ k.at = "accepted" /\ l = [k EXCEPT !.at = "start"]
      \/ k.at = "backlog" /\ l = [k EXCEPT !.at = "closed"]
      BY <1>0 DEF AcceptLoop, Accept, Spawn, AcceptFails, Cancel, Stop, StopCloses, StopReturns,
                  At, LoopInv
<1> HIDE DEF k, l
<1>3. l \in Connection
      BY <1>1, <1>2 DEF Connection, Statement
<1>4. Ordered(l)
      BY <1>1, <1>2 DEF Ordered, Early, Connected, Connection
<1>5. QED
      BY <1>3, <1>4 DEF l

\* A step of a connection's own never begins a handler, and only DialOpens opens a
\* connection to the remote.
LEMMA Modest ==
  ASSUME NEW c \in Conns, Typing, Ordered(conn[c]),
         Handshake(c) \/ Tunnel(c) \/ Environment(c)
  PROVE  /\ conn'[c].at = "start" => conn[c].at = "start"
         /\ \/ DialOpens(c)
            \/ conn'[c].dial = conn[c].dial
            \/ conn'[c].dial \in DOMAIN DialReply
<1>0. conn \in [Conns -> Connection]
      BY DEF Typing
<1> DEFINE k == conn[c]
           l == conn'[c]
<1>1. k \in Connection
      BY <1>0
<1>2. \A code : /\ Close(k).at = "closed" /\ Close(k).dial = k.dial
                /\ Close(Written(c, k, code)).at = "closed"
                /\ Close(Written(c, k, code)).dial = k.dial
      BY <1>1 DEF Close, Written, Connection
<1> HIDE DEF k, l
<1>3. CASE Start(c) \/ ReadGreeting(c) \/ ReadFails(c)
  <2>1. \/ l = [k EXCEPT !.at = "greeting", !.deadline = "set"]
        \/ l = [k EXCEPT !.at = "request", !.said = Nothing]
        \/ l = Close(k)
        BY <1>0, <1>3 DEF Start, ReadGreeting, ReadFails, Becomes, k, l
  <2>2. QED
        BY <1>1, <1>2, <2>1 DEF Connection, k, l
<1>4. CASE ReadRequest(c)
  <2>1. k.at = "request" /\ k.said \in Requests
        BY <1>0, <1>4 DEF ReadRequest, At, CanRead, Ordered, k
  <2>2. k.said.kind \in {"connect", "udp", "version", "command", "type"}
        BY <2>1, SocksConnectAssumption
  <2>3. \/ l = [k EXCEPT !.at = "resolve", !.request = k.said, !.said = Nothing]
        \/ l = [k EXCEPT !.at = "udp"]
        \/ \E code : l = Close(Written(c, k, code))
        BY <1>0, <1>4, <2>2 DEF ReadRequest, Becomes, k, l
  <2>4. QED
        BY <1>1, <1>2, <2>3 DEF Connection, k, l
<1>5. CASE Resolve(c)
  <2>1. l = [k EXCEPT !.at = "dial"] \/ \E code : l = Close(Written(c, k, code))
        BY <1>0, <1>5 DEF Resolve, Becomes, k, l
  <2>2. QED
        BY <1>1, <1>2, <2>1 DEF Connection, k, l
<1>6. CASE DialFails(c)
  <2>1. PICK e \in DOMAIN DialReply :
          l = [Close(Written(c, k, DialReply[e])) EXCEPT !.dial = e]
        BY <1>0, <1>6 DEF DialFails, Becomes, k, l
  <2>2. l.dial = e /\ l.at = "closed"
        BY <1>1, <2>1 DEF Close, Written, Connection
  <2>3. QED
        BY <2>2 DEF l
<1>7. CASE DialOpens(c)
      BY <1>0, <1>7 DEF DialOpens, Becomes, Connection
<1>8. CASE ReplyFails(c) \/ Reply(c) \/ ClearDeadline(c)
  <2>1. \/ l = Close(k)
        \/ \E r : l = [k EXCEPT !.at = "clear", !.replies = r]
        \/ \E d, u : l = [k EXCEPT !.at = "relay", !.deadline = d, !.up = u, !.down = u]
        BY <1>0, <1>8 DEF ReplyFails, Reply, ClearDeadline, Becomes, k, l
  <2>2. QED
        BY <1>1, <1>2, <2>1 DEF Connection, k, l
<1>9. CASE Tunnel(c)
  <2>1. \/ \E e : l = [k EXCEPT !.up = "done", !.eof = e]
        \/ \E e : l = [k EXCEPT !.down = "done", !.eof = e]
        \/ l = Close(k)
        BY <1>0, <1>9 DEF Tunnel, UpEnds, DownEnds, CopyBreaks, TunnelEnds, Becomes, k, l
  <2>2. QED
        BY <1>1, <1>2, <2>1 DEF Connection, k, l
<1>10. CASE Environment(c)
  <2>1. \/ l = [k EXCEPT !.at = "backlog"]
        \/ \E w : l = [k EXCEPT !.said = w]
        \/ l = [k EXCEPT !.deadline = "passed"]
        \/ \E p : l = [k EXCEPT !.client = p]
        \/ \E p : l = [k EXCEPT !.remote = p]
        BY <1>0, <1>10 DEF Environment, Connects, Greets, Asks, DeadlinePasses, ClientEnds,
                          RemoteEnds, Becomes, k, l
  <2>2. QED
        BY <1>1, <1>2, <2>1 DEF Connection, k, l
<1>11. QED
      BY <1>3, <1>4, <1>5, <1>6, <1>7, <1>8, <1>9, <1>10 DEF Handshake

(***************************************************************************)
(* Every step.                                                             *)
(***************************************************************************)
LEMMA InvInit == Init => Inv
<1>1. NewConn \in Connection /\ Ordered(NewConn)
  <2>1. NewConn \in Connection
        BY DEF NewConn, Connection, Statement, Peer
  <2>2. Ordered(NewConn)
        BY DEF NewConn, Ordered, Early, Connected
  <2>3. QED
        BY <2>1, <2>2
<1>2. Init => listening \in BOOLEAN /\ ctxDone \in BOOLEAN
      BY Zenon DEF Init
<1>3. Init => /\ conn \in [Conns -> Connection] /\ \A c \in Conns : Ordered(conn[c])
              /\ stopper \in {"not called", "waiting", "returned"}
              /\ stopper # "returned"
      BY <1>1 DEF Init
<1>4. Init => loop = [at |-> "accept", holds |-> "none"]
      BY DEF Init
<1>5. Init => loop \in Loop /\ loop.at # "spawn"
      BY <1>4 DEF Loop
<1>6. QED
      BY <1>2, <1>3, <1>5 DEF Inv, Typing, LoopInv

LEMMA InvNext == Inv /\ [Next]_vars => Inv'
<1> SUFFICES ASSUME Inv, [Next]_vars PROVE Inv'
    OBVIOUS
<1>0. Typing /\ LoopInv /\ \A c \in Conns : Ordered(conn[c])
      BY DEF Inv
<1>1. CASE UNCHANGED vars
      BY <1>0, <1>1 DEF vars, Inv, Typing, LoopInv, At
<1>2. CASE AcceptLoop \/ Cancel \/ Stop
  <2>1. \A c \in Conns : conn'[c] \in Connection /\ Ordered(conn'[c])
        BY <1>0, <1>2, ServerStep
  <2>2. conn' \in [Conns -> Connection]
    <3>1. \/ conn' = conn
          \/ \E c \in Conns : \E k : conn' = [conn EXCEPT ![c] = k]
          \/ conn' = [c \in Conns |-> IF At(c, "backlog") THEN [conn[c] EXCEPT !.at = "closed"]
                                     ELSE conn[c]]
          BY <1>0, <1>2 DEF LoopInv, AcceptLoop, Accept, Spawn, AcceptFails, Cancel, Stop, StopCloses,
                            StopReturns
    <3>2. QED
          BY <1>0, <2>1, <3>1 DEF Typing
  <2>3. loop' \in Loop /\ stopper' \in {"not called", "waiting", "returned"}
    <3>1. stopper' \in {"not called", "waiting", "returned"}
          BY <1>0, <1>2
          DEF Typing, AcceptLoop, Accept, Spawn, AcceptFails, Cancel, Stop, StopCloses, StopReturns
    <3>2. \/ loop' = loop
          \/ \E c \in Conns : loop' = [at |-> "spawn", holds |-> c]
          \/ loop' = [at |-> "accept", holds |-> "none"]
          \/ loop' = [loop EXCEPT !.at = "ended"]
          BY <1>0, <1>2
          DEF AcceptLoop, Accept, Spawn, AcceptFails, Cancel, Stop, StopCloses, StopReturns
    <3>3. loop \in Loop
          BY <1>0 DEF Typing
    <3>4. loop' \in Loop
          BY <3>2, <3>3 DEF Loop
    <3>5. QED
          BY <3>1, <3>4
  <2>4. listening' \in BOOLEAN /\ ctxDone' \in BOOLEAN
        BY <1>0, <1>2, Zenon
        DEF Typing, AcceptLoop, Accept, Spawn, AcceptFails, Cancel, Stop, StopCloses, StopReturns
  <2>5. LoopInv'
    <3>1. \/ \E c \in Conns : /\ loop' = [at |-> "spawn", holds |-> c]
                                /\ conn' = [conn EXCEPT ![c].at = "accepted"]
          \/ loop' = [at |-> "accept", holds |-> "none"]
          \/ loop' = [loop EXCEPT !.at = "ended"]
          \/ loop' = loop /\ conn' = conn
          \/ /\ loop' = loop
             /\ conn' = [c \in Conns |-> IF At(c, "backlog") THEN [conn[c] EXCEPT !.at = "closed"]
                                        ELSE conn[c]]
          BY <1>2
          DEF AcceptLoop, Accept, Spawn, AcceptFails, Cancel, Stop, StopCloses, StopReturns
    <3>2. /\ conn \in [Conns -> Connection]
          /\ loop.at = "spawn" => loop.holds \in Conns /\ conn[loop.holds].at = "accepted"
          BY <1>0 DEF Typing, LoopInv, At
    <3>3. loop \in Loop
          BY <1>0 DEF Typing
    <3>4. loop'.at = "spawn" => loop'.holds \in Conns /\ conn'[loop'.holds].at = "accepted"
          BY <3>1, <3>2, <3>3 DEF Connection, Loop, At
    <3>5. stopper' = "returned" => loop'.at = "ended"
          BY <1>0, <1>2
          DEF LoopInv, AcceptLoop, Accept, Spawn, AcceptFails, Cancel, Stop, StopCloses, StopReturns
    <3>6. QED
          BY <3>4, <3>5 DEF LoopInv, At
  <2>6. QED
        BY <2>1, <2>2, <2>3, <2>4, <2>5 DEF Inv, Typing
<1>3. CASE \E c \in Conns : Handshake(c) \/ Tunnel(c) \/ Environment(c)
  <2>1. PICK c \in Conns : Handshake(c) \/ Tunnel(c) \/ Environment(c)
        BY <1>3
  <2>2. conn'[c] \in Connection /\ Ordered(conn'[c])
        BY <1>0, <2>1, HandshakeStep, TunnelStep
  <2>3. UNCHANGED server /\ \A d \in Conns \ {c} : conn'[d] = conn[d]
        BY <1>0, <2>1, OneConnection DEF Typing
  <2>4. conn' \in [Conns -> Connection]
        BY <1>0, <2>1, <2>2, OneConnection DEF Typing
  <2>5. At(c, "accepted") => conn'[c].at = "accepted"
    <3>1. At(c, "accepted") => DeadlinePasses(c) \/ ClientEnds(c) \/ RemoteEnds(c)
          BY <1>0, <2>1
          DEF Ordered, At, Handshake, Start, ReadGreeting, ReadRequest, ReadFails, Resolve, DialOpens,
              DialFails, ReplyFails, Reply, ClearDeadline, Tunnel, UpEnds, DownEnds, CopyBreaks,
              TunnelEnds, Environment, Connects, Greets, Asks
    <3>2. QED
      <4>1. conn \in [Conns -> Connection]
            BY <1>0 DEF Typing
      <4>2. QED
            BY <3>1, <4>1 DEF At, DeadlinePasses, ClientEnds, RemoteEnds, Becomes, Connection
  <2>6. LoopInv'
        BY <1>0, <2>3, <2>5 DEF LoopInv, At, server
  <2>7. QED
        BY <1>0, <2>2, <2>3, <2>4, <2>6 DEF Inv, Typing, server
<1>4. QED
      BY <1>1, <1>2, <1>3 DEF Next

LEMMA InvHolds == Spec => []Inv
BY InvInit, InvNext, PTL DEF Spec

(***************************************************************************)
(* The theorems.                                                           *)
(***************************************************************************)
\* Every variable of the server and of its connections keeps its type, and a tunnel has
\* its two copies and its remote (handleSocksConn, socks.go:71-215).
THEOREM TypeCorrect == Spec => []TypeOK
<1>1. Inv => TypeOK
      BY DEF Inv, Typing, TypeOK, Ordered, Connected, At
<1>2. QED
      BY <1>1, InvHolds, PTL

\* A client is answered at most once, and told of success only when there is a
\* connection to the remote (socks.go:217-254).
THEOREM RepliesTrue == Spec => []OneTrueReply
<1>1. Inv => OneTrueReply
      BY DEF Inv, OneTrueReply, Ordered
<1>2. QED
      BY <1>1, InvHolds, PTL

\* However a handler returns, the connection to the remote is closed (socks.go:253).
THEOREM RemotesClosed == Spec => []NothingLeftOpen
<1>1. Inv => NothingLeftOpen
      BY DEF Inv, NothingLeftOpen, Ordered, At
<1>2. QED
      BY <1>1, InvHolds, PTL

\* While a remote is connected, the kernel was asked to bind its socket to the VPN exactly
\* if the two lists send its name there and there is an interface, for all lists and every
\* name (socks.go:180-215, with domainMatches at :258-284).
THEOREM ListsFollowed == Spec => []TunnelFollowsLists
<1>1. Inv => TunnelFollowsLists
  <2> SUFFICES ASSUME Inv, NEW c \in Conns, conn[c].rc \in {"bound", "refused", "unbound"}
               PROVE  conn[c].rc # "unbound" <=> BindIf /\ MustUseVPN(conn[c].request.name)
      BY DEF TunnelFollowsLists
  <2>1. conn[c].rc # "unbound" <=> BindIf /\ UseVPN(conn[c].request.name)
        BY DEF Inv, Ordered
  <2>2. conn[c].request \in {Nothing} \cup Requests
        BY DEF Inv, Typing, Connection
  <2>3. conn[c].request.name \in Name
    <3>1. Nothing.name = <<>> /\ <<>> \in Name
          BY DEF Nothing, Word, Name
    <3>2. \A r \in Requests : r.name \in Name
          BY SocksConnectAssumption
    <3>3. QED
          BY <2>2, <3>1, <3>2
  <2>4. QED
        BY <2>1, <2>3, PolicyAsDocumented
<1>2. QED
      BY <1>1, InvHolds, PTL

\* A copy ends only after one of the peers did: the deadline of the handshake never
\* reaches the tunnel (socks.go:80).
THEOREM TunnelsOutliveHandshakes == Spec => []TunnelOutlivesHandshake
<1>1. Inv => TunnelOutlivesHandshake
      BY DEF Inv, TunnelOutlivesHandshake, Ordered
<1>2. QED
      BY <1>1, InvHolds, PTL

\* Once stop has returned no handler begins any more (socks.go:51-64).
THEOREM StopStopsHandlers == Spec => NoHandlerAfterStop
<1>1. Inv /\ [Next]_vars =>
        [stopper = "returned" => \A c \in Conns : conn'[c].at = "start" => At(c, "start")]_vars
  <2> SUFFICES ASSUME Inv, [Next]_vars, stopper = "returned", NEW d \in Conns,
                      conn'[d].at = "start"
               PROVE  conn[d].at = "start"
      BY DEF vars, At
  <2>0. conn \in [Conns -> Connection] /\ loop.at = "ended"
        BY DEF Inv, Typing, LoopInv
  <2>1. CASE UNCHANGED vars
        BY <2>1 DEF vars
  <2>2. CASE AcceptLoop \/ Cancel \/ Stop
        BY <2>0, <2>2
        DEF AcceptLoop, Accept, Spawn, AcceptFails, Cancel, Stop, StopCloses, StopReturns
  <2>3. CASE \E c \in Conns : Handshake(c) \/ Tunnel(c) \/ Environment(c)
    <3>1. PICK c \in Conns : Handshake(c) \/ Tunnel(c) \/ Environment(c)
          BY <2>3
    <3>2. conn'[d] = conn[d] \/ (d = c /\ (conn'[c].at = "start" => conn[c].at = "start"))
          BY <2>0, <3>1, OneConnection, Modest DEF Inv
    <3>3. QED
          BY <3>2
  <2>4. QED
        BY <2>1, <2>2, <2>3 DEF Next
<1>2. QED
      BY <1>1, InvHolds, PTL DEF Spec, NoHandlerAfterStop
=============================================================================
