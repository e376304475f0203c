---------------------------- MODULE GatewayProofs ---------------------------
(***************************************************************************)
(* The safety of order entry, for any number of peers, descriptors and     *)
(* messages: the gateway keeps its tables in step, serves each event on    *)
(* the connection it is about, and neither loses, repeats nor misdirects a *)
(* message or a reply.  The invariant is the one of GatewayLemmas; here    *)
(* are the handlers of a connection (write, read, decode, reply) and the   *)
(* theorems.                                                               *)
(***************************************************************************)
EXTENDS GatewayLemmas

-----------------------------------------------------------------------------
(* Servicing a connection.                                                 *)

\* A handler changes the connection it services and its peer's socket.
OthersAlone ==
  /\ UNCHANGED <<by_fd_, next_id_, owner, reason, events, current, backlog, sent, got>>
  /\ DOMAIN interest' = DOMAIN interest /\ owed' \in Nat
  /\ pc' \in {"read", "decode", "reply"}
  /\ by_id_' \in [DOMAIN by_id_ -> ConnectionT]
  /\ by_id_'[current.id].fd = This.fd
  /\ \A id \in DOMAIN by_id_ : id # current.id => by_id_'[id] = by_id_[id]
  /\ socket' \in [Peers -> SocketT] /\ socket'[Peer].end = socket[Peer].end
  /\ handled' \in [Peers -> Seq(Messages)] /\ owing' \in [Peers -> Seq(ReplyT)]
  /\ \A q \in Peers : q # Peer => /\ socket'[q] = socket[q]
                                  /\ handled'[q] = handled[q] /\ owing'[q] = owing[q]

\* It loses nothing of what the peer sent.
InboundKept ==
  /\ Begins(handled'[Peer], sent[Peer])
  /\ Whole(Cells(handled'[Peer]) \o by_id_'[current.id].inbound \o socket'[Peer].in,
           sent[Peer], socket[Peer].end)
  /\ Len(by_id_'[current.id].inbound) < 2 \/ pc' \in {"decode", "reply"}

\* It loses nothing of what is sent to the peer.
OutboundKept ==
  /\ got[Peer] \o socket'[Peer].out \o Pending(by_id_'[current.id]) = owing'[Peer]
  /\ \A i \in DOMAIN owing'[Peer] : owing'[Peer][i].to = Peer
  /\ Len(socket'[Peer].out) <= SocketRoom
  /\ by_id_'[current.id].outbound_sent <= Len(by_id_'[current.id].outbound)

\* The invariant is then kept: every other connection is left alone.
LEMMA ServiceKeeps ==
  ASSUME GatewayInv, Live, OthersAlone, InboundKept, OutboundKept
  PROVE  GatewayInv'
<1> USE DEF GatewayInv
<1>0. PICK k, p : k = current.id /\ p = Peer
  OBVIOUS
<1>1. /\ k \in DOMAIN by_id_ /\ by_id_[k] = This /\ PeerOf(k) = p /\ p \in Peers
      /\ Connected(p) /\ reason[p] = "open" /\ ~Fresh(p)
  BY Zenon, <1>0, PeersOfConnections DEF Live, This, Peer, PeerOf, Sessions
<1>2. /\ by_fd_' = by_fd_ /\ next_id_' = next_id_ /\ owner' = owner
      /\ reason' = reason /\ events' = events /\ current' = current
      /\ backlog' = backlog /\ sent' = sent /\ got' = got
      /\ DOMAIN by_id_' = DOMAIN by_id_ /\ DOMAIN interest' = DOMAIN interest
      /\ owed' \in Nat /\ pc' \in {"read", "decode", "reply"}
  BY Zenon DEF OthersAlone
<1>3. /\ by_id_' \in [DOMAIN by_id_ -> ConnectionT]
      /\ socket' \in [Peers -> SocketT] /\ handled' \in [Peers -> Seq(Messages)]
      /\ owing' \in [Peers -> Seq(ReplyT)] /\ socket'[p].end = socket[p].end
      /\ by_id_'[k].fd = by_id_[k].fd
      /\ \A id \in DOMAIN by_id_ : id # k => by_id_'[id] = by_id_[id]
      /\ \A q \in Peers : q # p => /\ socket'[q] = socket[q]
                                   /\ handled'[q] = handled[q] /\ owing'[q] = owing[q]
  BY Zenon, <1>0, <1>1 DEF OthersAlone
<1>4. \A id \in DOMAIN by_id_ :
        /\ by_id_'[id].fd = by_id_[id].fd
        /\ PeerOf(id)' = PeerOf(id) /\ PeerOf(id) \in Peers
        /\ id # k => PeerOf(id) # p
  BY Zenon, <1>1, <1>2, <1>3, PeersOfConnections DEF PeerOf
<1>5. \A q \in Peers : /\ Waiting(q)' = Waiting(q)
                       /\ Connected(q)' = Connected(q)
                       /\ socket'[q].end = socket[q].end
  BY Zenon, <1>2, <1>3 DEF Waiting, Connected
<1>6. \A q \in Peers : Fresh(q)' => Fresh(q) /\ q # p
  BY Zenon, <1>1, <1>5 DEF Fresh
<1>7. TypeOK'
  <2>1. pc' \in {"poll", "event", "accept", "write", "read", "decode", "reply", "closed"}
    BY Zenon, <1>2
  <2> QED
    BY Zenon, <2>1, <1>2, <1>3 DEF TypeOK
<1>8. TablesAgree'
  <2>1. {by_id_'[id].fd : id \in DOMAIN by_id_'} = {by_id_[id].fd : id \in DOMAIN by_id_}
    BY ZenonT(30), <1>2, <1>4
  <2> QED
    BY Zenon, <2>1, <1>2, <1>4 DEF TablesAgree
<1>9. Sessions'
  <2>1. \A q \in Peers : Fresh(q)' =>
          /\ handled'[q] = << >> /\ owing'[q] = << >> /\ socket'[q].out = << >>
    BY ZenonT(30), <1>3, <1>6 DEF Sessions
  <2> QED
    BY Zenon, <2>1, <1>2, <1>5, <1>6 DEF Sessions
<1>10. EventsAreCurrent'
  <2>1. Live' /\ This'.fd = This.fd /\ Peer' = Peer
    BY Zenon, <1>0, <1>1, <1>2, <1>3 DEF Live, This, Peer
  <2>2. pc' \notin {"poll", "event", "accept"} /\ pc' # "closed"
    BY Zenon, <1>2
  <2>3. \A fd \in DOMAIN owner : owner[fd] \in Peers
    BY Zenon DEF TypeOK
  <2>4. \A e \in events : \/ e.fd = listen_fd_
                          \/ socket'[e.about].end = socket[e.about].end
    BY Zenon, <2>3, <1>5 DEF EventsAreCurrent
  <2>5. Live => socket'[Peer].end = socket[Peer].end
    BY Zenon, <1>0, <1>3
  <2> QED
    BY Zenon, <2>1, <2>2, <2>4, <2>5, <1>2 DEF EventsAreCurrent
<1>11. InboundSound'
  <2>1. \A q \in Peers : Begins(handled'[q], sent'[q])
    BY Zenon, <1>0, <1>2, <1>3 DEF InboundSound, InboundKept
  <2>2. \A q \in Peers : Fresh(q)' => Arrives(q, socket[q].in)'
    BY Zenon, <1>2, <1>3, <1>6 DEF InboundSound, Arrives
  <2>3. ASSUME NEW id \in DOMAIN by_id_ PROVE Arrives(PeerOf(id), Stream(id))'
    <3>1. CASE id = k
      <4>1. Stream(k)' = Cells(handled'[p]) \o by_id_'[k].inbound \o socket'[p].in
        BY Zenon, <1>1, <1>4 DEF Stream
      <4>2. Whole(Stream(k)', sent[p], socket[p].end)
        BY Zenon, <4>1, <1>0 DEF InboundKept
      <4> QED
        BY Zenon, <3>1, <4>2, <1>1, <1>2, <1>3, <1>4 DEF Arrives
    <3>2. CASE id # k
      <4>1. Stream(id)' = Stream(id)
        BY Zenon, <3>2, <1>3, <1>4 DEF Stream
      <4>2. Arrives(PeerOf(id), Stream(id))
        BY Zenon DEF InboundSound
      <4> QED
        BY Zenon, <4>1, <4>2, <1>2, <1>4, <1>5 DEF Arrives
    <3> QED
      BY Zenon, <3>1, <3>2
  <2>4. \A id \in DOMAIN by_id_ : \/ Len(by_id_'[id].inbound) < 2
                                  \/ id = current'.id /\ pc' \in {"decode", "reply"}
    BY Zenon, <1>0, <1>2, <1>3 DEF InboundSound, InboundKept
  <2>5. \A q \in Peers : reason'[q] \in {"closed", "hung up"} => handled'[q] = sent'[q]
    <3>1. reason[p] \notin {"closed", "hung up"}
      BY Zenon, <1>1
    <3> QED
      BY Zenon, <3>1, <1>2, <1>3 DEF InboundSound
  <2> QED
    BY Zenon, <2>1, <2>2, <2>3, <2>4, <2>5, <1>2 DEF InboundSound
<1>12. OutboundSound'
  <2>1. ASSUME NEW id \in DOMAIN by_id_ PROVE Replies(id)' = owing'[PeerOf(id)']
    <3>1. CASE id = k
      <4>1. Replies(k)' = got[p] \o socket'[p].out \o Pending(by_id_'[k])
        BY Zenon, <1>1, <1>2, <1>4 DEF Replies, Pending
      <4> QED
        BY Zenon, <3>1, <4>1, <1>0, <1>1, <1>4 DEF OutboundKept
    <3>2. CASE id # k
      <4>1. Replies(id)' = Replies(id)
        BY Zenon, <3>2, <1>2, <1>3, <1>4 DEF Replies, Pending
      <4>2. Replies(id) = owing[PeerOf(id)]
        BY Zenon DEF OutboundSound
      <4> QED
        BY Zenon, <3>2, <4>1, <4>2, <1>3, <1>4
    <3> QED
      BY Zenon, <3>1, <3>2
  <2>2. Begins(got[p] \o socket'[p].out, owing'[p])
    <3>1. /\ got[p] \in Seq(ReplyT) /\ socket'[p].out \in Seq(ReplyT)
          /\ by_id_'[k].outbound \in Seq(ReplyT) /\ by_id_'[k].outbound_sent \in Nat
      BY Zenon, <1>1, <1>3 DEF TypeOK, SocketT, ConnectionT
    <3>2. Pending(by_id_'[k]) \in Seq(ReplyT)
      BY <3>1 DEF Pending
    <3>3. got[p] \o socket'[p].out \in Seq(ReplyT)
      BY <3>1
    <3>4. got[p] \o socket'[p].out \o Pending(by_id_'[k]) = owing'[p]
      BY Zenon, <1>0 DEF OutboundKept
    <3>5. Begins(got[p] \o socket'[p].out, (got[p] \o socket'[p].out) \o Pending(by_id_'[k]))
      BY Zenon, <3>2, <3>3, PrefixOfConcat
    <3> QED
      BY Zenon, <3>4, <3>5
  <2>3. ASSUME NEW q \in Peers
        PROVE  /\ \A i \in DOMAIN owing'[q] : owing'[q][i].to = q
               /\ Len(socket'[q].out) <= SocketRoom
    <3>1. CASE q = p
      BY Zenon, <3>1, <1>0 DEF OutboundKept
    <3>2. CASE q # p
      <4>1. owing'[q] = owing[q] /\ socket'[q].out = socket[q].out
        BY Zenon, <3>2, <1>3
      <4>2. /\ \A i \in DOMAIN owing[q] : owing[q][i].to = q
            /\ Len(socket[q].out) <= SocketRoom
        BY Zenon DEF OutboundSound
      <4> QED
        BY Zenon, <4>1, <4>2
    <3> QED
      BY Zenon, <3>1, <3>2
  <2>4. \A q \in Peers : Begins(got'[q] \o socket'[q].out, owing'[q])
    BY Zenon, <2>2, <1>2, <1>3 DEF OutboundSound
  <2>5. \A id \in DOMAIN by_id_ : by_id_'[id].outbound_sent <= Len(by_id_'[id].outbound)
    BY Zenon, <1>0, <1>3 DEF OutboundSound, OutboundKept
  <2> QED
    BY Zenon, <2>1, <2>3, <2>4, <2>5, <1>2 DEF OutboundSound
<1> QED
  BY Zenon, <1>7, <1>8, <1>9, <1>10, <1>11, <1>12

\* The smaller of two numbers.
LEMMA MinOfTwo ==
  ASSUME NEW a \in Int, NEW b \in Int
  PROVE  Min({a, b}) = IF a <= b THEN a ELSE b
<1>1. \E x \in {a, b} : \A y \in {a, b} : x <= y
  BY a \in Int, b \in Int
<1> DEFINE m == Min({a, b})
<1>2. m \in {a, b} /\ \A y \in {a, b} : m <= y
  BY Zenon, <1>1 DEF Min
<1> HIDE DEF m
<1>3. m = IF a <= b THEN a ELSE b
  BY <1>2
<1> QED
  BY Zenon, <1>3 DEF m

\* What drain() writes and what it leaves are what was to be written, whether
\* the buffer is then reset or only its written prefix grows.
LEMMA DrainSplits ==
  ASSUME Peer \in Peers, socket[Peer].out \in Seq(ReplyT),
         Len(socket[Peer].out) <= SocketRoom,
         NEW c \in ConnectionT, c.outbound_sent <= Len(c.outbound),
         NEW wants \in BOOLEAN
  PROVE  LET d     == [Drained(c) EXCEPT !.watching_write = wants]
             taken == SubSeq(c.outbound, c.outbound_sent + 1, c.outbound_sent + Takes(c))
         IN  /\ d \in ConnectionT /\ d.fd = c.fd /\ d.inbound = c.inbound
             /\ d.outbound_sent <= Len(d.outbound)
             /\ taken \in Seq(ReplyT) /\ Pending(d) \in Seq(ReplyT)
             /\ Len(taken) + Len(socket[Peer].out) <= SocketRoom
             /\ taken \o Pending(d) = Pending(c)
<1> DEFINE n == Len(c.outbound)
           k == c.outbound_sent
           t == Takes(c)
           d == [Drained(c) EXCEPT !.watching_write = wants]
           taken == SubSeq(c.outbound, k + 1, k + t)
           left == SubSeq(c.outbound, k + t + 1, n)
<1>1. c.outbound \in Seq(ReplyT) /\ n \in Nat /\ k \in Nat /\ k <= n
  BY DEF ConnectionT
<1>2. /\ t \in Nat /\ t <= n - k /\ t + Len(socket[Peer].out) <= SocketRoom
      /\ Unsent(c) = n - k
  <2>1. Unsent(c) \in Nat /\ Unsent(c) = n - k
    BY <1>1 DEF Unsent
  <2>2. Room(Peer) \in Nat /\ Room(Peer) + Len(socket[Peer].out) = SocketRoom
    BY GatewayAssumption DEF Room
  <2>3. t = IF Unsent(c) <= Room(Peer) THEN Unsent(c) ELSE Room(Peer)
    BY <2>1, <2>2, MinOfTwo DEF Takes
  <2> HIDE DEF n, k, t
  <2> QED
    BY <2>1, <2>2, <2>3
<1>3. /\ taken \in Seq(ReplyT) /\ left \in Seq(ReplyT) /\ Len(taken) = t
      /\ taken \o left = Pending(c)
  <2>1. PICK s, i, j : s = c.outbound /\ i = k /\ j = t
    OBVIOUS
  <2>2. s \in Seq(ReplyT) /\ i \in Nat /\ j \in Nat /\ j <= Len(s) - i
    BY Zenon, <1>1, <1>2, <2>1
  <2>3. /\ SubSeq(s, i + 1, i + j) \in Seq(ReplyT) /\ Len(SubSeq(s, i + 1, i + j)) = j
        /\ SubSeq(s, i + j + 1, Len(s)) \in Seq(ReplyT)
    BY <2>2
  <2>4. /\ i + 1 \in 1 .. Len(s) + 1 /\ i + j \in (i + 1) - 1 .. Len(s)
        /\ Len(s) \in i + j .. Len(s)
    BY <2>2
  <2>5. SubSeq(s, i + 1, i + j) \o SubSeq(s, i + j + 1, Len(s)) = SubSeq(s, i + 1, Len(s))
    BY Zenon, <2>2, <2>4, ConcatAdjacentSubSeq
  <2> HIDE DEF t
  <2> QED
    BY Zenon, <2>1, <2>3, <2>5 DEF Pending
<1>5. CASE t = Unsent(c)
  <2>1. d = [c EXCEPT !.outbound = << >>, !.outbound_sent = 0, !.watching_write = wants]
    BY Zenon, <1>5 DEF Drained, ConnectionT
  <2>2. /\ d \in ConnectionT /\ d.fd = c.fd /\ d.inbound = c.inbound
        /\ d.outbound = << >> /\ d.outbound_sent = 0
    <3>1. << >> \in Seq(ReplyT) /\ 0 \in Nat
      OBVIOUS
    <3> HIDE DEF d
    <3> QED
      BY Zenon, <2>1, <3>1 DEF ConnectionT
  <2>3. Pending(d) = << >>
    <3> HIDE DEF d
    <3> QED
      BY <2>2 DEF Pending
  <2>4. left = << >>
    <3>1. k + t = n
      <4> HIDE DEF n, k, t
      <4> QED
        BY SMTT(20), <1>1, <1>2, <1>5
    <3>2. left \in Seq(ReplyT) /\ Len(left) = 0
      <4>1. left = SubSeq(c.outbound, n + 1, n)
        BY Zenon, <3>1
      <4>2. n \in Int /\ n + 1 \in Int /\ n < n + 1
        BY <1>1
      <4>3. left = << >>
        BY Zenon, <4>1, <4>2, SubSeqEmpty
      <4> QED
        BY Zenon, <4>3, <1>3
    <3> HIDE DEF left
    <3> QED
      BY <3>2
  <2>5. d.outbound_sent <= Len(d.outbound)
    <3> HIDE DEF d
    <3> QED
      BY <2>2
  <2> HIDE DEF d, taken, left, t
  <2>6. /\ d \in ConnectionT /\ d.fd = c.fd /\ d.inbound = c.inbound
        /\ d.outbound_sent <= Len(d.outbound)
        /\ taken \in Seq(ReplyT) /\ Pending(d) \in Seq(ReplyT)
        /\ Len(taken) + Len(socket[Peer].out) <= SocketRoom
        /\ taken \o Pending(d) = Pending(c)
    <3>1. Len(taken) + Len(socket[Peer].out) <= SocketRoom
      BY ZenonT(30), <1>2, <1>3
    <3> QED
      BY Zenon, <3>1, <2>2, <2>3, <2>4, <2>5, <1>3
  <2> QED
    BY Zenon, <2>6 DEF d, taken, t
<1>6. CASE t # Unsent(c)
  <2>1. d = [c EXCEPT !.outbound_sent = k + t, !.watching_write = wants]
    BY Zenon, <1>6 DEF Drained, ConnectionT
  <2>2. /\ d \in ConnectionT /\ d.fd = c.fd /\ d.inbound = c.inbound
        /\ d.outbound = c.outbound /\ d.outbound_sent = k + t
    <3>1. k + t \in Nat
      <4> HIDE DEF k, t
      <4> QED
        BY <1>1, <1>2
    <3> HIDE DEF t
    <3> QED
      BY Zenon, <2>1, <3>1 DEF ConnectionT
  <2>3. Pending(d) = left /\ d.outbound_sent <= Len(d.outbound)
    <3>1. k + t <= n
      <4> HIDE DEF k, t, n
      <4> QED
        BY <1>1, <1>2
    <3> HIDE DEF d, t
    <3> QED
      BY Zenon, <3>1, <2>2 DEF Pending
  <2> HIDE DEF d, taken, left, t
  <2>6. /\ d \in ConnectionT /\ d.fd = c.fd /\ d.inbound = c.inbound
        /\ d.outbound_sent <= Len(d.outbound)
        /\ taken \in Seq(ReplyT) /\ Pending(d) \in Seq(ReplyT)
        /\ Len(taken) + Len(socket[Peer].out) <= SocketRoom
        /\ taken \o Pending(d) = Pending(c)
    <3>1. Len(taken) + Len(socket[Peer].out) <= SocketRoom
      BY Zenon, <1>2, <1>3
    <3> QED
      BY Zenon, <3>1, <2>2, <2>3, <1>3
  <2> QED
    BY Zenon, <2>6 DEF d, taken, t
<1> QED
  BY Zenon, <1>5, <1>6

\* drain() of what is to be written, called for a connection that has just been
\* given one more reply or none.
LEMMA DrainKeeps ==
  ASSUME GatewayInv, Live, NEW c \in ConnectionT, c.fd = This.fd,
         c.inbound = This.inbound, c.outbound_sent <= Len(c.outbound), drain(c),
         UNCHANGED <<events, current, backlog, sent, handled, got>>, OwesMore,
         Same(got[Peer] \o socket[Peer].out \o Pending(c), owing'[Peer]),
         owed' \in Nat, pc' \in {"read", "reply"}, Len(This.inbound) < 2 \/ pc' = "reply"
  PROVE  GatewayInv'
<1> USE DEF GatewayInv
<1>0. PICK k, p : k = current.id /\ p = Peer
  OBVIOUS
<1>1. /\ k \in DOMAIN by_id_ /\ by_id_[k] = This /\ PeerOf(k) = p /\ p \in Peers
  BY Zenon, <1>0, PeersOfConnections DEF Live, This, Peer, PeerOf
<1>2. CASE socket[Peer].end = "rst" /\ Unsent(c) > 0
  <2>1. close_connection("send") /\ UNCHANGED socket
    BY Zenon, <1>2 DEF drain
  <2>2. "send" \in Reasons /\ "send" \notin {"closed", "hung up"}
    BY Zenon DEF Reasons
  <2>3. pc' \in {"read", "reply", "closed"}
    OBVIOUS
  <2> QED
    BY Zenon, <2>1, <2>2, <2>3, CloseKeeps
<1>3. CASE ~(socket[Peer].end = "rst" /\ Unsent(c) > 0)
  <2> DEFINE wants == Unsent(Drained(c)) > 0
             d     == [Drained(c) EXCEPT !.watching_write = wants]
             taken == SubSeq(c.outbound, c.outbound_sent + 1, c.outbound_sent + Takes(c))
  <2>1. /\ socket' = [socket EXCEPT ![p].out = @ \o taken]
        /\ by_id_' = [by_id_ EXCEPT ![k] = d]
        /\ DOMAIN interest' = DOMAIN interest
        /\ by_fd_' = by_fd_ /\ next_id_' = next_id_ /\ owner' = owner /\ reason' = reason
    BY Zenon, <1>0, <1>3 DEF drain, update_write_interest
  <2>2. /\ by_id_ \in [DOMAIN by_id_ -> ConnectionT] /\ socket \in [Peers -> SocketT]
        /\ socket[p] \in SocketT /\ Len(socket[p].out) <= SocketRoom
        /\ got[p] \in Seq(ReplyT) /\ handled \in [Peers -> Seq(Messages)]
    BY Zenon, <1>1 DEF TypeOK, OutboundSound
  <2>3. socket[p].out \in Seq(ReplyT)
    BY Zenon, <2>2 DEF SocketT
  <2>4. wants \in BOOLEAN
    BY SMTT(20)
  <2>5. /\ d \in ConnectionT /\ d.fd = c.fd /\ d.inbound = c.inbound
        /\ d.outbound_sent <= Len(d.outbound)
        /\ taken \in Seq(ReplyT) /\ Pending(d) \in Seq(ReplyT)
        /\ Len(taken) + Len(socket[p].out) <= SocketRoom
        /\ taken \o Pending(d) = Pending(c)
    <3> HIDE DEF wants
    <3> QED
      BY ZenonT(30), <1>0, <1>1, <2>2, <2>3, <2>4, DrainSplits
  <2> HIDE DEF wants, d, taken
  <2>6. /\ by_id_' \in [DOMAIN by_id_ -> ConnectionT] /\ by_id_'[k] = d
        /\ \A id \in DOMAIN by_id_ : id # k => by_id_'[id] = by_id_[id]
    BY ZenonT(30), <2>1, <2>2, <2>5, <1>1
  <2>7. /\ socket' \in [Peers -> SocketT] /\ socket'[p].end = socket[p].end
        /\ socket'[p].in = socket[p].in /\ socket'[p].out = socket[p].out \o taken
        /\ \A q \in Peers : q # p => socket'[q] = socket[q]
    <3>1. socket[p].out \o taken \in Seq(ReplyT)
      BY <2>3, <2>5
    <3> QED
      BY Zenon, <3>1, <2>1, <2>2, <1>1 DEF SocketT
  <2>8. /\ owing' \in [Peers -> Seq(ReplyT)]
        /\ \A q \in Peers : q # p => owing'[q] = owing[q]
        /\ \A i \in DOMAIN owing'[p] : owing'[p][i].to = p
    BY Zenon, <1>0, <1>1, OwesMoreMeans
  <2>9. OthersAlone
    <3>1. pc' \in {"read", "decode", "reply"} /\ handled' = handled
      OBVIOUS
    <3> QED
      BY ZenonT(30), <3>1, <2>1, <2>2, <2>5, <2>6, <2>7, <2>8, <1>0, <1>1 DEF OthersAlone
  <2>10. InboundKept
    <3>1. Begins(handled[p], sent[p])
      BY Zenon, <1>1 DEF InboundSound
    <3>2. Whole(Cells(handled[p]) \o This.inbound \o socket[p].in, sent[p], socket[p].end)
      BY Zenon, <1>1 DEF InboundSound, Arrives, Stream
    <3>3. by_id_'[k].inbound = This.inbound /\ handled' = handled
      BY Zenon, <2>5, <2>6
    <3>4. Len(This.inbound) < 2 \/ pc' \in {"decode", "reply"}
      OBVIOUS
    <3> QED
      BY ZenonT(30), <3>1, <3>2, <3>3, <3>4, <2>7, <1>0 DEF InboundKept
  <2>11. OutboundKept
    <3>1. Same((got[p] \o socket[p].out) \o taken, got[p] \o (socket[p].out \o taken))
      BY ZenonT(30), <2>2, <2>3, <2>5, Associative
    <3>2. got[p] \o socket[p].out \in Seq(ReplyT)
      BY <2>2, <2>3
    <3>3. Same(((got[p] \o socket[p].out) \o taken) \o Pending(d),
               (got[p] \o socket[p].out) \o (taken \o Pending(d)))
      BY Zenon, <3>2, <2>5, Associative
    <3>4. (got[p] \o (socket[p].out \o taken)) \o Pending(d) = owing'[p]
      BY Zenon, <3>1, <3>3, <2>5, <1>0 DEF Same
    <3>5. Len(socket[p].out \o taken) <= SocketRoom
      BY SMTT(20), <2>3, <2>5, GatewayAssumption
    <3> QED
      BY Zenon, <3>4, <3>5, <2>5, <2>6, <2>7, <2>8, <1>0 DEF OutboundKept
  <2> QED
    BY Zenon, <2>9, <2>10, <2>11, ServiceKeeps
<1> QED
  BY Zenon, <1>2, <1>3

\* What is to be written when nothing was added.
LEMMA write_readyKeeps ==
  ASSUME GatewayInv, write_ready
  PROVE  GatewayInv'
<1> USE DEF GatewayInv
<1>1. /\ drain(This) /\ pc = "write" /\ pc' = "read" /\ owed' = owed
      /\ UNCHANGED <<events, current, backlog, sent, handled, got>> /\ owing' = owing
  BY Zenon DEF write_ready
<1>2. Live
  BY Zenon, <1>1 DEF EventsAreCurrent
<1>3. /\ This \in ConnectionT /\ PeerOf(current.id) = Peer /\ current.id \in DOMAIN by_id_
      /\ This = by_id_[current.id]
  BY Zenon, <1>2 DEF Live, This, Peer, PeerOf, TypeOK
<1>4. Same(got[Peer] \o socket[Peer].out \o Pending(This), owing'[Peer])
  BY Zenon, <1>1, <1>3 DEF OutboundSound, Replies, Same
<1>5. This.outbound_sent <= Len(This.outbound) /\ Len(This.inbound) < 2
  BY Zenon, <1>1, <1>3, Idle DEF OutboundSound
<1>6. OwesMore /\ owed' \in Nat /\ pc' \in {"read", "reply"}
  BY Zenon, <1>1 DEF OwesMore, TypeOK
<1> QED
  BY Zenon, <1>1, <1>2, <1>3, <1>4, <1>5, <1>6, DrainKeeps

\* A reply put at the end of the buffer is the last of the stream.
LEMMA QueuedLast ==
  ASSUME NEW S, NEW x \in Seq(S), NEW s \in Seq(S), NEW e \in S,
         NEW k \in Nat, k <= Len(s)
  PROVE  Same(x \o SubSeq(Append(s, e), k + 1, Len(Append(s, e))),
              Append(x \o SubSeq(s, k + 1, Len(s)), e))
<1> DEFINE y == SubSeq(s, k + 1, Len(s))
           z == SubSeq(Append(s, e), k + 1, Len(Append(s, e)))
<1>1. y \in Seq(S) /\ Len(y) = Len(s) - k /\ \A i \in 1 .. Len(s) - k : y[i] = s[i + k]
  OBVIOUS
<1>2. /\ z \in Seq(S) /\ Len(z) = Len(s) - k + 1 /\ z[Len(s) - k + 1] = e
      /\ \A i \in 1 .. Len(s) - k : z[i] = s[i + k]
  BY SMTT(20)
<1> HIDE DEF y, z
<1>3. z = Append(y, e)
  <2>1. /\ Append(y, e) \in Seq(S) /\ Len(Append(y, e)) = Len(y) + 1
        /\ Append(y, e)[Len(y) + 1] = e /\ \A i \in 1 .. Len(y) : Append(y, e)[i] = y[i]
    BY <1>1
  <2>2. ASSUME NEW i \in 1 .. Len(z) PROVE z[i] = Append(y, e)[i]
    <3>1. Len(y) \in Nat /\ Len(y) = Len(s) - k /\ Len(z) = Len(y) + 1
      BY <1>1, <1>2
    <3>2. CASE i = Len(y) + 1
      BY Zenon, <3>1, <3>2, <2>1, <1>2
    <3>3. CASE i # Len(y) + 1
      <4>1. i \in 1 .. Len(y) /\ i \in 1 .. Len(s) - k
        BY <3>1, <3>3
      <4> QED
        BY Zenon, <4>1, <2>1, <1>1, <1>2
    <3> QED
      BY Zenon, <3>2, <3>3
  <2>3. Len(z) = Len(Append(y, e))
    BY ZenonT(30), <2>1, <1>1, <1>2
  <2> QED
    BY Zenon, <2>1, <2>2, <2>3, <1>2, SeqEqual
<1>4. <<e>> \in Seq(S) /\ x \o y \in Seq(S)
  BY <1>1
<1>5. Append(y, e) = y \o <<e>> /\ Append(x \o y, e) = (x \o y) \o <<e>>
  BY Zenon, <1>1, <1>4, AppendIsConcat
<1>6. Same((x \o y) \o <<e>>, x \o (y \o <<e>>))
  BY Zenon, <1>1, <1>4, Associative
<1>7. x \o z = Append(x \o y, e)
  BY Zenon, <1>3, <1>5, <1>6 DEF Same
<1> QED
  BY Zenon, <1>7 DEF Same, y, z

\* send() of one reply, to the sender of the message.
LEMMA sendKeeps ==
  ASSUME GatewayInv, Live, send, pc' = "reply", owed \in Nat, owed' \in Nat,
         UNCHANGED <<events, current, backlog, sent, handled, got>>
  PROVE  GatewayInv'
<1> USE DEF GatewayInv
<1>1. /\ This \in ConnectionT /\ PeerOf(current.id) = Peer /\ current.id \in DOMAIN by_id_
      /\ This = by_id_[current.id] /\ Peer \in Peers /\ Peer = current.about
  BY Zenon, PeersOfConnections DEF Live, This, Peer, PeerOf, TypeOK, EventsAreCurrent
<1>2. CASE TooSlow
  <2>1. close_connection("slow") /\ socket' = socket /\ owing' = owing
    BY ZenonT(30), <1>2 DEF send
  <2>2. "slow" \in Reasons /\ "slow" \notin {"closed", "hung up"}
    BY Zenon DEF Reasons
  <2>3. OwesMore /\ pc' \in {"read", "reply", "closed"}
    BY Zenon, <2>1 DEF OwesMore
  <2> QED
    BY Zenon, <2>1, <2>2, <2>3, CloseKeeps
<1>3. CASE ~TooSlow
  <2> DEFINE c == [This EXCEPT !.outbound = Append(@, Reply)]
  <2>1. drain(c) /\ owing' = [owing EXCEPT ![Peer] = Append(@, Reply)]
    BY Zenon, <1>3 DEF send
  <2>2. Reply \in ReplyT /\ Reply.to = Peer
    <3>1. handled[Peer] \in Seq(Messages)
      BY Zenon, <1>1 DEF TypeOK
    <3>2. Len(handled[Peer]) \in Nat
      BY SMTT(20), <3>1
    <3> QED
      BY ZenonT(30), <1>1, <3>2 DEF Reply, ReplyT
  <2>3. This.outbound \in Seq(ReplyT) /\ This.outbound_sent \in Nat
    BY ZenonT(30), <1>1 DEF ConnectionT
  <2>4. This.outbound_sent <= Len(This.outbound)
    BY Zenon, <1>1 DEF OutboundSound
  <2>5. /\ c \in ConnectionT /\ c.fd = This.fd /\ c.inbound = This.inbound
        /\ c.outbound = Append(This.outbound, Reply) /\ c.outbound_sent = This.outbound_sent
    <3>1. Append(This.outbound, Reply) \in Seq(ReplyT)
      BY <2>2, <2>3
    <3> QED
      BY Zenon, <3>1, <1>1 DEF ConnectionT
  <2>6. c.outbound_sent <= Len(c.outbound)
    <3> HIDE DEF c
    <3>1. Len(Append(This.outbound, Reply)) = Len(This.outbound) + 1 /\ Len(This.outbound) \in Nat
      BY <2>2, <2>3
    <3> QED
      BY <3>1, <2>3, <2>4, <2>5
  <2>7. OwesMore
    BY Zenon, <2>1, <2>2 DEF OwesMore
  <2> HIDE DEF c
  <2>8. Same(got[Peer] \o socket[Peer].out \o Pending(c), owing'[Peer])
    <3>1. /\ got[Peer] \in Seq(ReplyT) /\ socket[Peer].out \in Seq(ReplyT)
          /\ owing \in [Peers -> Seq(ReplyT)]
      BY ZenonT(30), <1>1 DEF TypeOK, SocketT
    <3>2. got[Peer] \o socket[Peer].out \in Seq(ReplyT)
      BY <3>1
    <3>3. got[Peer] \o socket[Peer].out \o Pending(This) = owing[Peer]
      BY Zenon, <1>1 DEF OutboundSound, Replies
    <3>4. owing'[Peer] = Append(owing[Peer], Reply)
      BY Zenon, <2>1, <3>1, <1>1
    <3>5. Pending(c) = SubSeq(Append(This.outbound, Reply), This.outbound_sent + 1,
                              Len(Append(This.outbound, Reply)))
      BY Zenon, <2>5 DEF Pending
    <3>6. Same(got[Peer] \o socket[Peer].out \o Pending(c),
               Append(got[Peer] \o socket[Peer].out \o Pending(This), Reply))
      BY Zenon, <3>2, <3>5, <2>2, <2>3, <2>4, QueuedLast DEF Pending
    <3> QED
      BY Zenon, <3>3, <3>4, <3>6
  <2> QED
    BY SMTT(20), <2>1, <2>4, <2>5, <2>6, <2>7, <2>8, DrainKeeps
<1> QED
  BY Zenon, <1>2, <1>3

\* The handler's replies, and the second lookup after them.
LEMMA replyKeeps ==
  ASSUME GatewayInv, reply
  PROVE  GatewayInv'
<1> USE DEF GatewayInv
<1>1. /\ pc = "reply" /\ events' = events /\ current' = current /\ backlog' = backlog
      /\ sent' = sent /\ handled' = handled /\ got' = got /\ owed \in Nat
      /\ current \in [id : Nat, readable : BOOLEAN, closed : BOOLEAN,
                      about : Peers \cup {NoOne}]
      /\ events \subseteq EventT
  BY Zenon DEF reply, TypeOK
<1>2. CASE owed > 0 /\ Live
  <2>1. send /\ pc' = "reply" /\ owed' \in Nat
    BY SMTT(20), <1>1, <1>2 DEF reply
  <2> QED
    BY Zenon, <2>1, <1>1, <1>2, sendKeeps
<1>3. CASE ~(owed > 0 /\ Live)
  <2>1. /\ UNCHANGED <<gatewayVars, kernelVars, historyVars>>
        /\ by_id_' = by_id_ /\ owner' = owner /\ socket' = socket
    BY Zenon, <1>1, <1>3 DEF reply, gatewayVars, kernelVars, historyVars
  <2>2. owed' \in Nat
    BY <1>1, <1>3 DEF reply
  <2>3. pc' \in {"reply", "decode", "closed"}
    BY Zenon, <1>1 DEF reply
  <2>4. (pc' = "decode" => Live) /\ (pc' = "closed" => ~Live)
    BY Zenon, <1>1 DEF reply
  <2>5. (Live' <=> Live) /\ This' = This /\ Peer' = Peer
    BY Zenon, <1>1, <2>1 DEF Live, This, Peer
  <2>6. EventsAreCurrent'
    <3>1. pc' \notin {"poll", "event", "accept"} /\ pc' # "write"
      BY Zenon, <2>3
    <3> QED
      BY Zenon, <3>1, <1>1, <2>1, <2>4, <2>5 DEF EventsAreCurrent
  <2>7. \A id \in DOMAIN by_id_ : \/ Len(by_id_[id].inbound) < 2
                                  \/ id = current'.id /\ pc' \in {"decode", "reply"}
    BY Zenon, <1>1, <2>3, <2>4 DEF InboundSound, Live
  <2> QED
    BY Zenon, <1>1, <2>1, <2>2, <2>3, <2>6, <2>7, LoopKeeps
<1> QED
  BY Zenon, <1>2, <1>3

\* A hang-up has been acted on by the reads before it is looked at.
LEMMA EndEventKeeps ==
  ASSUME GatewayInv, EndEvent
  PROVE  GatewayInv'
<1> USE DEF GatewayInv
<1>1. ~(current.closed /\ Live)
  BY Zenon DEF EndEvent, EventsAreCurrent
<1>2. /\ UNCHANGED <<gatewayVars, kernelVars, historyVars>>
      /\ by_id_' = by_id_ /\ owner' = owner /\ socket' = socket /\ events' = events
      /\ owed' = owed /\ pc = "closed" /\ pc' = "event" /\ current' = Nobody
  BY Zenon, <1>1 DEF EndEvent, gatewayVars, kernelVars, historyVars
<1>3. /\ Nobody.id = 0
      /\ Nobody \in [id : Nat, readable : BOOLEAN, closed : BOOLEAN,
                     about : Peers \cup {NoOne}]
  BY Zenon DEF Nobody
<1>4. ~Live'
  BY Zenon, <1>2, <1>3, PeersOfConnections DEF Live
<1>5. EventsAreCurrent'
  <2>1. pc' \notin {"write", "decode"}
    BY Zenon, <1>2
  <2> QED
    BY Zenon, <2>1, <1>2, <1>3, <1>4 DEF EventsAreCurrent
<1>6. owed' \in Nat /\ events' \subseteq EventT
  BY Zenon, <1>2 DEF TypeOK
<1> QED
  BY ZenonT(30), <1>2, <1>3, <1>5, <1>6, Idle, LoopKeeps

-----------------------------------------------------------------------------
(* Reading.                                                                *)

\* The connection being serviced, as the lemmas below use it.
LEMMA Serviced ==
  ASSUME GatewayInv, Live
  PROVE  /\ current.id \in DOMAIN by_id_ /\ This = by_id_[current.id]
         /\ PeerOf(current.id) = Peer /\ Peer \in Peers /\ This \in ConnectionT
         /\ This.inbound \in Seq(CellT) /\ socket[Peer] \in SocketT
         /\ socket[Peer].in \in Seq(CellT) /\ handled[Peer] \in Seq(Messages)
         /\ sent[Peer] \in Seq(Messages) /\ Cells(handled[Peer]) \in Seq(CellT)
         /\ Begins(handled[Peer], sent[Peer])
         /\ Whole(Cells(handled[Peer]) \o This.inbound \o socket[Peer].in,
                  sent[Peer], socket[Peer].end)
         /\ got[Peer] \o socket[Peer].out \o Pending(This) = owing[Peer]
         /\ \A i \in DOMAIN owing[Peer] : owing[Peer][i].to = Peer
         /\ Len(socket[Peer].out) <= SocketRoom
         /\ This.outbound_sent <= Len(This.outbound)
<1> USE DEF GatewayInv
<1>1. /\ current.id \in DOMAIN by_id_ /\ This = by_id_[current.id]
      /\ PeerOf(current.id) = Peer /\ Peer \in Peers /\ This \in ConnectionT
  BY Zenon, PeersOfConnections DEF Live, This, Peer, PeerOf, TypeOK
<1>2. /\ socket[Peer] \in SocketT /\ handled[Peer] \in Seq(Messages)
      /\ sent[Peer] \in Seq(Messages)
  BY Zenon, <1>1 DEF TypeOK
<1>3. This.inbound \in Seq(CellT) /\ socket[Peer].in \in Seq(CellT)
  BY ZenonT(30), <1>1, <1>2 DEF SocketT, ConnectionT
<1>4. Cells(handled[Peer]) \in Seq(CellT)
  BY Zenon, <1>2, CellsType
<1>5. /\ Begins(handled[Peer], sent[Peer])
      /\ Whole(Cells(handled[Peer]) \o This.inbound \o socket[Peer].in,
               sent[Peer], socket[Peer].end)
  BY Zenon, <1>1 DEF InboundSound, Arrives, Stream
<1>6. /\ got[Peer] \o socket[Peer].out \o Pending(This) = owing[Peer]
      /\ \A i \in DOMAIN owing[Peer] : owing[Peer][i].to = Peer
      /\ Len(socket[Peer].out) <= SocketRoom
      /\ This.outbound_sent <= Len(This.outbound)
  BY Zenon, <1>1 DEF OutboundSound, Replies
<1> QED
  BY Zenon, <1>1, <1>2, <1>3, <1>4, <1>5, <1>6

\* A FIN is seen when nothing is left in the socket; then nothing is left in
\* the buffer either, for it never holds half of a whole message's stream.
LEMMA FinMeansAll ==
  ASSUME GatewayInv, Live, pc = "read", socket[Peer].in = << >>, socket[Peer].end = "fin"
  PROVE  handled[Peer] = sent[Peer]
<1>0. PICK h, s, b, r : /\ h = handled[Peer] /\ s = sent[Peer] /\ b = This.inbound
                        /\ r = socket[Peer].in
  OBVIOUS
<1>1. /\ h \in Seq(Messages) /\ s \in Seq(Messages) /\ b \in Seq(CellT)
      /\ r = << >> /\ Cells(h) \in Seq(CellT) /\ Cells(s) \in Seq(CellT)
  BY Zenon, <1>0, Serviced, CellsType
<1>2. Len(b) < 2
  BY Zenon, <1>0, Serviced, Idle
<1>3. Cells(h) \o b \o << >> = Cells(s)
  <2>1. Whole(Cells(h) \o b \o << >>, s, "fin")
    BY Zenon, <1>0, <1>1, Serviced
  <2> QED
    BY Zenon, <2>1 DEF Whole
<1>4. Len(Cells(h)) = 2 * Len(h) /\ Len(Cells(s)) = 2 * Len(s)
  BY Zenon, <1>1, CellsType
<1> DEFINE x == Cells(h)
           y == Cells(s)
<1>5. x \in Seq(CellT) /\ y \in Seq(CellT) /\ x \o b \o << >> = y
      /\ Len(x) = 2 * Len(h) /\ Len(y) = 2 * Len(s)
  BY Zenon, <1>1, <1>3, <1>4
<1> HIDE DEF x, y
<1>6. Len(h) \in Nat /\ Len(s) \in Nat /\ Len(b) \in Nat
  BY <1>1
<1>7. Len(y) = Len(x) + Len(b)
  <2>1. x \o b \in Seq(CellT) /\ Len(x \o b) = Len(x) + Len(b)
    BY Zenon, <1>1, <1>5, ConcatProperties
  <2>2. x \o b \o << >> = x \o b
    BY Zenon, <2>1, ConcatEmptySeq
  <2> QED
    BY Zenon, <2>1, <2>2, <1>5
<1>8. Len(b) = 0
  BY SMTT(20), <1>2, <1>5, <1>6, <1>7
<1>9. b = << >>
  BY <1>1, <1>8
<1>10. x = y
  <2>1. x \o << >> = x
    BY Zenon, <1>5, ConcatEmptySeq
  <2> QED
    BY Zenon, <2>1, <1>5, <1>9
<1>11. h = s
  BY Zenon, <1>1, <1>10, CellsInjective DEF x, y
<1> QED
  BY Zenon, <1>0, <1>11

\* A function updated at one place.
LEMMA Updated ==
  ASSUME NEW S, NEW T, NEW f \in [S -> T], NEW x \in S, NEW v \in T
  PROVE  /\ [f EXCEPT ![x] = v] \in [S -> T] /\ [f EXCEPT ![x] = v][x] = v
         /\ \A y \in S : y # x => [f EXCEPT ![x] = v][y] = f[y]
OBVIOUS

\* recv() moves a piece of the stream from the socket to the buffer.
Received(n) ==
  /\ by_id_' = [by_id_ EXCEPT ![current.id].inbound = @ \o SubSeq(socket[Peer].in, 1, n)]
  /\ socket' = [socket EXCEPT ![Peer].in = SubSeq(@, n + 1, Len(@))]
  /\ UNCHANGED <<by_fd_, next_id_, interest, owner, reason, events, current,
                 owed, backlog, sent, handled, owing, got>>
  /\ pc' = "decode"

\* Moving it keeps the stream, and so the invariant.
LEMMA ReceivedKeeps ==
  ASSUME GatewayInv, Live, NEW n \in 1 .. Len(socket[Peer].in), Received(n)
  PROVE  GatewayInv'
<1>0. PICK k, p, b, r : /\ k = current.id /\ p = Peer /\ b = This.inbound
                        /\ r = socket[Peer].in
  OBVIOUS
<1>1. /\ k \in DOMAIN by_id_ /\ This = by_id_[k] /\ p \in Peers
      /\ by_id_[k] \in ConnectionT /\ socket[p] \in SocketT
      /\ b \in Seq(CellT) /\ r \in Seq(CellT) /\ Cells(handled[p]) \in Seq(CellT)
      /\ b = by_id_[k].inbound /\ r = socket[p].in /\ n \in 1 .. Len(r)
  BY Zenon, <1>0, Serviced
<1>2. /\ by_id_ \in [DOMAIN by_id_ -> ConnectionT] /\ socket \in [Peers -> SocketT]
      /\ handled \in [Peers -> Seq(Messages)] /\ owing \in [Peers -> Seq(ReplyT)]
      /\ owed \in Nat
  BY Zenon DEF GatewayInv, TypeOK
<1> DEFINE u == SubSeq(r, 1, n)
           v == SubSeq(r, n + 1, Len(r))
<1>3. u \in Seq(CellT) /\ v \in Seq(CellT) /\ u \o v = r
  <2>1. n \in 0 .. Len(r)
    BY <1>1
  <2> QED
    BY Zenon, <1>1, <2>1, CutInTwo
<1>4. /\ by_id_' = [by_id_ EXCEPT ![k].inbound = @ \o u]
      /\ socket' = [socket EXCEPT ![p].in = v]
  BY Zenon, <1>0, <1>1 DEF Received
<1> HIDE DEF u, v
<1>5. /\ by_id_' \in [DOMAIN by_id_ -> ConnectionT]
      /\ \A id \in DOMAIN by_id_ : id # k => by_id_'[id] = by_id_[id]
      /\ by_id_'[k].fd = by_id_[k].fd /\ by_id_'[k].inbound = b \o u
      /\ by_id_'[k].outbound = by_id_[k].outbound
      /\ by_id_'[k].outbound_sent = by_id_[k].outbound_sent
  <2>1. b \o u \in Seq(CellT)
    BY <1>1, <1>3
  <2> DEFINE c == [by_id_[k] EXCEPT !.inbound = b \o u]
  <2>2. /\ c \in ConnectionT /\ c.fd = by_id_[k].fd /\ c.inbound = b \o u
        /\ c.outbound = by_id_[k].outbound /\ c.outbound_sent = by_id_[k].outbound_sent
    BY Zenon, <2>1, <1>1 DEF ConnectionT
  <2>3. by_id_' = [by_id_ EXCEPT ![k] = c]
    BY ZenonT(30), <1>1, <1>4
  <2> HIDE DEF c
  <2>4. /\ by_id_' \in [DOMAIN by_id_ -> ConnectionT] /\ by_id_'[k] = c
        /\ \A id \in DOMAIN by_id_ : id # k => by_id_'[id] = by_id_[id]
    BY Zenon, <2>2, <2>3, <1>1, <1>2, Updated
  <2> QED
    BY Zenon, <2>2, <2>4
<1>6. /\ socket' \in [Peers -> SocketT] /\ socket'[p].end = socket[p].end
      /\ socket'[p].in = v /\ socket'[p].out = socket[p].out
      /\ \A q \in Peers : q # p => socket'[q] = socket[q]
  <2> DEFINE c == [socket[p] EXCEPT !.in = v]
  <2>1. c \in SocketT /\ c.in = v /\ c.out = socket[p].out /\ c.end = socket[p].end
    BY Zenon, <1>1, <1>3 DEF SocketT
  <2>2. socket' = [socket EXCEPT ![p] = c]
    BY Zenon, <1>4
  <2> HIDE DEF c
  <2>3. /\ socket' \in [Peers -> SocketT] /\ socket'[p] = c
        /\ \A q \in Peers : q # p => socket'[q] = socket[q]
    BY ZenonT(30), <2>1, <2>2, <1>1, <1>2, Updated
  <2> QED
    BY Zenon, <2>1, <2>3
<1>7. OthersAlone
  <2>1. /\ pc' \in {"read", "decode", "reply"} /\ handled' = handled /\ owing' = owing
        /\ owed' = owed /\ interest' = interest
    BY Zenon DEF Received
  <2>2. UNCHANGED <<by_fd_, next_id_, owner, reason, events, current, backlog, sent, got>>
    BY Zenon DEF Received
  <2> QED
    BY ZenonT(30), <2>1, <2>2, <1>0, <1>1, <1>2, <1>5, <1>6 DEF OthersAlone
<1>8. InboundKept
  <2>1. (Cells(handled[p]) \o (b \o u)) \o v = (Cells(handled[p]) \o b) \o r
    <3> DEFINE h == Cells(handled[p])
    <3>1. h \in Seq(CellT)
      BY Zenon, <1>1
    <3> HIDE DEF h
    <3>2. h \o b \in Seq(CellT)
      BY <3>1, <1>1
    <3>3. Same((h \o b) \o u, h \o (b \o u))
      BY Zenon, <3>1, <1>1, <1>3, Associative
    <3>4. Same(((h \o b) \o u) \o v, (h \o b) \o (u \o v))
      BY Zenon, <3>2, <1>3, Associative
    <3>5. (h \o (b \o u)) \o v = (h \o b) \o r
      BY Zenon, <3>3, <3>4, <1>3 DEF Same
    <3> QED
      BY Zenon, <3>5 DEF h
  <2>2. /\ Begins(handled[p], sent[p])
        /\ Whole((Cells(handled[p]) \o b) \o r, sent[p], socket[p].end)
    BY Zenon, <1>0, Serviced
  <2>3. pc' \in {"decode", "reply"} /\ handled' = handled
    BY Zenon DEF Received
  <2> QED
    BY ZenonT(30), <2>1, <2>2, <2>3, <1>0, <1>5, <1>6 DEF InboundKept
<1>9. OutboundKept
  <2>1. Pending(by_id_'[k]) = Pending(by_id_[k])
    BY ZenonT(30), <1>5 DEF Pending
  <2>2. owing' = owing
    BY Zenon DEF Received
  <2> QED
    BY ZenonT(30), <2>1, <2>2, <1>0, <1>1, <1>5, <1>6, Serviced DEF OutboundKept
<1> QED
  BY Zenon, <1>7, <1>8, <1>9, ServiceKeeps

\* read_ready()'s recv(): a piece of the stream, the peer's end, or EAGAIN.
LEMMA recvKeeps ==
  ASSUME GatewayInv, recv
  PROVE  GatewayInv'
<1>1. /\ pc = "read" /\ events' = events /\ current' = current /\ owed' = owed
      /\ backlog' = backlog /\ sent' = sent /\ handled' = handled /\ owing' = owing
      /\ got' = got
  BY Zenon DEF recv
<1>2. /\ owed' \in Nat /\ events' \subseteq EventT
      /\ current' \in [id : Nat, readable : BOOLEAN, closed : BOOLEAN,
                       about : Peers \cup {NoOne}]
  BY Zenon, <1>1 DEF GatewayInv, TypeOK
<1>3. CASE ~Live \/ ~current.readable \/ ~Readable(Peer)
  <2>1. /\ UNCHANGED <<gatewayVars, kernelVars, historyVars>> /\ pc' = "closed"
        /\ by_id_' = by_id_ /\ owner' = owner /\ socket' = socket
    BY ZenonT(30), <1>1, <1>3 DEF recv, gatewayVars, kernelVars, historyVars
  <2>2. (Live' <=> Live) /\ This' = This /\ Peer' = Peer
    BY Zenon, <1>1, <2>1 DEF Live, This, Peer
  <2>3. ~(Live /\ current.closed)
    <3>1. ASSUME Live, current.closed
          PROVE  current.readable /\ socket[Peer].end \in {"fin", "rst"}
      BY Zenon, <3>1 DEF GatewayInv, EventsAreCurrent
    <3> QED
      BY ZenonT(30), <1>3, <3>1 DEF Readable
  <2>4. EventsAreCurrent'
    <3>1. pc' \notin {"poll", "event", "accept"} /\ pc' \notin {"write", "decode"}
      BY Zenon, <2>1
    <3> QED
      BY Zenon, <3>1, <1>1, <2>1, <2>2, <2>3 DEF GatewayInv, EventsAreCurrent
  <2> QED
    BY ZenonT(30), <1>1, <1>2, <2>1, <2>4, Idle, LoopKeeps
<1>4. CASE ~(~Live \/ ~current.readable \/ ~Readable(Peer)) /\ socket[Peer].in = << >>
  <2> DEFINE why == IF socket[Peer].end = "fin" THEN "closed" ELSE "recv"
  <2>1. close_connection(why) /\ pc' = "closed" /\ socket' = socket /\ Live
    BY Zenon, <1>4 DEF recv
  <2>2. why \in Reasons
    BY Zenon DEF Reasons
  <2>3. why \in {"closed", "hung up"} => handled[Peer] = sent[Peer]
    <3>1. why \in {"closed", "hung up"} => socket[Peer].end = "fin"
      OBVIOUS
    <3> QED
      BY ZenonT(30), <3>1, <1>1, <1>4, <2>1, FinMeansAll
  <2>4. OwesMore
    BY Zenon, <1>1 DEF OwesMore
  <2> HIDE DEF why
  <2> QED
    BY ZenonT(30), <1>1, <1>2, <2>1, <2>2, <2>3, <2>4, CloseKeeps
<1>5. CASE ~(~Live \/ ~current.readable \/ ~Readable(Peer)) /\ socket[Peer].in # << >>
  <2>1. PICK n \in 1 .. Len(socket[Peer].in) :
          /\ by_id_' = [by_id_ EXCEPT ![current.id].inbound =
                          @ \o SubSeq(socket[Peer].in, 1, n)]
          /\ socket' = [socket EXCEPT ![Peer].in = SubSeq(@, n + 1, Len(@))]
    BY Zenon, <1>5 DEF recv
  <2>2. /\ pc' = "decode" /\ Live
        /\ UNCHANGED <<by_fd_, next_id_, interest, owner, reason>>
    BY Zenon, <1>5 DEF recv
  <2> QED
    BY ZenonT(30), <1>1, <2>1, <2>2, ReceivedKeeps DEF Received
<1> QED
  BY ZenonT(30), <1>3, <1>4, <1>5

-----------------------------------------------------------------------------
(* Decoding.                                                               *)

\* The handler is given the first message of the buffer.
Handed ==
  /\ by_id_' = [by_id_ EXCEPT ![current.id].inbound = Rest(This),
                              ![current.id].account = Bound(Message)]
  /\ handled' = [handled EXCEPT ![Peer] = Append(@, Message)]
  /\ owed' = Message.replies /\ pc' = "reply"
  /\ UNCHANGED <<by_fd_, next_id_, interest, owner, reason, events, current,
                 socket, backlog, sent, owing, got>>

\* Handing it over moves a message from the buffer to the handled ones.
LEMMA HandedKeeps ==
  ASSUME GatewayInv, Live, Len(This.inbound) >= 2, Handed
  PROVE  GatewayInv'
<1>0. PICK k, p, b, r, h, s, m :
        /\ k = current.id /\ p = Peer /\ b = This.inbound /\ r = socket[Peer].in
        /\ h = handled[Peer] /\ s = sent[Peer] /\ m = Message
  OBVIOUS
<1>1. /\ k \in DOMAIN by_id_ /\ This = by_id_[k] /\ p \in Peers
      /\ by_id_[k] \in ConnectionT /\ socket[p] \in SocketT
      /\ b \in Seq(CellT) /\ r \in Seq(CellT) /\ Cells(h) \in Seq(CellT)
      /\ h \in Seq(Messages) /\ s \in Seq(Messages) /\ Len(b) >= 2
      /\ Begins(h, s) /\ Whole((Cells(h) \o b) \o r, s, socket[p].end)
      /\ h = handled[p] /\ s = sent[p] /\ b = by_id_[k].inbound /\ r = socket[p].in
  BY Zenon, <1>0, Serviced
<1>2. /\ by_id_ \in [DOMAIN by_id_ -> ConnectionT] /\ socket \in [Peers -> SocketT]
      /\ handled \in [Peers -> Seq(Messages)] /\ owing \in [Peers -> Seq(ReplyT)]
  BY Zenon DEF GatewayInv, TypeOK
<1>3. m = b[1].message
  BY Zenon, <1>0 DEF Message
<1>4. Begins((Cells(h) \o b) \o r, Cells(s))
  <2> DEFINE x == (Cells(h) \o b) \o r
             y == Cells(s)
  <2>1. x \in Seq(CellT) /\ y \in Seq(CellT) /\ Whole(x, s, socket[p].end)
    BY Zenon, <1>1, ThreeStreams, CellsType
  <2>2. x = y => Begins(x, y)
    <3> HIDE DEF x, y
    <3> QED
      BY <2>1, PrefixMeans
  <2> HIDE DEF x
  <2>3. Begins(x, y)
    BY Zenon, <2>1, <2>2 DEF Whole
  <2> QED
    BY Zenon, <2>3 DEF x
<1> DEFINE rest == SubSeq(b, 3, Len(b))
<1>5. /\ m \in Messages /\ Begins(Append(h, m), s)
      /\ Same((Cells(Append(h, m)) \o rest) \o r, (Cells(h) \o b) \o r)
  BY ZenonT(30), <1>1, <1>3, <1>4, NextMessage
<1>6. rest \in Seq(CellT) /\ Append(h, m) \in Seq(Messages)
  BY <1>1, <1>5
<1>7. /\ by_id_' = [by_id_ EXCEPT ![k].inbound = rest, ![k].account = Bound(m)]
      /\ handled' = [handled EXCEPT ![p] = Append(h, m)]
      /\ owed' = m.replies /\ pc' = "reply"
  <2>1. Rest(This) = rest
    BY Zenon, <1>0 DEF Rest
  <2> QED
    BY Zenon, <2>1, <1>0 DEF Handed
<1>8. UNCHANGED <<by_fd_, next_id_, interest, owner, reason, events, current,
                  socket, backlog, sent, owing, got>>
  BY Zenon DEF Handed
<1> HIDE DEF rest
<1>9. /\ by_id_' \in [DOMAIN by_id_ -> ConnectionT]
      /\ \A id \in DOMAIN by_id_ : id # k => by_id_'[id] = by_id_[id]
      /\ by_id_'[k].fd = by_id_[k].fd /\ by_id_'[k].inbound = rest
      /\ by_id_'[k].outbound = by_id_[k].outbound
      /\ by_id_'[k].outbound_sent = by_id_[k].outbound_sent
  <2>1. Bound(m) \in Accounts
    <3>1. m.account \in Accounts
      BY Zenon, <1>5 DEF Accounts
    <3>2. This.account \in Accounts
      BY Zenon, <1>1 DEF ConnectionT
    <3> QED
      BY Zenon, <3>1, <3>2 DEF Bound
  <2> DEFINE c == [by_id_[k] EXCEPT !.inbound = rest, !.account = Bound(m)]
  <2>2. /\ c \in ConnectionT /\ c.fd = by_id_[k].fd /\ c.inbound = rest
        /\ c.outbound = by_id_[k].outbound /\ c.outbound_sent = by_id_[k].outbound_sent
    BY Zenon, <2>1, <1>1, <1>6 DEF ConnectionT
  <2>3. by_id_' = [by_id_ EXCEPT ![k] = c]
    BY Zenon, <1>1, <1>7
  <2> HIDE DEF c
  <2>4. /\ by_id_' \in [DOMAIN by_id_ -> ConnectionT] /\ by_id_'[k] = c
        /\ \A id \in DOMAIN by_id_ : id # k => by_id_'[id] = by_id_[id]
    BY ZenonT(30), <2>2, <2>3, <1>1, <1>2, Updated
  <2> QED
    BY Zenon, <2>2, <2>4
<1>10. /\ handled' \in [Peers -> Seq(Messages)] /\ handled'[p] = Append(h, m)
       /\ \A q \in Peers : q # p => handled'[q] = handled[q]
  BY ZenonT(30), <1>1, <1>2, <1>6, <1>7, Updated
<1>11. OthersAlone
  <2>1. /\ pc' \in {"read", "decode", "reply"} /\ owing' = owing /\ socket' = socket
        /\ interest' = interest /\ owed' \in Nat
    BY ZenonT(30), <1>5, <1>7, <1>8, GatewayAssumption
  <2>2. UNCHANGED <<by_fd_, next_id_, owner, reason, events, current, backlog, sent, got>>
    BY Zenon, <1>8
  <2> QED
    BY Zenon, <2>1, <2>2, <1>0, <1>1, <1>2, <1>9, <1>10 DEF OthersAlone
<1>12. InboundKept
  <2>1. Whole((Cells(Append(h, m)) \o rest) \o r, s, socket[p].end)
    BY Zenon, <1>1, <1>5 DEF Same
  <2>2. pc' \in {"decode", "reply"} /\ socket' = socket
    BY ZenonT(30), <1>7, <1>8
  <2> QED
    BY ZenonT(30), <2>1, <2>2, <1>0, <1>5, <1>9, <1>10 DEF InboundKept
<1>13. OutboundKept
  <2>1. Pending(by_id_'[k]) = Pending(by_id_[k])
    BY Zenon, <1>9 DEF Pending
  <2>2. owing' = owing /\ socket' = socket
    BY ZenonT(30), <1>8
  <2> QED
    BY ZenonT(30), <2>1, <2>2, <1>0, <1>1, <1>9, Serviced DEF OutboundKept
<1> QED
  BY Zenon, <1>11, <1>12, <1>13, ServiceKeeps

\* decode(): a whole message is handled, refused for its account or malformed,
\* or more of the stream is awaited.
LEMMA decodeKeeps ==
  ASSUME GatewayInv, decode
  PROVE  GatewayInv'
<1>1. /\ pc = "decode" /\ events' = events /\ current' = current /\ socket' = socket
      /\ backlog' = backlog /\ sent' = sent /\ owing' = owing /\ got' = got
  BY Zenon DEF decode
<1>2. /\ Live /\ owed \in Nat /\ events \subseteq EventT
      /\ current \in [id : Nat, readable : BOOLEAN, closed : BOOLEAN,
                      about : Peers \cup {NoOne}]
  BY Zenon, <1>1 DEF GatewayInv, TypeOK, EventsAreCurrent
<1>3. CASE Incomplete
  <2>1. /\ UNCHANGED <<gatewayVars, kernelVars, historyVars>> /\ pc' = "read"
        /\ by_id_' = by_id_ /\ owner' = owner /\ owed' = owed
    BY ZenonT(30), <1>1, <1>3 DEF decode, gatewayVars, kernelVars, historyVars
  <2>2. (Live' <=> Live) /\ This' = This /\ Peer' = Peer
    BY Zenon, <1>1, <2>1 DEF Live, This, Peer
  <2>3. EventsAreCurrent'
    <3>1. pc' \notin {"poll", "event", "accept"} /\ pc' # "closed"
      BY ZenonT(30), <2>1
    <3> QED
      BY ZenonT(30), <3>1, <1>1, <1>2, <2>1, <2>2 DEF GatewayInv, EventsAreCurrent
  <2>4. \A id \in DOMAIN by_id_ : Len(by_id_[id].inbound) < 2
    BY Zenon, <1>3 DEF GatewayInv, InboundSound, Incomplete, This
  <2> QED
    BY ZenonT(30), <1>1, <1>2, <2>1, <2>3, <2>4, LoopKeeps
<1>4. CASE ~Incomplete /\ (Unreadable \/ ChangesAccount(Message))
  <2> DEFINE why == IF Unreadable THEN "malformed" ELSE "account"
  <2>1. close_connection(why) /\ pc' = "closed" /\ handled' = handled /\ owed' = owed
    BY Zenon, <1>4 DEF decode
  <2>2. why \in Reasons /\ why \notin {"closed", "hung up"}
    BY Zenon DEF Reasons
  <2>3. OwesMore
    BY Zenon, <1>1 DEF OwesMore
  <2> HIDE DEF why
  <2> QED
    BY ZenonT(30), <1>1, <1>2, <2>1, <2>2, <2>3, CloseKeeps
<1>5. CASE ~Incomplete /\ ~(Unreadable \/ ChangesAccount(Message))
  <2>1. Handed
    BY ZenonT(30), <1>1, <1>5 DEF decode, Handed
  <2>2. Len(This.inbound) >= 2
    <3>1. This.inbound \in Seq(CellT)
      BY Zenon, <1>2, Serviced
    <3>2. Len(This.inbound) \in Nat
      BY <3>1
    <3> QED
      BY <3>2, <1>5 DEF Incomplete
  <2> QED
    BY ZenonT(30), <1>2, <2>1, <2>2, HandedKeeps
<1> QED
  BY Zenon, <1>3, <1>4, <1>5

-----------------------------------------------------------------------------
(* The theorems.                                                           *)

\* Nobody has connected.
LEMMA InitSound ==
  ASSUME Init
  PROVE  GatewayInv
<1>1. TypeOK
  <2>1. /\ << >> \in Seq(Messages) /\ << >> \in Seq(ReplyT) /\ << >> \in Seq(Peers)
        /\ [in |-> << >>, out |-> << >>, end |-> "new"] \in SocketT /\ "open" \in Reasons
    BY DEF SocketT, Reasons
  <2>2. Nobody \in [id : Nat, readable : BOOLEAN, closed : BOOLEAN,
                    about : Peers \cup {NoOne}]
    BY Zenon DEF Nobody
  <2>3. /\ socket \in [Peers -> SocketT] /\ reason \in [Peers -> Reasons]
        /\ sent \in [Peers -> Seq(Messages)] /\ handled \in [Peers -> Seq(Messages)]
        /\ owing \in [Peers -> Seq(ReplyT)] /\ got \in [Peers -> Seq(ReplyT)]
    BY ZenonT(30), <2>1 DEF Init
  <2>4. /\ next_id_ \in Nat \ {0} /\ owed \in Nat /\ events \subseteq EventT
        /\ backlog \in Seq(Peers) /\ DOMAIN by_id_ = {} /\ DOMAIN owner = {}
    BY SMTT(30), <2>1 DEF Init
  <2>5. /\ by_id_ \in [DOMAIN by_id_ -> ConnectionT] /\ by_fd_ \in [DOMAIN by_fd_ -> Nat]
        /\ owner \in [DOMAIN owner -> Peers]
    BY Zenon DEF Init
  <2>6. pc \in {"poll", "event", "accept", "write", "read", "decode", "reply", "closed"}
    BY Zenon DEF Init
  <2>7. DOMAIN by_id_ \subseteq 1 .. next_id_ - 1 /\ DOMAIN owner \subseteq Fds
    BY Zenon, <2>4
  <2>8. current \in [id : Nat, readable : BOOLEAN, closed : BOOLEAN,
                     about : Peers \cup {NoOne}]
    BY Zenon, <2>2 DEF Init
  <2> QED
    BY ZenonT(30), <2>3, <2>4, <2>5, <2>6, <2>7, <2>8 DEF TypeOK
<1>2. DOMAIN by_id_ = {} /\ DOMAIN owner = {} /\ backlog = << >> /\ DOMAIN backlog = {}
  BY SMTT(20) DEF Init
<1>3. TablesAgree
  BY Zenon DEF Init, TablesAgree
<1>4. \A p \in Peers :
        /\ socket[p] = [in |-> << >>, out |-> << >>, end |-> "new"]
        /\ handled[p] = << >> /\ owing[p] = << >> /\ got[p] = << >>
        /\ sent[p] = << >> /\ reason[p] = "open"
  BY Zenon DEF Init
<1>5. \A p \in Peers : socket[p].in = << >> /\ socket[p].out = << >>
  BY <1>4
<1>6. Sessions
  BY Zenon, <1>2, <1>4, <1>5 DEF Sessions, Waiting, Connected
<1>7. EventsAreCurrent
  <2>1. Nobody.id = 0
    BY Zenon DEF Nobody
  <2>2. events = {} /\ current = Nobody /\ pc \notin {"write", "decode"}
    BY Zenon DEF Init
  <2> QED
    BY ZenonT(30), <2>1, <2>2, <1>2 DEF EventsAreCurrent, Live
<1>8. Begins(<< >>, << >>) /\ Cells(<< >>) = << >>
  <2>1. << >> \in Seq(Messages) /\ Len(<< >>) = 0 /\ SubSeq(<< >>, 1, 0) = << >>
    OBVIOUS
  <2>2. Cells(<< >>) \in Seq(CellT) /\ Len(Cells(<< >>)) = 2 * Len(<< >>)
    BY Zenon, <2>1, CellsType
  <2>3. Cells(<< >>) \in Seq(CellT) /\ Len(Cells(<< >>)) = 0
    BY <2>1, <2>2
  <2>4. Cells(<< >>) = << >>
    BY Zenon, <2>3, EmptySeq
  <2> QED
    BY <2>1, <2>4 DEF Begins
<1>9. InboundSound
  <2>1. "open" \notin {"closed", "hung up"}
    OBVIOUS
  <2> QED
    BY ZenonT(30), <2>1, <1>2, <1>4, <1>5, <1>8 DEF InboundSound, Arrives, Whole
<1>10. OutboundSound
  <2>1. << >> \o << >> = << >> /\ Len(<< >>) <= SocketRoom /\ DOMAIN << >> = {}
    BY GatewayAssumption
  <2> QED
    BY ZenonT(30), <2>1, <1>2, <1>4, <1>5, <1>8 DEF OutboundSound
<1> QED
  BY ZenonT(30), <1>1, <1>3, <1>6, <1>7, <1>9, <1>10 DEF GatewayInv

\* Every step of the loop and of the peers.
LEMMA NextKeeps ==
  ASSUME GatewayInv, [Next]_vars
  PROVE  GatewayInv'
<1>1. CASE Step
  BY ZenonT(30), <1>1, waitKeeps, EndPassKeeps, NextEventKeeps, accept_readyKeeps,
     write_readyKeeps, recvKeeps, decodeKeeps, replyKeeps, EndEventKeeps DEF Step
<1>2. ASSUME NEW p \in Peers, PeerStep(p) PROVE GatewayInv'
  BY Zenon, <1>2, PeerConnectsKeeps, PeerSendsKeeps, PeerReadsKeeps, PeerEndsKeeps
     DEF PeerStep
<1>3. CASE UNCHANGED vars
  <2>1. /\ UNCHANGED <<gatewayVars, kernelVars, historyVars>>
        /\ events' = events /\ owed' = owed /\ pc' = pc /\ current' = current
        /\ by_id_' = by_id_ /\ owner' = owner /\ socket' = socket
    BY Zenon, <1>3 DEF vars, gatewayVars, kernelVars, historyVars, loopVars
  <2>2. EventsAreCurrent'
    <3>1. (Live' <=> Live) /\ This' = This /\ Peer' = Peer
      BY Zenon, <2>1 DEF Live, This, Peer
    <3> QED
      BY Zenon, <3>1, <2>1 DEF GatewayInv, EventsAreCurrent
  <2>3. /\ events' \subseteq EventT /\ owed' \in Nat
        /\ pc' \in {"poll", "event", "accept", "write", "read", "decode", "reply", "closed"}
        /\ current' \in [id : Nat, readable : BOOLEAN, closed : BOOLEAN,
                         about : Peers \cup {NoOne}]
    BY Zenon, <2>1 DEF GatewayInv, TypeOK
  <2>4. \A id \in DOMAIN by_id_ : \/ Len(by_id_[id].inbound) < 2
                                  \/ id = current'.id /\ pc' \in {"decode", "reply"}
    BY Zenon, <2>1 DEF GatewayInv, InboundSound
  <2> QED
    BY ZenonT(30), <2>1, <2>2, <2>3, <2>4, LoopKeeps
<1> QED
  BY Zenon, <1>1, <1>2, <1>3 DEF Next

\* The inductive invariant holds throughout.
THEOREM GatewaySound == Spec => []GatewayInv
BY InitSound, NextKeeps, PTL DEF Spec

\* by_id_, by_fd_, the event loop and the kernel always agree on what is open.
THEOREM TablesStayInStep == Spec => []TablesAgree
<1>1. GatewayInv => TablesAgree
  BY ZenonT(30) DEF GatewayInv
<1> QED
  BY <1>1, GatewaySound, PTL

\* poll() never services one connection for an event about another, however
\* descriptors are reused within a pass.
THEOREM EventsFindTheirConnection == Spec => []EventsReachTheirConnection
<1>1. GatewayInv => EventsReachTheirConnection
  BY Zenon DEF GatewayInv, EventsAreCurrent, EventsReachTheirConnection
<1> QED
  BY <1>1, GatewaySound, PTL

\* Every reply send() accepted reaches its sender, once and in order, or waits
\* in the kernel or in the connection's buffer: nothing else is received.
THEOREM RepliesAreTheSenders == Spec => []RepliesReachTheirSender
<1>1. ASSUME GatewayInv PROVE RepliesReachTheirSender
  <2>1. ASSUME NEW p \in Peers
        PROVE  Begins(got[p], owing[p]) /\ \A r \in Range(got[p]) : r.to = p
    <3>1. /\ got[p] \in Seq(ReplyT) /\ owing[p] \in Seq(ReplyT)
          /\ socket[p] \in SocketT
      BY Zenon, <1>1 DEF GatewayInv, TypeOK
    <3>2. socket[p].out \in Seq(ReplyT)
      BY ZenonT(30), <3>1 DEF SocketT
    <3>3. /\ Begins(got[p] \o socket[p].out, owing[p])
          /\ \A i \in DOMAIN owing[p] : owing[p][i].to = p
      BY Zenon, <1>1 DEF GatewayInv, OutboundSound
    <3>4. Begins(got[p], owing[p])
      BY Zenon, <3>1, <3>2, <3>3, PrefixStarts
    <3>5. Len(got[p]) <= Len(owing[p]) /\ \A i \in 1 .. Len(got[p]) : got[p][i] = owing[p][i]
      BY ZenonT(30), <3>1, <3>4, PrefixMeans
    <3>6. \A i \in DOMAIN got[p] : got[p][i].to = p
      BY <3>1, <3>3, <3>5
    <3> QED
      BY Zenon, <3>4, <3>6 DEF Range
  <2>2. \A id \in DOMAIN by_id_ :
          LET p == owner[by_id_[id].fd]
          IN  got[p] \o socket[p].out \o Pending(by_id_[id]) = owing[p]
    BY Zenon, <1>1 DEF GatewayInv, OutboundSound, Replies, PeerOf
  <2> QED
    BY Zenon, <2>1, <2>2 DEF RepliesReachTheirSender
<1> QED
  BY <1>1, GatewaySound, PTL

\* However recv() cuts the stream up, the handler is given the messages that
\* were sent, in order and none twice, and an open connection has lost nothing.
THEOREM MessagesAreHandledInOrder == Spec => []MessagesArriveInOrder
<1>1. ASSUME GatewayInv PROVE MessagesArriveInOrder
  BY Zenon, <1>1 DEF GatewayInv, InboundSound, Arrives, Whole, Stream, PeerOf,
                     MessagesArriveInOrder
<1> QED
  BY <1>1, GatewaySound, PTL

\* A peer whose connection was closed because it finished has had everything it
\* sent handled.
THEOREM FinishingLosesNothing == Spec => []HangUpLosesNothing
<1>1. ASSUME GatewayInv PROVE HangUpLosesNothing
  BY Zenon, <1>1 DEF GatewayInv, InboundSound, HangUpLosesNothing
<1> QED
  BY <1>1, GatewaySound, PTL

=============================================================================
