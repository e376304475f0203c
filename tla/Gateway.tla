------------------------------ MODULE Gateway -------------------------------
(***************************************************************************)
(* Order entry: TcpGateway and the EventLoop under it                      *)
(* (src/src/net/tcp_gateway.cpp, event_loop.cpp), the venue's message      *)
(* handler as far as it concerns sessions (src/src/venue.cpp), and the     *)
(* peers and the kernel around them.                                       *)
(*                                                                         *)
(* One thread runs the loop.  A pass takes a snapshot of the ready         *)
(* descriptors and services them one by one, while the peers go on sending,*)
(* reading and hanging up:                                                 *)
(*                                                                         *)
(*   poll -wait-> event -> accept -> event                                 *)
(*                event -> write -> read -> decode -> reply -> decode      *)
(*                                       -> closed -> event      -> poll   *)
(*                                                                         *)
(* A message is two cells of the byte stream, a reply is one unit of it.   *)
(***************************************************************************)
EXTENDS Integers, Sequences, FiniteSetsExt

CONSTANTS
  Peers,            \* clients; each connects once
  Fds,              \* descriptors the process may be given
  Crowded,          \* may the rest of the process use up the descriptors?
  listen_fd_,
  Messages,         \* what a peer may send: its account, its replies, or bad
  NoAccount,        \* AccountId{}
  max_connections,  \* GatewayConfig
  max_outbound,     \* GatewayConfig::max_outbound_bytes, in replies
  SocketRoom,       \* bound: replies the kernel buffers for a slow peer
  MaxMessages,      \* bound: messages sent by one peer
  MaxTraffic,       \* bound: messages sent by all of them
  MayAbort,         \* may a peer reset its connection?
  NoOne             \* no peer

ASSUME GatewayAssumption ==
  /\ max_connections \in Nat \ {0} /\ max_outbound \in Nat
  /\ SocketRoom \in Nat \ {0} /\ MaxMessages \in Nat /\ MaxTraffic \in Nat
  /\ listen_fd_ \notin Fds /\ Fds \subseteq Nat
  /\ \A m \in Messages : m.replies \in Nat /\ m.bad \in {"no", "header", "payload"}
  /\ MayAbort \in BOOLEAN /\ Crowded \in BOOLEAN

VARIABLES
  by_id_,      \* connection id -> Connection
  by_fd_,      \* descriptor -> connection id
  next_id_,
  interest,    \* EventLoop: descriptor -> what it is watched for
  events,      \* what is left of the snapshot taken by wait()
  pc,
  current,     \* the connection being serviced, and the rest of its event
  owed,        \* replies the handler has yet to send for the message
  \* The kernel and the peers.
  backlog,     \* peers waiting to be accepted
  owner,       \* open descriptor -> the peer at its other end
  socket,      \* peer -> cells towards the venue, replies towards the peer
  \* History.
  sent,        \* peer -> the messages it sent
  handled,     \* peer -> its messages given to the handler
  owing,       \* peer -> its replies accepted by send()
  got,         \* peer -> the replies it received
  reason       \* peer -> why its connection was closed, or "open"

gatewayVars == <<by_id_, by_fd_, next_id_, interest>>
loopVars    == <<events, pc, current, owed>>
kernelVars  == <<backlog, owner, socket>>
historyVars == <<sent, handled, owing, got, reason>>
vars        == <<gatewayVars, loopVars, kernelVars, historyVars>>

Without(f, x) == [y \in DOMAIN f \ {x} |-> f[y]]

With(f, x, v) == [y \in DOMAIN f \cup {x} |-> IF y = x THEN v ELSE f[y]]

Nobody == [id |-> 0, readable |-> FALSE, closed |-> FALSE, about |-> NoOne]

Init ==
  /\ by_id_ = [i \in {} |-> Nobody] /\ by_fd_ = [fd \in {} |-> 0] /\ next_id_ = 1
  /\ interest = [fd \in {listen_fd_} |-> "Read"]
  /\ events = {} /\ pc = "poll" /\ current = Nobody /\ owed = 0
  /\ backlog = << >> /\ owner = [fd \in {} |-> NoOne]
  /\ socket = [p \in Peers |-> [in |-> << >>, out |-> << >>, end |-> "new"]]
  /\ sent = [p \in Peers |-> << >>] /\ handled = [p \in Peers |-> << >>]
  /\ owing = [p \in Peers |-> << >>] /\ got = [p \in Peers |-> << >>]
  /\ reason = [p \in Peers |-> "open"]

-----------------------------------------------------------------------------
(* The peers.  A connection ends at the peer with a FIN or with a reset.   *)

PeerConnects(p) ==
  /\ socket[p].end = "new"
  /\ socket' = [socket EXCEPT ![p].end = "no"]
  /\ backlog' = Append(backlog, p)
  /\ UNCHANGED <<gatewayVars, loopVars, owner, historyVars>>

PeerSends(p, m) ==
  /\ socket[p].end = "no" /\ reason[p] = "open"
  /\ Len(sent[p]) < MaxMessages
  /\ MapThenSumSet(LAMBDA q : Len(sent[q]), Peers) < MaxTraffic
  /\ sent' = [sent EXCEPT ![p] = Append(@, m)]
  /\ socket' = [socket EXCEPT ![p].in =
                  @ \o [i \in 1 .. 2 |-> [message |-> m, part |-> i]]]
  /\ UNCHANGED <<gatewayVars, loopVars, backlog, owner, handled, owing, got, reason>>

PeerReads(p) ==
  /\ socket[p].end \in {"no", "fin"} /\ socket[p].out # << >>
  /\ got' = [got EXCEPT ![p] = Append(@, Head(socket[p].out))]
  /\ socket' = [socket EXCEPT ![p].out = Tail(@)]
  /\ UNCHANGED <<gatewayVars, loopVars, backlog, owner, sent, handled, owing, reason>>

PeerFinishes(p) ==
  /\ socket[p].end = "no" /\ reason[p] = "open"
  /\ socket' = [socket EXCEPT ![p].end = "fin"]
  /\ UNCHANGED <<gatewayVars, loopVars, backlog, owner, historyVars>>

\* A reset takes what was still in flight with it.
PeerAborts(p) ==
  /\ MayAbort /\ socket[p].end = "no" /\ reason[p] = "open"
  /\ \E n \in 0 .. Len(socket[p].in) :
       socket' = [socket EXCEPT ![p].end = "rst", ![p].in = SubSeq(@, 1, n)]
  /\ UNCHANGED <<gatewayVars, loopVars, backlog, owner, historyVars>>

\* A reply that reaches a peer gone after its FIN is answered by a reset.
PeerResets(p) ==
  /\ socket[p].end = "fin" /\ socket[p].out # << >> /\ reason[p] = "open"
  /\ socket' = [socket EXCEPT ![p].end = "rst"]
  /\ UNCHANGED <<gatewayVars, loopVars, backlog, owner, historyVars>>

-----------------------------------------------------------------------------
(* EventLoop::wait and the start of a pass.                                *)

Room(p) == SocketRoom - Len(socket[p].out)

\* Level-triggered readiness of a connection's descriptor.
Readable(p) == socket[p].in # << >> \/ socket[p].end # "no"

Writable(fd) ==
  /\ interest[fd] = "ReadWrite"
  /\ Room(owner[fd]) > 0 \/ socket[owner[fd]].end = "rst"

\* A reset is always a hang-up; a FIN is one under kqueue, not under epoll.
HungUp(p, eof) == socket[p].end = "rst" \/ (socket[p].end = "fin" /\ eof)

Ready == {fd \in DOMAIN interest \ {listen_fd_} : Readable(owner[fd]) \/ Writable(fd)}

Snapshot_unmerged(eof) ==
  {e \in [fd : Ready, readable : BOOLEAN, writable : BOOLEAN, closed : BOOLEAN, about : Peers] :
     /\ e.readable => Readable(owner[e.fd])
     /\ e.writable => Writable(e.fd)
     /\ e.readable # e.writable
     /\ e.closed = HungUp(owner[e.fd], eof) /\ e.about = owner[e.fd]}

\* One event per descriptor; the ghost field about is the peer it is about.
Snapshot(eof) ==
  {[fd |-> fd, readable |-> Readable(owner[fd]), writable |-> Writable(fd),
    closed |-> HungUp(owner[fd], eof), about |-> owner[fd]] : fd \in Ready}

wait ==
  /\ pc = "poll"
  /\ Ready # {} \/ backlog # << >>
  /\ \E eof \in BOOLEAN :
       events' = Snapshot(eof) \cup
                 {[fd |-> listen_fd_, readable |-> TRUE, writable |-> FALSE,
                   closed |-> FALSE, about |-> NoOne] : p \in Range(backlog)}
  /\ pc' = "event"
  /\ UNCHANGED <<gatewayVars, current, owed, kernelVars, historyVars>>

\* The pass is over.
EndPass ==
  /\ pc = "event" /\ events = {}
  /\ pc' = "poll"
  /\ UNCHANGED <<gatewayVars, events, current, owed, kernelVars, historyVars>>

NextEvent_closedFirst(e) ==
  /\ pc = "event" /\ e \in events
  /\ events' = events \ {e}
  /\ IF e.fd = listen_fd_ THEN pc' = "accept" /\ UNCHANGED current
     ELSE IF e.fd \notin DOMAIN by_fd_ THEN UNCHANGED <<pc, current>>
     ELSE /\ pc' = IF e.closed THEN "closed" ELSE IF e.writable THEN "write" ELSE "read"
          /\ current' = [id |-> by_fd_[e.fd], readable |-> e.readable,
                         closed |-> e.closed, about |-> e.about]
  /\ UNCHANGED <<gatewayVars, owed, kernelVars, historyVars>>

\* The next event, in whatever order wait() returned them.  One whose
\* descriptor is no longer known was closed earlier in this pass.
NextEvent(e) ==
  /\ pc = "event" /\ e \in events
  /\ events' = events \ {e}
  /\ IF e.fd = listen_fd_ THEN pc' = "accept" /\ UNCHANGED current
     ELSE IF e.fd \notin DOMAIN by_fd_ THEN UNCHANGED <<pc, current>>
     ELSE /\ pc' = IF e.writable THEN "write" ELSE "read"
          /\ current' = [id |-> by_fd_[e.fd], readable |-> e.readable,
                         closed |-> e.closed, about |-> e.about]
  /\ UNCHANGED <<gatewayVars, owed, kernelVars, historyVars>>

-----------------------------------------------------------------------------
(* accept_ready(): until the queue is empty or accept() fails.             *)

Connection(fd) ==
  [fd |-> fd, account |-> NoAccount, inbound |-> << >>, outbound |-> << >>,
   outbound_sent |-> 0, watching_write |-> FALSE]

FreeFds == Fds \ DOMAIN owner

\* The kernel hands out the lowest free descriptor.
NewFd == Min(FreeFds)

\* accept() may fail although peers wait: descriptors are shared with the
\* journal and the feed.  The peers are left for a later pass.
OutOfDescriptors == Crowded \/ FreeFds = {}

Full == Cardinality(DOMAIN by_id_) >= max_connections

\* Closed at once: no room for it, or its options could not be set.
Refused ==
  /\ Full \/ socket[Head(backlog)].end = "rst"
  /\ reason' = [reason EXCEPT ![Head(backlog)] = "refused"]
  /\ UNCHANGED <<gatewayVars, owner>>

Accepted_unwatched ==
  /\ ~Full
  /\ owner' = With(owner, NewFd, Head(backlog))
  /\ by_fd_' = With(by_fd_, NewFd, next_id_)
  /\ by_id_' = With(by_id_, next_id_, Connection(NewFd))
  /\ next_id_' = next_id_ + 1
  /\ UNCHANGED <<interest, reason>>

Accepted ==
  /\ ~Full
  /\ owner' = With(owner, NewFd, Head(backlog))
  /\ interest' = With(interest, NewFd, "Read")
  /\ by_fd_' = With(by_fd_, NewFd, next_id_)
  /\ by_id_' = With(by_id_, next_id_, Connection(NewFd))
  /\ next_id_' = next_id_ + 1
  /\ UNCHANGED reason

accept_ready ==
  /\ pc = "accept"
  /\ \/ /\ backlog = << >> \/ OutOfDescriptors
        /\ pc' = "event" /\ UNCHANGED <<gatewayVars, backlog, owner, reason>>
     \/ /\ backlog # << >> /\ FreeFds # {}
        /\ Refused \/ Accepted
        /\ backlog' = Tail(backlog) /\ UNCHANGED pc
  /\ UNCHANGED <<events, current, owed, socket, sent, handled, owing, got>>

-----------------------------------------------------------------------------
(* Closing, sending and reading.                                           *)

\* The peer of the connection being serviced; id 0 is no connection.
Live == current.id \in DOMAIN by_id_

This == by_id_[current.id]

Peer == owner[This.fd]

close_connection_byIdOnly(why) ==
  /\ interest' = Without(interest, This.fd)
  /\ owner' = Without(owner, This.fd)
  /\ by_id_' = Without(by_id_, current.id)
  /\ reason' = [reason EXCEPT ![Peer] = why]
  /\ UNCHANGED <<by_fd_, next_id_>>

\* Closing the connection being serviced.
close_connection(why) ==
  /\ interest' = Without(interest, This.fd)
  /\ owner' = Without(owner, This.fd)
  /\ by_fd_' = Without(by_fd_, This.fd)
  /\ by_id_' = Without(by_id_, current.id)
  /\ reason' = [reason EXCEPT ![Peer] = why]
  /\ UNCHANGED next_id_

Unsent(c) == Len(c.outbound) - c.outbound_sent

\* How much of the buffer the kernel takes before it would block.
Takes(c) == Min({Unsent(c), Room(Peer)})

Drained_cleared(c) == [c EXCEPT !.outbound = << >>, !.outbound_sent = 0]

\* The buffer after it took that much.  The prefix already written is dropped
\* only once everything is written: a full socket returns before compaction.
Drained(c) ==
  IF Takes(c) = Unsent(c) THEN [c EXCEPT !.outbound = << >>, !.outbound_sent = 0]
  ELSE [c EXCEPT !.outbound_sent = @ + Takes(c)]

update_write_interest_never(c) ==
  /\ by_id_' = [by_id_ EXCEPT ![current.id] = [c EXCEPT !.watching_write = Unsent(c) > 0]]
  /\ UNCHANGED interest

\* Watches for writability exactly while there is something to write.
update_write_interest(c) ==
  LET wants == Unsent(c) > 0
  IN  /\ by_id_' = [by_id_ EXCEPT ![current.id] = [c EXCEPT !.watching_write = wants]]
      /\ interest' = IF wants = c.watching_write THEN interest
                     ELSE [interest EXCEPT ![c.fd] = IF wants THEN "ReadWrite" ELSE "Read"]

\* drain() of connection c and what both of its callers do next.
drain(c) ==
  IF socket[Peer].end = "rst" /\ Unsent(c) > 0
  THEN close_connection("send") /\ UNCHANGED socket
  ELSE /\ socket' = [socket EXCEPT ![Peer].out =
            @ \o SubSeq(c.outbound, c.outbound_sent + 1, c.outbound_sent + Takes(c))]
       /\ update_write_interest(Drained(c))
       /\ UNCHANGED <<by_fd_, next_id_, owner, reason>>

write_ready ==
  /\ pc = "write"
  /\ drain(This)
  /\ pc' = "read"
  /\ UNCHANGED <<events, current, owed, backlog, sent, handled, owing, got>>

\* One recv().  It returns what has arrived, an end, an error, or would block.
recv ==
  /\ pc = "read"
  /\ IF ~Live \/ ~current.readable \/ ~Readable(Peer)
     THEN pc' = "closed" /\ UNCHANGED <<gatewayVars, owner, socket, reason>>
     ELSE IF socket[Peer].in = << >>
     THEN /\ close_connection(IF socket[Peer].end = "fin" THEN "closed" ELSE "recv")
          /\ pc' = "closed" /\ UNCHANGED socket
     ELSE /\ \E n \in 1 .. Len(socket[Peer].in) :
               /\ by_id_' = [by_id_ EXCEPT ![current.id].inbound =
                               @ \o SubSeq(socket[Peer].in, 1, n)]
               /\ socket' = [socket EXCEPT ![Peer].in = SubSeq(@, n + 1, Len(@))]
          /\ pc' = "decode"
          /\ UNCHANGED <<by_fd_, next_id_, interest, owner, reason>>
  /\ UNCHANGED <<events, current, owed, backlog, sent, handled, owing, got>>

\* The message at the front of the buffer.
Message == This.inbound[1].message

\* A bad header is seen as soon as it is there, a bad payload when it is whole.
Unreadable ==
  \/ This.inbound # << >> /\ Message.bad = "header"
  \/ Len(This.inbound) > 1 /\ Message.bad = "payload"

Incomplete == Len(This.inbound) < 2 /\ ~Unreadable

\* The first account a connection names is the only one it may act for.
ChangesAccount(m) ==
  /\ m.account # NoAccount /\ This.account # NoAccount
  /\ m.account # This.account

Bound(m) == IF This.account = NoAccount THEN m.account ELSE This.account

Rest_dropped(c) == << >>

\* What is left of the buffer once its first message is consumed.
Rest(c) == SubSeq(c.inbound, 3, Len(c.inbound))

\* One turn of the decode loop, up to the call of the handler.
decode ==
  /\ pc = "decode"
  /\ IF Incomplete THEN pc' = "read" /\ UNCHANGED <<gatewayVars, owner, reason, handled, owed>>
     ELSE IF Unreadable \/ ChangesAccount(Message)
     THEN /\ close_connection(IF Unreadable THEN "malformed" ELSE "account")
          /\ pc' = "closed" /\ UNCHANGED <<handled, owed>>
     ELSE /\ by_id_' = [by_id_ EXCEPT ![current.id].inbound = Rest(This),
                                     ![current.id].account = Bound(Message)]
          /\ handled' = [handled EXCEPT ![Peer] = Append(@, Message)]
          /\ owed' = Message.replies
          /\ pc' = "reply"
          /\ UNCHANGED <<by_fd_, next_id_, interest, owner, reason>>
  /\ UNCHANGED <<events, current, socket, backlog, sent, owing, got>>

\* The next reply to the connection's latest message, as the peer knows it.
Reply == [to |-> current.about, message |-> Len(handled[Peer]), left |-> owed]

\* The unsent replies would exceed the limit.
TooSlow == Unsent(This) + 1 > max_outbound

\* send() of one reply, through Venue::send_session.
send ==
  LET queued == [This EXCEPT !.outbound = Append(@, Reply)]
  IN  IF TooSlow
      THEN close_connection("slow") /\ UNCHANGED <<socket, owing>>
      ELSE drain(queued) /\ owing' = [owing EXCEPT ![Peer] = Append(@, Reply)]

\* The handler's replies, one by one; then the connection is looked up again.
reply ==
  /\ pc = "reply"
  /\ IF owed > 0
     THEN /\ owed' = owed - 1 /\ UNCHANGED pc
          /\ IF Live THEN send
             ELSE UNCHANGED <<gatewayVars, owner, socket, reason, owing>>
     ELSE /\ pc' = IF Live THEN "decode" ELSE "closed"
          /\ UNCHANGED <<gatewayVars, owed, owner, socket, reason, owing>>
  /\ UNCHANGED <<events, current, backlog, sent, handled, got>>

\* The end of a connection's event: a hang-up is acted on last.
EndEvent ==
  /\ pc = "closed"
  /\ IF current.closed /\ Live THEN close_connection("hung up")
     ELSE UNCHANGED <<gatewayVars, owner, reason>>
  /\ pc' = "event" /\ current' = Nobody
  /\ UNCHANGED <<events, owed, backlog, socket, sent, handled, owing, got>>

-----------------------------------------------------------------------------

Step ==
  \/ wait \/ EndPass \/ (\E e \in events : NextEvent(e)) \/ accept_ready
  \/ write_ready \/ recv \/ decode \/ reply \/ EndEvent

PeerStep(p) ==
  \/ PeerConnects(p) \/ (\E m \in Messages : PeerSends(p, m)) \/ PeerReads(p)
  \/ PeerFinishes(p) \/ PeerAborts(p) \/ PeerResets(p)

Next == Step \/ \E p \in Peers : PeerStep(p)

Spec == Init /\ [][Next]_vars

\* The venue keeps polling.  A peer that is owed replies reads them.
Fairness == WF_vars(Step) /\ \A p \in Peers : WF_vars(PeerReads(p))

-----------------------------------------------------------------------------
(* What the gateway promises.                                              *)

\* by_id_, by_fd_, the event loop and the kernel agree on what is open: accept
\* and close_connection keep the four in step, whatever the order of events.
TablesAgree ==
  /\ DOMAIN by_fd_ = {by_id_[id].fd : id \in DOMAIN by_id_}
  /\ \A id \in DOMAIN by_id_ : by_fd_[by_id_[id].fd] = id
  /\ DOMAIN owner = DOMAIN by_fd_
  /\ DOMAIN interest = DOMAIN by_fd_ \cup {listen_fd_}

\* poll() finds a connection by descriptor, and descriptors are reused within
\* a pass.  It never services one connection for another's event.
EventsReachTheirConnection == Live => Peer = current.about

\* The stream t begins with s.
Begins(s, t) == Len(s) <= Len(t) /\ SubSeq(t, 1, Len(s)) = s

Pending(c) == SubSeq(c.outbound, c.outbound_sent + 1, Len(c.outbound))

\* A peer receives its own replies only, each once and in the order send() was
\* called, across partial writes; what it lacks is in the kernel or unsent.
RepliesReachTheirSender ==
  /\ \A p \in Peers : Begins(got[p], owing[p]) /\ \A r \in Range(got[p]) : r.to = p
  /\ \A id \in DOMAIN by_id_ :
       LET p == owner[by_id_[id].fd]
       IN  got[p] \o socket[p].out \o Pending(by_id_[id]) = owing[p]

\* The message halves of a sequence of messages.
Cells(s) == [i \in 1 .. 2 * Len(s) |->
               [message |-> s[(i + 1) \div 2], part |-> 2 - (i % 2)]]

\* However the stream is cut up by recv(), the handler sees the messages that
\* were sent, in order, none twice; an open connection has lost nothing.
MessagesArriveInOrder ==
  /\ \A p \in Peers : Begins(handled[p], sent[p])
  /\ \A id \in DOMAIN by_id_ :
       LET p    == owner[by_id_[id].fd]
           here == Cells(handled[p]) \o by_id_[id].inbound \o socket[p].in
       IN  here = Cells(sent[p]) \/ (socket[p].end = "rst" /\ Begins(here, Cells(sent[p])))

\* The hang-up is acted on after the reads: a peer whose connection is closed
\* because it finished has had everything it sent handled.
HangUpLosesNothing ==
  \A p \in Peers : reason[p] \in {"closed", "hung up"} /\ socket[p].end = "fin"
                    => handled[p] = sent[p]

\* Whatever a connected peer sends is handled, unless the connection is closed:
\* no readiness is lost between passes, nor by serving another connection that
\* sends a bounded amount (read_ready reads a connection until it is empty, so
\* one that never stops sending would keep the others waiting).
EveryoneIsServed ==
  \A p \in Peers : (handled[p] # sent[p]) ~> (handled[p] = sent[p] \/ reason[p] # "open")

\* Whatever send() accepted reaches a peer that keeps reading, unless the
\* connection ends: write_ready picks up what the socket had no room for,
\* however the bounded traffic of the other connections falls between.
RepliesAreDelivered ==
  \A p \in Peers :
    (got[p] # owing[p])
      ~> (got[p] = owing[p] \/ reason[p] # "open" \/ socket[p].end # "no")

\* Said of poll(): a client that hangs up immediately after sending its final
\* orders does not lose them.  (It does when a reply to an earlier one fails.)
FinalOrdersHandled ==
  \A p \in Peers : reason[p] \in {"closed", "hung up", "recv", "send"}
                    => handled[p] = sent[p]

\* Said of kCompactThreshold (here one reply): the written prefix of an outbound
\* buffer does not let it grow without bound while its live contents are small.
BufferCompacted ==
  \A id \in DOMAIN by_id_ :
    Len(by_id_[id].outbound) <= max_outbound + 1

=============================================================================
