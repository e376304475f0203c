---------------------------- MODULE GatewayLemmas ---------------------------
(***************************************************************************)
(* The inductive invariant of order entry, the facts about byte streams it *)
(* rests on, and the steps that keep it: what the peers do, closing a      *)
(* connection, waiting for events, and accepting.                          *)
(***************************************************************************)
EXTENDS Gateway, SequenceTheorems, WellFoundedInduction, TLAPS

-----------------------------------------------------------------------------
(* The inductive invariant.                                                *)

\* What a connection's account may be.
Accounts == {m.account : m \in Messages} \cup {NoAccount}

\* The values of the gateway's and the kernel's buffers.
CellT == [message : Messages, part : 1 .. 2]

ReplyT == [to : Peers \cup {NoOne}, message : Nat, left : Nat]

ConnectionT ==
  [fd : Fds, account : Accounts, inbound : Seq(CellT), outbound : Seq(ReplyT),
   outbound_sent : Nat, watching_write : BOOLEAN]

EventT ==
  [fd : Fds \cup {listen_fd_}, readable : BOOLEAN, writable : BOOLEAN,
   closed : BOOLEAN, about : Peers \cup {NoOne}]

SocketT == [in : Seq(CellT), out : Seq(ReplyT), end : {"new", "no", "fin", "rst"}]

Reasons ==
  {"open", "refused", "send", "closed", "recv", "malformed", "account", "slow", "hung up"}

\* The values of the variables.
TypeOK ==
  /\ next_id_ \in Nat \ {0}
  /\ by_id_ \in [DOMAIN by_id_ -> ConnectionT]
  /\ DOMAIN by_id_ \subseteq 1 .. next_id_ - 1
  /\ by_fd_ \in [DOMAIN by_fd_ -> Nat]
  /\ events \subseteq EventT
  /\ pc \in {"poll", "event", "accept", "write", "read", "decode", "reply", "closed"}
  /\ current \in [id : Nat, readable : BOOLEAN, closed : BOOLEAN,
                  about : Peers \cup {NoOne}]
  /\ owed \in Nat
  /\ backlog \in Seq(Peers)
  /\ owner \in [DOMAIN owner -> Peers] /\ DOMAIN owner \subseteq Fds
  /\ socket \in [Peers -> SocketT]
  /\ sent \in [Peers -> Seq(Messages)] /\ handled \in [Peers -> Seq(Messages)]
  /\ owing \in [Peers -> Seq(ReplyT)] /\ got \in [Peers -> Seq(ReplyT)]
  /\ reason \in [Peers -> Reasons]

\* The peer of a connection.
PeerOf(id) == owner[by_id_[id].fd]

\* Connected and waiting to be accepted; accepted and not closed.
Waiting(p) == \E i \in DOMAIN backlog : backlog[i] = p

Connected(p) == \E fd \in DOMAIN owner : owner[fd] = p

\* Not accepted yet.
Fresh(p) == socket[p].end = "new" \/ Waiting(p)

\* A peer connects once, waits once and is given one descriptor.  Nothing has
\* happened on a connection that was not accepted.
Sessions ==
  /\ \A i, j \in DOMAIN backlog : backlog[i] = backlog[j] => i = j
  /\ \A f, g \in DOMAIN owner : owner[f] = owner[g] => f = g
  /\ \A p \in Peers :
       /\ socket[p].end = "new" => ~Waiting(p)
       /\ Fresh(p) => /\ ~Connected(p) /\ reason[p] = "open"
                      /\ handled[p] = << >> /\ owing[p] = << >>
                      /\ got[p] = << >> /\ socket[p].out = << >>
       /\ Connected(p) => reason[p] = "open"

\* At most one event is left for a descriptor, none for the connection being
\* serviced, and each is about the peer that has the descriptor now.  A hang-up
\* is readable, and is still there when the event is serviced.
EventsAreCurrent ==
  /\ \A e, f \in events : e.fd = f.fd => e = f
  /\ \A e \in events :
       \/ e.fd = listen_fd_
       \/ /\ e.fd \in DOMAIN owner /\ owner[e.fd] = e.about
          /\ e.closed => e.readable /\ socket[e.about].end \in {"fin", "rst"}
  /\ pc \in {"poll", "event", "accept"} => current.id = 0
  /\ pc \in {"write", "decode"} => Live
  /\ Live => /\ Peer = current.about
             /\ \A e \in events : e.fd # This.fd
             /\ current.closed => /\ pc # "closed" /\ current.readable
                                  /\ socket[Peer].end \in {"fin", "rst"}

\* A stream is what was sent, as far as a reset has not destroyed it.
Whole(here, messages, end) ==
  here = Cells(messages) \/ (end = "rst" /\ Begins(here, Cells(messages)))

\* It is so for a peer's stream to the gateway.
Arrives(p, here) == Whole(here, sent[p], socket[p].end)

\* What a connection was sent: handled, buffered and still in the socket.
Stream(id) ==
  Cells(handled[PeerOf(id)]) \o by_id_[id].inbound \o socket[PeerOf(id)].in

\* Nothing is lost before accept or after it, a buffer holds a whole message
\* only while it is decoded, and a peer's FIN is seen only after all it sent.
InboundSound ==
  /\ \A p \in Peers : Begins(handled[p], sent[p])
  /\ \A p \in Peers : Fresh(p) => Arrives(p, socket[p].in)
  /\ \A id \in DOMAIN by_id_ : Arrives(PeerOf(id), Stream(id))
  /\ \A id \in DOMAIN by_id_ :
       \/ Len(by_id_[id].inbound) < 2
       \/ id = current.id /\ pc \in {"decode", "reply"}
  /\ \A p \in Peers : reason[p] \in {"closed", "hung up"} => handled[p] = sent[p]

\* What a connection's peer has, will be given by the kernel, and is yet to be
\* written.
Replies(id) ==
  got[PeerOf(id)] \o socket[PeerOf(id)].out \o Pending(by_id_[id])

\* A reply accepted by send() is the sender's own, and is in one of the three;
\* what the kernel holds of a closed connection still follows what the peer got.
OutboundSound ==
  /\ \A id \in DOMAIN by_id_ : Replies(id) = owing[PeerOf(id)]
  /\ \A p \in Peers :
       /\ \A i \in DOMAIN owing[p] : owing[p][i].to = p
       /\ Begins(got[p] \o socket[p].out, owing[p])
       /\ Len(socket[p].out) <= SocketRoom
  /\ \A id \in DOMAIN by_id_ : by_id_[id].outbound_sent <= Len(by_id_[id].outbound)

\* The inductive invariant.
GatewayInv ==
  /\ TypeOK /\ TablesAgree /\ Sessions /\ EventsAreCurrent
  /\ InboundSound /\ OutboundSound

-----------------------------------------------------------------------------
(* Streams: prefixes, cuts and message halves.                             *)

\* A prefix has the first elements of the sequence.
LEMMA PrefixMeans ==
  ASSUME NEW S, NEW s \in Seq(S), NEW t \in Seq(S)
  PROVE  Begins(s, t) <=> Len(s) <= Len(t) /\ \A i \in 1 .. Len(s) : s[i] = t[i]
<1>2. ASSUME Len(s) <= Len(t)
      PROVE  /\ SubSeq(t, 1, Len(s)) \in Seq(S)
             /\ Len(SubSeq(t, 1, Len(s))) = Len(s)
             /\ \A i \in 1 .. Len(s) : SubSeq(t, 1, Len(s))[i] = t[i]
  BY <1>2
<1>3. ASSUME Len(s) <= Len(t), \A i \in 1 .. Len(s) : s[i] = t[i]
      PROVE  SubSeq(t, 1, Len(s)) = s
  BY Zenon, <1>2, <1>3, SeqEqual
<1> QED
  BY Zenon, <1>2, <1>3 DEF Begins

\* A sequence is a prefix of whatever it is continued by.
LEMMA PrefixOfConcat ==
  ASSUME NEW S, NEW s \in Seq(S), NEW t \in Seq(S)
  PROVE  Begins(s, s \o t)
<1> DEFINE x == s \o t
<1>1. x \in Seq(S) /\ Len(s) <= Len(x) /\ \A i \in 1 .. Len(s) : s[i] = x[i]
  OBVIOUS
<1> HIDE DEF x
<1>2. Begins(s, x)
  BY Zenon, <1>1, PrefixMeans
<1> QED
  BY Zenon, <1>2 DEF x

\* A prefix of s is one of what s is continued by.
LEMMA PrefixExtends ==
  ASSUME NEW S, NEW s \in Seq(S), NEW t \in Seq(S), NEW u \in Seq(S),
         Begins(s, t)
  PROVE  Begins(s, t \o u)
<1> DEFINE x == t \o u
<1>1. Len(s) <= Len(t) /\ \A i \in 1 .. Len(s) : s[i] = t[i]
  BY PrefixMeans
<1>2. x \in Seq(S) /\ Len(s) <= Len(x) /\ \A i \in 1 .. Len(s) : s[i] = x[i]
  BY <1>1
<1> HIDE DEF x
<1>3. Begins(s, x)
  BY Zenon, <1>2, PrefixMeans
<1> QED
  BY Zenon, <1>3 DEF x

\* What a prefix starts with is a prefix.
LEMMA PrefixStarts ==
  ASSUME NEW S, NEW s \in Seq(S), NEW t \in Seq(S), NEW u \in Seq(S),
         Begins(s \o t, u)
  PROVE  Begins(s, u)
<1> DEFINE x == s \o t
<1>1. x \in Seq(S) /\ Len(s) <= Len(x) /\ \A i \in 1 .. Len(s) : x[i] = s[i]
  OBVIOUS
<1>2. Begins(x, u)
  OBVIOUS
<1> HIDE DEF x
<1>3. Len(x) <= Len(u) /\ \A i \in 1 .. Len(x) : x[i] = u[i]
  BY <1>1, <1>2, PrefixMeans
<1>4. Len(s) <= Len(u) /\ \A i \in 1 .. Len(s) : s[i] = u[i]
  BY <1>1, <1>3
<1> QED
  BY Zenon, <1>4, PrefixMeans

\* A prefix of a prefix is one.
LEMMA PrefixTransitive ==
  ASSUME NEW S, NEW s \in Seq(S), NEW t \in Seq(S), NEW u \in Seq(S),
         Begins(s, t), Begins(t, u)
  PROVE  Begins(s, u)
<1>1. Len(s) <= Len(t) /\ \A i \in 1 .. Len(s) : s[i] = t[i]
  BY PrefixMeans
<1>2. Len(t) <= Len(u) /\ \A i \in 1 .. Len(t) : t[i] = u[i]
  BY PrefixMeans
<1>3. Len(s) <= Len(u) /\ \A i \in 1 .. Len(s) : s[i] = u[i]
  BY <1>1, <1>2
<1> QED
  BY Zenon, <1>3, PrefixMeans

\* A stream cut in two is still the stream.
LEMMA CutInTwo ==
  ASSUME NEW S, NEW s \in Seq(S), NEW n \in 0 .. Len(s)
  PROVE  /\ SubSeq(s, 1, n) \in Seq(S) /\ SubSeq(s, n + 1, Len(s)) \in Seq(S)
         /\ SubSeq(s, 1, n) \o SubSeq(s, n + 1, Len(s)) = s
<1>1. SubSeq(s, 1, n) \in Seq(S) /\ SubSeq(s, n + 1, Len(s)) \in Seq(S)
  OBVIOUS
<1>2. SubSeq(s, 1, n) \o SubSeq(s, n + 1, Len(s)) = SubSeq(s, 1, Len(s))
  <2>1. /\ 1 \in 1 .. Len(s) + 1 /\ n \in 1 - 1 .. Len(s)
        /\ Len(s) \in n .. Len(s)
    OBVIOUS
  <2> QED
    BY Zenon, <2>1, ConcatAdjacentSubSeq
<1> QED
  BY Zenon, <1>1, <1>2, SubSeqFull

\* A message is two cells of the stream.
Halves(m) == [i \in 1 .. 2 |-> [message |-> m, part |-> i]]

\* The stream of a sequence of messages.
LEMMA CellsType ==
  ASSUME NEW s \in Seq(Messages)
  PROVE  /\ Cells(s) \in Seq(CellT) /\ Len(Cells(s)) = 2 * Len(s)
         /\ \A i \in 1 .. 2 * Len(s) :
              Cells(s)[i] = [message |-> s[(i + 1) \div 2], part |-> 2 - (i % 2)]
<1>1. ASSUME NEW i \in 1 .. 2 * Len(s)
      PROVE  (i + 1) \div 2 \in 1 .. Len(s) /\ 2 - (i % 2) \in 1 .. 2
  OBVIOUS
<1>2. 2 * Len(s) \in Nat
  OBVIOUS
<1>3. Cells(s) \in [1 .. 2 * Len(s) -> CellT]
  BY <1>1 DEF Cells, CellT
<1>4. Cells(s) \in Seq(CellT) /\ Len(Cells(s)) = 2 * Len(s)
  BY <1>2, <1>3
<1> QED
  BY Zenon, <1>4 DEF Cells

\* The halves of a message are cells.
LEMMA HalvesType ==
  ASSUME NEW m \in Messages
  PROVE  /\ Halves(m) \in Seq(CellT) /\ Len(Halves(m)) = 2
         /\ Halves(m)[1] = [message |-> m, part |-> 1]
         /\ Halves(m)[2] = [message |-> m, part |-> 2]
<1>1. Halves(m) \in [1 .. 2 -> CellT]
  BY Zenon DEF Halves, CellT
<1> QED
  BY <1>1 DEF Halves

\* One message more is its two halves more.
LEMMA CellsAppend ==
  ASSUME NEW s \in Seq(Messages), NEW m \in Messages
  PROVE  Cells(Append(s, m)) = Cells(s) \o Halves(m)
<1> DEFINE a == Cells(Append(s, m))
           b == Cells(s) \o Halves(m)
<1>1. Append(s, m) \in Seq(Messages) /\ Len(Append(s, m)) = Len(s) + 1
  OBVIOUS
<1>2. /\ a \in Seq(CellT) /\ Len(a) = 2 * Len(s) + 2
      /\ \A i \in 1 .. 2 * Len(s) + 2 :
           a[i] = [message |-> Append(s, m)[(i + 1) \div 2], part |-> 2 - (i % 2)]
  <2>1. 2 * Len(Append(s, m)) = 2 * Len(s) + 2
    BY <1>1
  <2> QED
    BY Zenon, <1>1, <2>1, CellsType
<1>3. /\ b \in Seq(CellT) /\ Len(b) = 2 * Len(s) + 2
      /\ \A i \in 1 .. 2 * Len(s) + 2 :
           b[i] = IF i <= 2 * Len(s) THEN Cells(s)[i] ELSE Halves(m)[i - 2 * Len(s)]
  <2>1. Cells(s) \in Seq(CellT) /\ Len(Cells(s)) = 2 * Len(s)
    BY Zenon, CellsType
  <2>2. Halves(m) \in Seq(CellT) /\ Len(Halves(m)) = 2
    BY Zenon, HalvesType
  <2> QED
    <3>1. /\ b \in Seq(CellT) /\ Len(b) = Len(Cells(s)) + Len(Halves(m))
          /\ \A i \in 1 .. Len(Cells(s)) + Len(Halves(m)) :
               b[i] = IF i <= Len(Cells(s)) THEN Cells(s)[i]
                      ELSE Halves(m)[i - Len(Cells(s))]
      BY Zenon, <2>1, <2>2, ConcatProperties
    <3> QED
      BY Zenon, <2>1, <2>2, <3>1
<1> HIDE DEF a, b
<1>4. ASSUME NEW i \in 1 .. 2 * Len(s) + 2 PROVE a[i] = b[i]
  <2>1. CASE i <= 2 * Len(s)
    <3>1. (i + 1) \div 2 \in 1 .. Len(s)
      BY <2>1
    <3>2. Append(s, m)[(i + 1) \div 2] = s[(i + 1) \div 2]
      BY <3>1
    <3>3. Cells(s)[i] = [message |-> s[(i + 1) \div 2], part |-> 2 - (i % 2)]
      BY <2>1, CellsType
    <3> QED
      BY Zenon, <2>1, <3>2, <3>3, <1>2, <1>3
  <2>2. CASE i = 2 * Len(s) + 1
    <3>1. (i + 1) \div 2 = Len(s) + 1 /\ 2 - (i % 2) = 1 /\ i - 2 * Len(s) = 1
      BY <2>2
    <3>2. Append(s, m)[Len(s) + 1] = m
      OBVIOUS
    <3> QED
      <4>1. a[i] = [message |-> m, part |-> 1]
        BY Zenon, <3>1, <3>2, <1>2
      <4>2. b[i] = Halves(m)[1]
        <5>1. ~(i <= 2 * Len(s))
          BY <2>2
        <5> QED
          BY Zenon, <5>1, <3>1, <1>3
      <4> QED
        BY Zenon, <4>1, <4>2, HalvesType
  <2>3. CASE i = 2 * Len(s) + 2
    <3>1. (i + 1) \div 2 = Len(s) + 1 /\ 2 - (i % 2) = 2 /\ i - 2 * Len(s) = 2
      BY <2>3
    <3>2. Append(s, m)[Len(s) + 1] = m
      OBVIOUS
    <3> QED
      <4>1. a[i] = [message |-> m, part |-> 2]
        BY Zenon, <3>1, <3>2, <1>2
      <4>2. b[i] = Halves(m)[2]
        <5>1. ~(i <= 2 * Len(s))
          BY <2>3
        <5> QED
          BY Zenon, <5>1, <3>1, <1>3
      <4> QED
        BY Zenon, <4>1, <4>2, HalvesType
  <2> QED
    <3>1. i <= 2 * Len(s) \/ i = 2 * Len(s) + 1 \/ i = 2 * Len(s) + 2
      OBVIOUS
    <3> QED
      BY Zenon, <3>1, <2>1, <2>2, <2>3
<1> QED
  BY Zenon, <1>2, <1>3, <1>4, SeqEqual DEF a, b

\* A stream of whole messages is the stream of those messages only.
LEMMA CellsInjective ==
  ASSUME NEW s \in Seq(Messages), NEW t \in Seq(Messages), Cells(s) = Cells(t)
  PROVE  s = t
<1>1. Len(s) = Len(t)
  BY CellsType
<1>2. ASSUME NEW i \in 1 .. Len(s) PROVE s[i] = t[i]
  <2>1. 2 * i \in 1 .. 2 * Len(s) /\ (2 * i + 1) \div 2 = i
    OBVIOUS
  <2>2. Cells(s)[2 * i].message = s[i] /\ Cells(t)[2 * i].message = t[i]
    <3>1. /\ Cells(s)[2 * i] = [message |-> s[i], part |-> 2 - ((2 * i) % 2)]
          /\ Cells(t)[2 * i] = [message |-> t[i], part |-> 2 - ((2 * i) % 2)]
      BY Zenon, <1>1, <2>1, CellsType
    <3> QED
      BY <3>1
  <2> QED
    BY Zenon, <2>2
<1> QED
  BY Zenon, <1>1, <1>2, SeqEqual

\* Equality, kept from rewriting the streams it is about.
Same(s, t) == s = t

\* Where a stream is cut makes no difference.
LEMMA Associative ==
  ASSUME NEW S, NEW a \in Seq(S), NEW b \in Seq(S), NEW c \in Seq(S)
  PROVE  Same((a \o b) \o c, a \o (b \o c))
BY ConcatAssociative DEF Same

\* The third stream of three follows the other two.
LEMMA ThreeStreams ==
  ASSUME NEW S, NEW a \in Seq(S), NEW b \in Seq(S), NEW c \in Seq(S)
  PROVE  /\ (a \o b) \o c \in Seq(S)
         /\ Len((a \o b) \o c) = Len(a) + Len(b) + Len(c)
         /\ \A i \in 1 .. Len(b) : ((a \o b) \o c)[Len(a) + i] = b[i]
<1>1. a \o b \in Seq(S) /\ Len(a \o b) = Len(a) + Len(b)
      /\ \A i \in 1 .. Len(b) : (a \o b)[Len(a) + i] = b[i]
  OBVIOUS
<1>2. (a \o b) \o c \in Seq(S) /\ Len((a \o b) \o c) = Len(a \o b) + Len(c)
      /\ \A i \in 1 .. Len(a \o b) : ((a \o b) \o c)[i] = (a \o b)[i]
  BY <1>1
<1> QED
  BY <1>1, <1>2

\* Two cells at the front of a buffer, when all that was handled, the buffer
\* and the rest of the stream are what was sent, are the halves of the first
\* message not handled; taking them out leaves the stream as it was.
LEMMA NextMessage ==
  ASSUME NEW h \in Seq(Messages), NEW s \in Seq(Messages),
         NEW b \in Seq(CellT), NEW r \in Seq(CellT), Begins(h, s),
         Begins((Cells(h) \o b) \o r, Cells(s)), Len(b) >= 2
  PROVE  /\ b[1].message \in Messages
         /\ Begins(Append(h, b[1].message), s)
         /\ Same((Cells(Append(h, b[1].message)) \o SubSeq(b, 3, Len(b))) \o r,
                 (Cells(h) \o b) \o r)
<1> DEFINE x == (Cells(h) \o b) \o r
           k == Len(h)
           m == s[k + 1]
           rest == SubSeq(b, 3, Len(b))
<1>0. Cells(h) \in Seq(CellT) /\ Cells(s) \in Seq(CellT)
  BY Zenon, CellsType
<1>1. Len(Cells(h)) = 2 * k /\ Len(Cells(s)) = 2 * Len(s)
  BY Zenon, CellsType
<1>2. /\ x \in Seq(CellT) /\ Len(x) = 2 * k + Len(b) + Len(r)
      /\ x[2 * k + 1] = b[1] /\ x[2 * k + 2] = b[2]
  <2>1. /\ x \in Seq(CellT) /\ Len(x) = Len(Cells(h)) + Len(b) + Len(r)
        /\ \A i \in 1 .. Len(b) : x[Len(Cells(h)) + i] = b[i]
    BY SMT, <1>0
  <2>2. 1 \in 1 .. Len(b) /\ 2 \in 1 .. Len(b)
    OBVIOUS
  <2> QED
    BY Zenon, <2>1, <2>2, <1>1
<1>3. Len(x) <= Len(Cells(s)) /\ \A i \in 1 .. Len(x) : x[i] = Cells(s)[i]
  <2>1. x \in Seq(CellT) /\ Begins(x, Cells(s))
    BY Zenon, <1>2
  <2> HIDE DEF x
  <2> QED
    BY SMT, <2>1, <1>0, PrefixMeans
<1> HIDE DEF x
<1>4. k + 1 \in 1 .. Len(s) /\ k \in Nat /\ m \in Messages
  BY <1>1, <1>2, <1>3
<1>5. /\ 2 * k + 1 \in 1 .. Len(x) /\ 2 * k + 1 \in 1 .. 2 * Len(s)
      /\ 2 * k + 2 \in 1 .. Len(x) /\ 2 * k + 2 \in 1 .. 2 * Len(s)
      /\ ((2 * k + 1) + 1) \div 2 = k + 1 /\ ((2 * k + 2) + 1) \div 2 = k + 1
      /\ 2 - ((2 * k + 1) % 2) = 1 /\ 2 - ((2 * k + 2) % 2) = 2
  <2>1. 2 * k + 2 <= Len(x) /\ 2 * k + 2 <= 2 * Len(s) /\ Len(x) \in Nat
    BY <1>1, <1>2, <1>3
  <2> HIDE DEF k
  <2>2. /\ ((2 * k + 1) + 1) \div 2 = k + 1 /\ ((2 * k + 2) + 1) \div 2 = k + 1
        /\ 2 - ((2 * k + 1) % 2) = 1 /\ 2 - ((2 * k + 2) % 2) = 2
    BY <1>4
  <2>3. /\ 2 * k + 1 \in 1 .. Len(x) /\ 2 * k + 1 \in 1 .. 2 * Len(s)
        /\ 2 * k + 2 \in 1 .. Len(x) /\ 2 * k + 2 \in 1 .. 2 * Len(s)
    BY <1>4, <2>1
  <2> QED
    BY Zenon, <2>2, <2>3
<1> HIDE DEF k
<1>6. /\ Cells(s)[2 * k + 1] = [message |-> m, part |-> 1]
      /\ Cells(s)[2 * k + 2] = [message |-> m, part |-> 2]
  BY Zenon, <1>5, CellsType
<1>7. b[1] = [message |-> m, part |-> 1] /\ b[2] = [message |-> m, part |-> 2]
  BY Zenon, <1>2, <1>3, <1>5, <1>6
<1>8. b[1].message = m
  BY <1>7
<1>9. Begins(Append(h, m), s)
  <2>1. Len(h) <= Len(s) /\ \A i \in 1 .. Len(h) : h[i] = s[i]
    BY PrefixMeans
  <2>2. Append(h, m) \in Seq(Messages) /\ Len(Append(h, m)) = k + 1
    BY <1>4 DEF k
  <2>3. \A i \in 1 .. k + 1 : Append(h, m)[i] = s[i]
    BY <1>4, <2>1 DEF k
  <2>4. k + 1 <= Len(s)
    BY <1>4
  <2> QED
    BY Zenon, <2>2, <2>3, <2>4, PrefixMeans
<1>10. b = Halves(m) \o rest /\ rest \in Seq(CellT)
  <2>1. SubSeq(b, 1, 2) \in Seq(CellT) /\ rest \in Seq(CellT)
        /\ SubSeq(b, 1, 2) \o rest = b
    <3>1. 2 \in 0 .. Len(b) /\ 2 + 1 = 3
      OBVIOUS
    <3> QED
      BY Zenon, <3>1, CutInTwo
  <2>2. Len(SubSeq(b, 1, 2)) = 2 /\ SubSeq(b, 1, 2)[1] = b[1]
        /\ SubSeq(b, 1, 2)[2] = b[2]
    OBVIOUS
  <2>3. Halves(m) \in Seq(CellT) /\ Len(Halves(m)) = 2
        /\ Halves(m)[1] = b[1] /\ Halves(m)[2] = b[2]
    BY Zenon, <1>4, <1>7, HalvesType
  <2>4. \A i \in 1 .. 2 : SubSeq(b, 1, 2)[i] = Halves(m)[i]
    BY <2>2, <2>3
  <2>5. SubSeq(b, 1, 2) = Halves(m)
    BY Zenon, <2>1, <2>2, <2>3, <2>4, SeqEqual
  <2> QED
    BY Zenon, <2>1, <2>5
<1>11. Same((Cells(Append(h, m)) \o rest) \o r, (Cells(h) \o b) \o r)
  <2> HIDE DEF m, rest
  <2>1. Cells(Append(h, m)) = Cells(h) \o Halves(m)
    BY Zenon, <1>4, CellsAppend
  <2>2. (Cells(h) \o Halves(m)) \o rest = Cells(h) \o (Halves(m) \o rest)
    <3>1. Same((Cells(h) \o Halves(m)) \o rest, Cells(h) \o (Halves(m) \o rest))
      BY Zenon, <1>0, <1>4, <1>10, HalvesType, Associative
    <3> QED
      BY Zenon, <3>1 DEF Same
  <2> QED
    BY Zenon, <2>1, <2>2, <1>10 DEF Same
<1> QED
  BY Zenon, <1>4, <1>8, <1>9, <1>11

\* A message sent adds its halves to the end of the stream.
LEMMA StreamGrows ==
  ASSUME NEW s \in Seq(Messages), NEW m \in Messages,
         NEW a \in Seq(CellT), NEW b \in Seq(CellT), a \o b = Cells(s)
  PROVE  a \o (b \o Halves(m)) = Cells(Append(s, m))
<1>1. Same((a \o b) \o Halves(m), a \o (b \o Halves(m)))
  BY Zenon, HalvesType, Associative
<1>2. Cells(Append(s, m)) = Cells(s) \o Halves(m)
  BY Zenon, CellsAppend
<1> QED
  BY Zenon, <1>1, <1>2 DEF Same

\* A reset leaves a prefix of the stream.
LEMMA StreamCut ==
  ASSUME NEW a \in Seq(CellT), NEW b \in Seq(CellT), NEW n \in 0 .. Len(b)
  PROVE  Begins(a \o SubSeq(b, 1, n), a \o b)
<1> DEFINE x == a \o SubSeq(b, 1, n)
           y == a \o b
<1>1. SubSeq(b, 1, n) \in Seq(CellT) /\ Len(SubSeq(b, 1, n)) = n
      /\ \A i \in 1 .. n : SubSeq(b, 1, n)[i] = b[i]
  OBVIOUS
<1>2. x \in Seq(CellT) /\ y \in Seq(CellT) /\ Len(x) <= Len(y)
  BY <1>1
<1>3. \A i \in 1 .. Len(x) : x[i] = y[i]
  BY <1>1
<1> HIDE DEF x, y
<1>4. Begins(x, y)
  BY Zenon, <1>2, <1>3, PrefixMeans
<1> QED
  BY Zenon, <1>4 DEF x, y

\* Reading one reply moves it from the kernel to the peer.
LEMMA OneRead ==
  ASSUME NEW S, NEW g \in Seq(S), NEW o \in Seq(S), o # << >>
  PROVE  /\ Append(g, Head(o)) \in Seq(S) /\ Tail(o) \in Seq(S)
         /\ Append(g, Head(o)) \o Tail(o) = g \o o
<1>1. Head(o) \in S /\ Tail(o) \in Seq(S)
  OBVIOUS
<1>2. Append(g, Head(o)) \in Seq(S) /\ Len(Append(g, Head(o))) = Len(g) + 1
      /\ Append(g, Head(o))[Len(g) + 1] = Head(o)
      /\ \A i \in 1 .. Len(g) : Append(g, Head(o))[i] = g[i]
  BY <1>1
<1> DEFINE a == Append(g, Head(o))
           b == Tail(o)
<1>3. Len(b) = Len(o) - 1 /\ \A i \in 1 .. Len(o) - 1 : b[i] = o[i + 1]
  OBVIOUS
<1>4. Head(o) = o[1]
  OBVIOUS
<1> HIDE DEF a, b
<1>5. a \o b = g \o o
  <2> DEFINE x == a \o b
             y == g \o o
  <2>1. /\ a \in Seq(S) /\ Len(a) = Len(g) + 1 /\ a[Len(g) + 1] = o[1]
        /\ \A i \in 1 .. Len(g) : a[i] = g[i]
    BY Zenon, <1>2, <1>4 DEF a
  <2>2. b \in Seq(S)
    BY Zenon, <1>1 DEF b
  <2>3. /\ x \in Seq(S) /\ Len(x) = Len(a) + Len(b)
        /\ \A i \in 1 .. Len(a) + Len(b) :
             x[i] = IF i <= Len(a) THEN a[i] ELSE b[i - Len(a)]
    BY Zenon, <2>1, <2>2, ConcatProperties
  <2>4. /\ y \in Seq(S) /\ Len(y) = Len(g) + Len(o)
        /\ \A i \in 1 .. Len(g) + Len(o) :
             y[i] = IF i <= Len(g) THEN g[i] ELSE o[i - Len(g)]
    BY Zenon, ConcatProperties
  <2> HIDE DEF x, y
  <2>6. Len(g) \in Nat /\ Len(o) \in Nat
    OBVIOUS
  <2>7. Len(x) = Len(y) /\ Len(a) + Len(b) = Len(g) + Len(o)
    BY <2>1, <2>3, <2>4, <2>6, <1>3
  <2>8. ASSUME NEW i \in 1 .. Len(x) PROVE x[i] = y[i]
    <3>1. CASE i <= Len(g)
      <4>1. x[i] = a[i]
        BY <3>1, <2>1, <2>3, <2>6
      <4>2. y[i] = g[i]
        BY Zenon, <3>1, <2>4, <2>6, <2>7
      <4> QED
        BY <3>1, <4>1, <4>2, <2>1, <2>6
    <3>2. CASE i = Len(g) + 1
      BY <3>2, <2>1, <2>3, <2>4, <2>6, <2>7
    <3>3. CASE i > Len(g) + 1
      <4>1. x[i] = b[i - Len(a)]
        BY <3>3, <2>1, <2>3, <2>6
      <4>2. y[i] = o[i - Len(g)]
        BY <3>3, <2>4, <2>6, <2>7
      <4>3. i - Len(a) \in 1 .. Len(o) - 1 /\ (i - Len(a)) + 1 = i - Len(g)
        BY <3>3, <2>1, <2>4, <2>6, <2>7
      <4> QED
        BY Zenon, <4>1, <4>2, <4>3, <1>3
    <3> QED
      BY <3>1, <3>2, <3>3, <2>6, <2>7
  <2>5. x = y
    BY Zenon, <2>3, <2>4, <2>7, <2>8, SeqEqual
  <2> QED
    BY Zenon, <2>5 DEF x, y
<1> QED
  BY Zenon, <1>1, <1>2, <1>5 DEF a, b

-----------------------------------------------------------------------------
(* Connections and their peers.                                            *)

\* A connection has a descriptor of its own, and with it a peer of its own.
LEMMA PeersOfConnections ==
  ASSUME TypeOK, TablesAgree, Sessions
  PROVE  /\ \A id \in DOMAIN by_id_ :
              /\ by_id_[id].fd \in DOMAIN owner /\ by_id_[id].fd \in Fds
              /\ PeerOf(id) \in Peers /\ Connected(PeerOf(id))
         /\ \A i, j \in DOMAIN by_id_ : by_id_[i].fd = by_id_[j].fd => i = j
         /\ \A i, j \in DOMAIN by_id_ : PeerOf(i) = PeerOf(j) => i = j
         /\ 0 \notin DOMAIN by_id_ /\ next_id_ \notin DOMAIN by_id_
<1>1. \A id \in DOMAIN by_id_ : by_id_[id].fd \in DOMAIN owner
  BY Zenon DEF TablesAgree
<1>2. \A id \in DOMAIN by_id_ : by_id_[id].fd \in Fds
  BY Zenon DEF TypeOK, ConnectionT
<1>3. \A fd \in DOMAIN owner : owner[fd] \in Peers
  BY Zenon DEF TypeOK
<1>4. \A i, j \in DOMAIN by_id_ : by_id_[i].fd = by_id_[j].fd => i = j
  BY Zenon DEF TablesAgree
<1>5. \A f, g \in DOMAIN owner : owner[f] = owner[g] => f = g
  BY Zenon DEF Sessions
<1>6. 0 \notin DOMAIN by_id_ /\ next_id_ \notin DOMAIN by_id_
  <2>1. next_id_ \in Nat \ {0} /\ DOMAIN by_id_ \subseteq 1 .. next_id_ - 1
    BY Zenon DEF TypeOK
  <2> QED
    BY <2>1
<1> QED
  BY Zenon, <1>1, <1>2, <1>3, <1>4, <1>5, <1>6 DEF PeerOf, Connected

\* What close_connection leaves of the tables: every connection but one.
LEMMA CloseLeaves ==
  ASSUME TypeOK, TablesAgree, Sessions, Live, NEW why, close_connection(why)
  PROVE  /\ Peer \in Peers /\ Peer = PeerOf(current.id)
         /\ DOMAIN by_id_' = DOMAIN by_id_ \ {current.id}
         /\ DOMAIN owner' = DOMAIN owner \ {This.fd}
         /\ \A fd \in DOMAIN owner' : owner'[fd] = owner[fd] /\ owner[fd] # Peer
         /\ \A id \in DOMAIN by_id_' :
              /\ by_id_'[id] = by_id_[id] /\ PeerOf(id)' = PeerOf(id)
              /\ PeerOf(id) # Peer
         /\ TablesAgree'
<1>1. current.id \in DOMAIN by_id_ /\ This.fd \in DOMAIN owner
  BY Zenon, PeersOfConnections DEF Live, This
<1>2. Peer \in Peers /\ Peer = PeerOf(current.id)
  BY Zenon, PeersOfConnections DEF Live, This, Peer, PeerOf
<1>3. /\ DOMAIN by_id_' = DOMAIN by_id_ \ {current.id}
      /\ DOMAIN owner' = DOMAIN owner \ {This.fd}
      /\ DOMAIN by_fd_' = DOMAIN by_fd_ \ {This.fd}
      /\ DOMAIN interest' = DOMAIN interest \ {This.fd}
      /\ \A id \in DOMAIN by_id_' : by_id_'[id] = by_id_[id]
      /\ \A fd \in DOMAIN owner' : owner'[fd] = owner[fd]
      /\ \A fd \in DOMAIN by_fd_' : by_fd_'[fd] = by_fd_[fd]
  BY Zenon DEF close_connection, Without
<1>4. \A fd \in DOMAIN owner' : owner[fd] # Peer
  <2>1. \A f, g \in DOMAIN owner : owner[f] = owner[g] => f = g
    BY Zenon DEF Sessions
  <2> QED
    BY Zenon, <2>1, <1>1, <1>3 DEF Peer
<1>5. \A id \in DOMAIN by_id_' :
        /\ id \in DOMAIN by_id_ /\ by_id_[id].fd # This.fd
        /\ by_id_[id].fd \in DOMAIN owner'
  BY Zenon, <1>1, <1>3, PeersOfConnections DEF This
<1>6. \A id \in DOMAIN by_id_' : PeerOf(id)' = PeerOf(id) /\ PeerOf(id) # Peer
  BY Zenon, <1>3, <1>4, <1>5 DEF PeerOf
<1>7. TablesAgree'
  <2>1. DOMAIN by_fd_' = {by_id_'[id].fd : id \in DOMAIN by_id_'}
    <3>1. \A fd : fd \in DOMAIN by_fd_ <=> \E id \in DOMAIN by_id_ : fd = by_id_[id].fd
      BY Zenon DEF TablesAgree
    <3>2. \A fd : fd \in DOMAIN by_fd_' <=>
             \E id \in DOMAIN by_id_' : fd = by_id_'[id].fd
      <4>1. ASSUME NEW fd \in DOMAIN by_fd_'
            PROVE  \E id \in DOMAIN by_id_' : fd = by_id_'[id].fd
        <5>1. PICK id \in DOMAIN by_id_ : fd = by_id_[id].fd
          BY Zenon, <3>1, <4>1, <1>3
        <5>2. id \in DOMAIN by_id_'
          BY Zenon, <5>1, <4>1, <1>3 DEF This
        <5> QED
          BY Zenon, <5>1, <5>2, <1>3
      <4>2. ASSUME NEW id \in DOMAIN by_id_' PROVE by_id_'[id].fd \in DOMAIN by_fd_'
        BY Zenon, <3>1, <1>3, <1>5
      <4> QED
        BY Zenon, <4>1, <4>2
    <3> QED
      BY Zenon, <3>2
  <2>2. \A id \in DOMAIN by_id_' : by_fd_'[by_id_'[id].fd] = id
    <3>1. DOMAIN owner = DOMAIN by_fd_
      BY Zenon DEF TablesAgree
    <3>2. \A id \in DOMAIN by_id_ : by_fd_[by_id_[id].fd] = id
      BY Zenon DEF TablesAgree
    <3> QED
      BY ZenonT(30), <1>3, <1>5, <3>1, <3>2
  <2>3. DOMAIN owner' = DOMAIN by_fd_'
        /\ DOMAIN interest' = DOMAIN by_fd_' \cup {listen_fd_}
    <3>1. This.fd # listen_fd_
      <4>1. DOMAIN owner \subseteq Fds
        BY Zenon DEF TypeOK
      <4> QED
        BY Zenon, <4>1, <1>1, GatewayAssumption
    <3> QED
      BY Zenon, <3>1, <1>3 DEF TablesAgree
  <2> QED
    BY Zenon, <2>1, <2>2, <2>3 DEF TablesAgree
<1> QED
  BY Zenon, <1>2, <1>3, <1>4, <1>6, <1>7

\* Replies accepted for the peer being serviced: at most one more.
OwesMore ==
  \/ owing' = owing
  \/ \E r \in ReplyT : r.to = Peer /\ owing' = [owing EXCEPT ![Peer] = Append(@, r)]

\* Every reply owed to the peer is still its own, and what it has and the kernel
\* holds for it is still the beginning of them.
LEMMA OwesMoreMeans ==
  ASSUME TypeOK, OutboundSound, Peer \in Peers, OwesMore
  PROVE  /\ owing' \in [Peers -> Seq(ReplyT)]
         /\ \A p \in Peers : p # Peer => owing'[p] = owing[p]
         /\ \A i \in DOMAIN owing'[Peer] : owing'[Peer][i].to = Peer
         /\ Begins(got[Peer] \o socket[Peer].out, owing'[Peer])
<1>1. CASE owing' = owing
  BY Zenon, <1>1 DEF TypeOK, OutboundSound
<1>2. ASSUME NEW r \in ReplyT, r.to = Peer,
             owing' = [owing EXCEPT ![Peer] = Append(@, r)]
      PROVE  /\ owing' \in [Peers -> Seq(ReplyT)]
             /\ \A p \in Peers : p # Peer => owing'[p] = owing[p]
             /\ \A i \in DOMAIN owing'[Peer] : owing'[Peer][i].to = Peer
             /\ Begins(got[Peer] \o socket[Peer].out, owing'[Peer])
  <2>1. /\ owing \in [Peers -> Seq(ReplyT)] /\ got[Peer] \in Seq(ReplyT)
        /\ socket[Peer].out \in Seq(ReplyT)
    BY Zenon DEF TypeOK, SocketT
  <2>2. /\ \A i \in DOMAIN owing[Peer] : owing[Peer][i].to = Peer
        /\ Begins(got[Peer] \o socket[Peer].out, owing[Peer])
    BY Zenon DEF OutboundSound
  <2>3. /\ owing' \in [Peers -> Seq(ReplyT)] /\ owing'[Peer] = Append(owing[Peer], r)
        /\ \A p \in Peers : p # Peer => owing'[p] = owing[p]
    BY <2>1, <1>2
  <2>4. \A i \in DOMAIN owing'[Peer] : owing'[Peer][i].to = Peer
    <3>1. owing[Peer] \in Seq(ReplyT)
      BY Zenon, <2>1
    <3> QED
      BY <3>1, <2>2, <2>3, <1>2
  <2>5. Begins(got[Peer] \o socket[Peer].out, owing'[Peer])
    <3>1. got[Peer] \o socket[Peer].out \in Seq(ReplyT) /\ <<r>> \in Seq(ReplyT)
      BY <2>1
    <3>2. owing'[Peer] = owing[Peer] \o <<r>> /\ owing[Peer] \in Seq(ReplyT)
      BY ZenonT(30), <2>1, <2>3, AppendIsConcat
    <3> QED
      BY Zenon, <2>2, <3>1, <3>2, PrefixExtends
  <2> QED
    BY Zenon, <2>3, <2>4, <2>5
<1> QED
  BY Zenon, <1>1, <1>2 DEF OwesMore

\* Closing the connection being serviced, wherever a handler does it, keeps the
\* invariant: the others are untouched and no event is left for its descriptor.
LEMMA CloseKeeps ==
  ASSUME GatewayInv, Live, NEW why \in Reasons, close_connection(why),
         why \in {"closed", "hung up"} => handled[Peer] = sent[Peer],
         UNCHANGED <<events, backlog, socket, sent, handled, got>>, OwesMore,
         current' \in {current, Nobody}, owed' \in Nat,
         pc' \in {"read", "reply", "closed"} \/ (pc' = "event" /\ current' = Nobody)
  PROVE  GatewayInv'
<1> USE DEF GatewayInv
<1>1. /\ Peer \in Peers /\ Peer = PeerOf(current.id)
      /\ DOMAIN by_id_' = DOMAIN by_id_ \ {current.id}
      /\ DOMAIN owner' = DOMAIN owner \ {This.fd}
      /\ \A fd \in DOMAIN owner' : owner'[fd] = owner[fd] /\ owner[fd] # Peer
      /\ \A id \in DOMAIN by_id_' :
           /\ by_id_'[id] = by_id_[id] /\ PeerOf(id)' = PeerOf(id)
           /\ PeerOf(id) # Peer
      /\ TablesAgree'
  BY Zenon, CloseLeaves
<1>2. \A q \in Peers : reason'[q] = IF q = Peer THEN why ELSE reason[q]
  BY Zenon DEF close_connection, TypeOK
<1>a. /\ owing' \in [Peers -> Seq(ReplyT)]
      /\ \A p \in Peers : p # Peer => owing'[p] = owing[p]
      /\ \A i \in DOMAIN owing'[Peer] : owing'[Peer][i].to = Peer
      /\ Begins(got[Peer] \o socket[Peer].out, owing'[Peer])
  BY Zenon, <1>1, OwesMoreMeans
<1>3. ~Live'
  <2>1. 0 \notin DOMAIN by_id_
    BY Zenon, PeersOfConnections
  <2>2. current'.id = current.id \/ current'.id = 0
    <3>1. Nobody.id = 0
      BY Zenon DEF Nobody
    <3> QED
      BY Zenon, <3>1
  <2> QED
    BY Zenon, <2>1, <2>2, <1>1 DEF Live
<1>4. TypeOK'
  <2>1. /\ by_id_' \in [DOMAIN by_id_' -> ConnectionT]
        /\ by_fd_' \in [DOMAIN by_fd_' -> Nat]
        /\ owner' \in [DOMAIN owner' -> Peers]
    BY Zenon DEF close_connection, Without, TypeOK
  <2>2. next_id_' = next_id_ /\ reason' \in [Peers -> Reasons]
    BY Zenon DEF close_connection, TypeOK
  <2>3. Nobody \in [id : Nat, readable : BOOLEAN, closed : BOOLEAN,
                    about : Peers \cup {NoOne}]
    BY Zenon DEF Nobody
  <2>4. current' \in [id : Nat, readable : BOOLEAN, closed : BOOLEAN,
                      about : Peers \cup {NoOne}]
    BY Zenon, <2>3 DEF TypeOK
  <2>5. DOMAIN by_id_' \subseteq 1 .. next_id_ - 1 /\ DOMAIN owner' \subseteq Fds
    BY Zenon, <1>1 DEF TypeOK
  <2>6. pc' \in {"poll", "event", "accept", "write", "read", "decode", "reply", "closed"}
    BY Zenon
  <2> QED
    BY Zenon, <1>a, <2>1, <2>2, <2>4, <2>5, <2>6 DEF TypeOK
<1>5. Sessions'
  <2>1. ASSUME NEW p \in Peers PROVE Connected(p)' => Connected(p) /\ p # Peer
    BY Zenon, <1>1 DEF Connected
  <2>2. \A p \in Peers : Fresh(p)' <=> Fresh(p)
    BY Zenon DEF Fresh, Waiting
  <2>3. \A p \in Peers : Waiting(p)' <=> Waiting(p)
    BY Zenon DEF Waiting
  <2>4. Connected(Peer) /\ ~Fresh(Peer)
    BY Zenon, <1>1, PeersOfConnections DEF Live, Sessions
  <2>5. \A f, g \in DOMAIN owner' : owner'[f] = owner'[g] => f = g
    BY ZenonT(30), <1>1 DEF Sessions
  <2> QED
    BY ZenonT(30), <1>a, <1>2, <2>1, <2>2, <2>3, <2>4, <2>5 DEF Sessions
<1>6. EventsAreCurrent'
  <2>1. \A e \in events : e.fd # This.fd
    BY Zenon DEF EventsAreCurrent
  <2>2. ASSUME NEW e \in events, e.fd # listen_fd_
        PROVE  /\ e.fd \in DOMAIN owner' /\ owner'[e.fd] = e.about
               /\ e.closed => e.readable /\ socket[e.about].end \in {"fin", "rst"}
    BY ZenonT(30), <2>1, <2>2, <1>1 DEF EventsAreCurrent
  <2>3. pc' \in {"poll", "event", "accept"} => current'.id = 0
    <3>1. Nobody.id = 0
      BY Zenon DEF Nobody
    <3>2. pc' \in {"poll", "event", "accept"} => current' = Nobody
      BY Zenon
    <3> QED
      BY Zenon, <3>1, <3>2
  <2>4. pc' \notin {"write", "decode"}
    BY Zenon
  <2> QED
    BY Zenon, <1>3, <2>2, <2>3, <2>4 DEF EventsAreCurrent
<1>7. InboundSound'
  <2>1. \A id \in DOMAIN by_id_' : Arrives(PeerOf(id), Stream(id))'
    <3> SUFFICES ASSUME NEW id \in DOMAIN by_id_'
                 PROVE  Arrives(PeerOf(id), Stream(id))'
      BY Zenon
    <3>1. id \in DOMAIN by_id_ /\ PeerOf(id)' = PeerOf(id) /\ by_id_'[id] = by_id_[id]
      BY Zenon, <1>1
    <3>2. Stream(id)' = Stream(id)
      BY Zenon, <3>1 DEF Stream
    <3> QED
      BY Zenon, <3>1, <3>2 DEF InboundSound, Arrives
  <2>2. \A p \in Peers : Fresh(p)' => Arrives(p, socket[p].in)'
    BY Zenon DEF InboundSound, Fresh, Waiting, Arrives
  <2>3. \A id \in DOMAIN by_id_' : Len(by_id_'[id].inbound) < 2
    BY Zenon, <1>1 DEF InboundSound
  <2>4. \A p \in Peers : reason'[p] \in {"closed", "hung up"} => handled[p] = sent[p]
    BY Zenon, <1>1, <1>2 DEF InboundSound
  <2> QED
    BY Zenon, <2>1, <2>2, <2>3, <2>4 DEF InboundSound
<1>8. OutboundSound'
  <2>1. \A id \in DOMAIN by_id_' : (Replies(id) = owing[PeerOf(id)])'
    <3> SUFFICES ASSUME NEW id \in DOMAIN by_id_'
                 PROVE  (Replies(id) = owing[PeerOf(id)])'
      BY Zenon
    <3>1. id \in DOMAIN by_id_ /\ PeerOf(id)' = PeerOf(id) /\ by_id_'[id] = by_id_[id]
      BY Zenon, <1>1
    <3>2. Replies(id)' = Replies(id)
      BY Zenon, <3>1 DEF Replies, Pending
    <3>3. PeerOf(id) \in Peers /\ PeerOf(id) # Peer
      BY Zenon, <3>1, <1>1, PeersOfConnections
    <3> QED
      BY Zenon, <3>1, <3>2, <3>3, <1>a DEF OutboundSound
  <2>2. \A p \in Peers : /\ \A i \in DOMAIN owing'[p] : owing'[p][i].to = p
                         /\ Begins(got[p] \o socket[p].out, owing'[p])
    BY Zenon, <1>a DEF OutboundSound
  <2> QED
    BY Zenon, <2>1, <2>2, <1>1 DEF OutboundSound
<1> QED
  BY Zenon, <1>1, <1>4, <1>5, <1>6, <1>7, <1>8

-----------------------------------------------------------------------------
(* The peers.                                                              *)

\* A step of a peer that has connected keeps the invariant, provided it keeps
\* what is said of that peer's own streams.
LEMMA PeerKeeps ==
  ASSUME GatewayInv, NEW p \in Peers,
         UNCHANGED <<gatewayVars, loopVars, backlog, owner, handled, owing, reason>>,
         socket' \in [Peers -> SocketT], sent' \in [Peers -> Seq(Messages)],
         got' \in [Peers -> Seq(ReplyT)],
         \A q \in Peers \ {p} :
           socket'[q] = socket[q] /\ sent'[q] = sent[q] /\ got'[q] = got[q],
         socket[p].end # "new", socket'[p].end # "new",
         socket[p].end \in {"fin", "rst"} => socket'[p].end \in {"fin", "rst"},
         Begins(handled[p], sent'[p]),
         Fresh(p) => Arrives(p, socket[p].in)',
         \A id \in DOMAIN by_id_ : PeerOf(id) = p => Arrives(p, Stream(id))',
         reason[p] # "open" => sent'[p] = sent[p],
         Fresh(p) => got'[p] = << >> /\ socket'[p].out = << >>,
         \A id \in DOMAIN by_id_ : PeerOf(id) = p => Replies(id)' = Replies(id),
         Begins(got'[p] \o socket'[p].out, owing[p]),
         Len(socket'[p].out) <= SocketRoom
  PROVE  GatewayInv'
<1> USE DEF GatewayInv, gatewayVars, loopVars
<1>1. TypeOK' /\ TablesAgree'
  <2>1. /\ by_id_' = by_id_ /\ by_fd_' = by_fd_ /\ next_id_' = next_id_
        /\ interest' = interest /\ events' = events /\ pc' = pc
        /\ current' = current /\ owed' = owed /\ backlog' = backlog
        /\ owner' = owner /\ handled' = handled /\ owing' = owing
        /\ reason' = reason
    BY Zenon
  <2>2. TypeOK'
    BY ZenonT(30), <2>1 DEF TypeOK
  <2>3. TablesAgree'
    <3>1. /\ TablesAgree /\ by_id_' = by_id_ /\ by_fd_' = by_fd_
          /\ interest' = interest /\ owner' = owner
      BY Zenon, <2>1
    <3> HIDE DEF GatewayInv, gatewayVars, loopVars
    <3> QED
      BY <3>1 DEF TablesAgree
  <2> QED
    BY Zenon, <2>2, <2>3
<1>2. /\ \A id \in DOMAIN by_id_ : PeerOf(id)' = PeerOf(id) /\ PeerOf(id) \in Peers
      /\ \A q \in Peers : (Waiting(q)' <=> Waiting(q)) /\ (Connected(q)' <=> Connected(q))
  BY Zenon, PeersOfConnections DEF PeerOf, Waiting, Connected
<1>3. \A q \in Peers : Fresh(q)' <=> Fresh(q)
  BY Zenon, <1>2 DEF Fresh
<1>4. Sessions'
  <2>1. ASSUME NEW q \in Peers
        PROVE  /\ socket'[q].end = "new" => ~Waiting(q)'
               /\ Fresh(q)' => /\ ~Connected(q)' /\ reason'[q] = "open"
                               /\ handled'[q] = << >> /\ owing'[q] = << >>
                               /\ got'[q] = << >> /\ socket'[q].out = << >>
               /\ Connected(q)' => reason'[q] = "open"
    <3>1. CASE q = p
      BY Zenon, <3>1, <1>2, <1>3 DEF Sessions
    <3>2. CASE q # p
      BY ZenonT(30), <3>2, <1>2, <1>3 DEF Sessions
    <3> QED
      BY Zenon, <3>1, <3>2
  <2> QED
    BY Zenon, <2>1 DEF Sessions
<1>5. EventsAreCurrent'
  <2>1. \A q \in Peers : socket[q].end \in {"fin", "rst"} => socket'[q].end \in {"fin", "rst"}
    BY Zenon
  <2>2. ASSUME NEW e \in events, e.fd # listen_fd_
        PROVE  /\ e.fd \in DOMAIN owner /\ owner[e.fd] = e.about
               /\ e.closed => e.readable /\ socket'[e.about].end \in {"fin", "rst"}
    <3>1. owner[e.fd] \in Peers
      BY Zenon, <2>2 DEF EventsAreCurrent, TypeOK
    <3> QED
      BY Zenon, <2>1, <2>2, <3>1 DEF EventsAreCurrent
  <2>3. Live' <=> Live
    BY Zenon DEF Live
  <2>4. ASSUME Live
        PROVE  /\ Peer' = Peer /\ Peer = current.about /\ This' = This
               /\ current.closed => /\ pc # "closed" /\ current.readable
                                    /\ socket'[Peer].end \in {"fin", "rst"}
    <3>1. Peer' = Peer /\ Peer \in Peers /\ This' = This
      BY Zenon, <2>4, <1>2 DEF Live, Peer, This, PeerOf
    <3> QED
      BY Zenon, <2>1, <2>4, <3>1 DEF EventsAreCurrent
  <2> QED
    BY ZenonT(30), <2>2, <2>3, <2>4 DEF EventsAreCurrent
<1>6. InboundSound'
  <2>1. \A q \in Peers : Begins(handled'[q], sent'[q])
    BY Zenon DEF InboundSound
  <2>2. \A q \in Peers : Fresh(q)' => Arrives(q, socket[q].in)'
    BY Zenon, <1>3 DEF InboundSound, Arrives
  <2>3. ASSUME NEW id \in DOMAIN by_id_
        PROVE  Arrives(PeerOf(id), Stream(id))'
    <3>1. CASE PeerOf(id) = p
      BY Zenon, <3>1, <1>2 DEF Arrives
    <3>2. CASE PeerOf(id) # p
      <4>1. Stream(id)' = Stream(id)
        BY Zenon, <3>2, <1>2 DEF Stream
      <4> QED
        BY ZenonT(30), <3>2, <4>1, <1>2 DEF Arrives, InboundSound
    <3> QED
      BY Zenon, <3>1, <3>2
  <2>4. \A q \in Peers : reason'[q] \in {"closed", "hung up"} => handled'[q] = sent'[q]
    <3>1. \A q \in Peers : reason'[q] \in {"closed", "hung up"} => sent'[q] = sent[q]
      BY Zenon
    <3> QED
      BY Zenon, <3>1 DEF InboundSound
  <2> QED
    BY Zenon, <2>1, <2>2, <2>3, <2>4 DEF InboundSound
<1>7. OutboundSound'
  <2>1. ASSUME NEW id \in DOMAIN by_id_
        PROVE  Replies(id)' = owing'[PeerOf(id)']
    <3>1. CASE PeerOf(id) = p
      BY Zenon, <3>1, <1>2 DEF OutboundSound
    <3>2. CASE PeerOf(id) # p
      <4>1. Replies(id)' = Replies(id)
        BY Zenon, <3>2, <1>2 DEF Replies, Pending
      <4> QED
        BY Zenon, <4>1, <1>2 DEF OutboundSound
    <3> QED
      BY Zenon, <3>1, <3>2
  <2>2. ASSUME NEW q \in Peers
        PROVE  /\ Begins(got'[q] \o socket'[q].out, owing'[q])
               /\ Len(socket'[q].out) <= SocketRoom
    BY Zenon DEF OutboundSound
  <2> QED
    BY Zenon, <2>1, <2>2 DEF OutboundSound
<1> QED
  BY ZenonT(30), <1>1, <1>4, <1>5, <1>6, <1>7

\* Sending a message.
LEMMA PeerSendsKeeps ==
  ASSUME GatewayInv, NEW p \in Peers, NEW m \in Messages, PeerSends(p, m)
  PROVE  GatewayInv'
<1> USE DEF GatewayInv
<1>1. /\ socket \in [Peers -> SocketT] /\ sent \in [Peers -> Seq(Messages)]
      /\ handled \in [Peers -> Seq(Messages)] /\ socket[p] \in SocketT
      /\ sent[p] \in Seq(Messages)
  BY Zenon DEF TypeOK
<1>2. socket[p].in \in Seq(CellT) /\ Halves(m) \in Seq(CellT)
      /\ socket[p].in \o Halves(m) \in Seq(CellT)
  <2>1. socket[p].in \in Seq(CellT) /\ Halves(m) \in Seq(CellT)
    BY Zenon, <1>1, HalvesType DEF SocketT
  <2> QED
    BY <2>1
<1>3. /\ socket' \in [Peers -> SocketT]
      /\ socket'[p].in = socket[p].in \o Halves(m)
      /\ socket'[p].out = socket[p].out /\ socket'[p].end = "no"
      /\ \A q \in Peers \ {p} : socket'[q] = socket[q]
  <2> DEFINE in == socket[p].in \o Halves(m)
  <2>1. in \in Seq(CellT)
    BY Zenon, <1>2
  <2>2. socket' = [socket EXCEPT ![p].in = in]
    BY Zenon DEF PeerSends, Halves
  <2> HIDE DEF in
  <2>3. /\ socket' \in [Peers -> SocketT]
        /\ socket'[p].in = in /\ socket'[p].out = socket[p].out
        /\ socket'[p].end = socket[p].end
        /\ \A q \in Peers \ {p} : socket'[q] = socket[q]
    BY Zenon, <1>1, <2>1, <2>2 DEF SocketT
  <2>4. socket[p].end = "no"
    BY Zenon DEF PeerSends
  <2> QED
    BY Zenon, <2>3, <2>4 DEF in
<1>4. /\ sent' \in [Peers -> Seq(Messages)] /\ sent'[p] = Append(sent[p], m)
      /\ \A q \in Peers \ {p} : sent'[q] = sent[q]
  <2>1. Append(sent[p], m) \in Seq(Messages)
    BY <1>1
  <2>2. sent' = [sent EXCEPT ![p] = Append(sent[p], m)]
    BY Zenon DEF PeerSends
  <2> QED
    BY Zenon, <2>1, <2>2, <1>1
<1>5. /\ socket[p].end = "no" /\ reason[p] = "open" /\ got' = got
      /\ UNCHANGED <<gatewayVars, loopVars, backlog, owner, handled, owing, reason>>
  BY Zenon DEF PeerSends
<1>6. Begins(handled[p], sent'[p])
  <2>1. Begins(handled[p], sent[p]) /\ handled[p] \in Seq(Messages)
    BY Zenon, <1>1 DEF InboundSound
  <2>2. <<m>> \in Seq(Messages) /\ Append(sent[p], m) = sent[p] \o <<m>>
    BY <1>1
  <2>3. Begins(handled[p], sent[p] \o <<m>>)
    BY ZenonT(30), <2>1, <2>2, <1>1, PrefixExtends
  <2> QED
    BY Zenon, <2>2, <2>3, <1>4
<1>7. ASSUME Fresh(p) PROVE Arrives(p, socket[p].in)'
  <2>1. socket[p].in = Cells(sent[p])
    BY Zenon, <1>5, <1>7 DEF InboundSound, Arrives, Whole
  <2>2. Cells(Append(sent[p], m)) = Cells(sent[p]) \o Halves(m)
    BY Zenon, <1>1, CellsAppend
  <2> QED
    BY Zenon, <2>1, <2>2, <1>3, <1>4 DEF Arrives, Whole
<1>8. ASSUME NEW id \in DOMAIN by_id_, PeerOf(id) = p
      PROVE  Arrives(p, Stream(id))'
  <2> DEFINE a == Cells(handled[p]) \o by_id_[id].inbound
  <2>1. a \in Seq(CellT)
    <3>1. by_id_[id].inbound \in Seq(CellT)
      BY Zenon DEF TypeOK, ConnectionT
    <3>2. Cells(handled[p]) \in Seq(CellT)
      BY Zenon, <1>1, CellsType
    <3> QED
      BY <3>1, <3>2
  <2>2. Stream(id) = a \o socket[p].in
    BY Zenon, <1>8 DEF Stream
  <2>3. Stream(id)' = a \o (socket[p].in \o Halves(m))
    BY Zenon, <1>8, <1>3, <1>5 DEF Stream, PeerOf, gatewayVars
  <2> HIDE DEF a
  <2>4. a \o socket[p].in = Cells(sent[p])
    BY Zenon, <2>2, <1>5, <1>8 DEF InboundSound, Arrives, Whole
  <2>5. a \o (socket[p].in \o Halves(m)) = Cells(Append(sent[p], m))
    BY ZenonT(30), <2>1, <2>4, <1>1, <1>2, StreamGrows
  <2> QED
    BY Zenon, <2>3, <2>5, <1>4 DEF Arrives, Whole
<1>9. /\ Fresh(p) => got'[p] = << >> /\ socket'[p].out = << >>
      /\ Begins(got'[p] \o socket'[p].out, owing[p])
      /\ Len(socket'[p].out) <= SocketRoom
  BY Zenon, <1>3, <1>5 DEF Sessions, OutboundSound
<1>10. \A id \in DOMAIN by_id_ : PeerOf(id) = p => Replies(id)' = Replies(id)
  BY Zenon, <1>3, <1>5 DEF Replies, PeerOf, gatewayVars, Pending
<1>11. got' \in [Peers -> Seq(ReplyT)]
  BY Zenon, <1>5 DEF TypeOK
<1>12. GatewayInv
  OBVIOUS
<1> HIDE DEF GatewayInv
<1>13. socket[p].end # "new" /\ socket'[p].end # "new"
       /\ socket[p].end \notin {"fin", "rst"}
  BY Zenon, <1>3, <1>5
<1> QED
  BY ZenonT(30), <1>3, <1>4, <1>5, <1>6, <1>7, <1>8, <1>9, <1>10, <1>11, <1>12, <1>13, PeerKeeps

\* Reading a reply.
LEMMA PeerReadsKeeps ==
  ASSUME GatewayInv, NEW p \in Peers, PeerReads(p)
  PROVE  GatewayInv'
<1> USE DEF GatewayInv
<1> DEFINE o == socket[p].out
<1>1. /\ socket \in [Peers -> SocketT] /\ socket[p] \in SocketT
      /\ got \in [Peers -> Seq(ReplyT)] /\ got[p] \in Seq(ReplyT)
  BY Zenon DEF TypeOK
<1>2. o \in Seq(ReplyT) /\ o # << >>
  BY Zenon, <1>1 DEF SocketT, PeerReads
<1>3. /\ Append(got[p], Head(o)) \in Seq(ReplyT) /\ Tail(o) \in Seq(ReplyT)
      /\ Append(got[p], Head(o)) \o Tail(o) = got[p] \o o
  BY Zenon, <1>1, <1>2, OneRead
<1>4. /\ got' = [got EXCEPT ![p] = Append(got[p], Head(o))]
      /\ socket' = [socket EXCEPT ![p].out = Tail(o)]
      /\ socket[p].end \in {"no", "fin"} /\ sent' = sent
      /\ UNCHANGED <<gatewayVars, loopVars, backlog, owner, handled, owing, reason>>
  BY Zenon DEF PeerReads
<1>5. Len(Tail(o)) <= Len(o)
  BY <1>2
<1> HIDE DEF o
<1>6. /\ got' \in [Peers -> Seq(ReplyT)] /\ got'[p] = Append(got[p], Head(o))
      /\ \A q \in Peers \ {p} : got'[q] = got[q]
  BY Zenon, <1>1, <1>3, <1>4
<1>7. /\ socket' \in [Peers -> SocketT] /\ socket'[p].out = Tail(o)
      /\ socket'[p].in = socket[p].in /\ socket'[p].end = socket[p].end
      /\ \A q \in Peers \ {p} : socket'[q] = socket[q]
  BY Zenon, <1>1, <1>3, <1>4 DEF SocketT
<1>8. got'[p] \o socket'[p].out = got[p] \o o
  BY Zenon, <1>3, <1>6, <1>7
<1>9. ~Fresh(p)
  BY Zenon, <1>2 DEF Sessions, o
<1>10. /\ Begins(handled[p], sent'[p]) /\ sent'[p] = sent[p]
       /\ Begins(got'[p] \o socket'[p].out, owing[p])
  BY Zenon, <1>4, <1>8 DEF InboundSound, OutboundSound, o
<1>11. Len(socket'[p].out) <= SocketRoom
  <2>1. Len(o) <= SocketRoom
    BY Zenon DEF OutboundSound, o
  <2>2. Len(o) \in Nat /\ Len(Tail(o)) \in Nat
    BY <1>2, <1>3
  <2> QED
    BY <2>1, <2>2, <1>5, <1>7, GatewayAssumption
<1>12. ASSUME NEW id \in DOMAIN by_id_, PeerOf(id) = p
       PROVE  Arrives(p, Stream(id))' /\ Replies(id)' = Replies(id)
  <2>1. PeerOf(id)' = p /\ by_id_' = by_id_ /\ handled' = handled
    BY Zenon, <1>4, <1>12 DEF PeerOf, gatewayVars
  <2>2. Stream(id)' = Stream(id)
    BY Zenon, <2>1, <1>7, <1>12 DEF Stream
  <2>3. Replies(id)' = Replies(id)
    BY Zenon, <2>1, <1>8, <1>12 DEF Replies, Pending, o
  <2> QED
    <3>1. Arrives(p, Stream(id)) /\ sent' = sent
      BY Zenon, <1>4, <1>12 DEF InboundSound
    <3> QED
      BY Zenon, <2>2, <2>3, <3>1, <1>7 DEF Arrives
<1>13. socket[p].end # "new" /\ socket'[p].end # "new"
       /\ (socket[p].end \in {"fin", "rst"} => socket'[p].end \in {"fin", "rst"})
  BY Zenon, <1>4, <1>7
<1>14. GatewayInv /\ sent' \in [Peers -> Seq(Messages)]
  BY Zenon, <1>4 DEF TypeOK
<1> HIDE DEF GatewayInv
<1> QED
  BY ZenonT(30), <1>4, <1>6, <1>7, <1>9, <1>10, <1>11, <1>12, <1>13, <1>14, PeerKeeps

\* The peer's end of the connection closes or is reset; a reset may destroy
\* what has not been received.
LEMMA PeerEndsKeeps ==
  ASSUME GatewayInv, NEW p \in Peers, PeerFinishes(p) \/ PeerAborts(p) \/ PeerResets(p)
  PROVE  GatewayInv'
<1> USE DEF GatewayInv
<1>1. /\ socket \in [Peers -> SocketT] /\ socket[p] \in SocketT
      /\ socket[p].in \in Seq(CellT)
  BY Zenon DEF TypeOK, SocketT
<1>2. /\ socket[p].end \in {"no", "fin"} /\ reason[p] = "open"
      /\ UNCHANGED <<sent, got>>
      /\ UNCHANGED <<gatewayVars, loopVars, backlog, owner, handled, owing, reason>>
  BY Zenon DEF PeerFinishes, PeerAborts, PeerResets, historyVars
<1>3. /\ socket' \in [Peers -> SocketT] /\ socket'[p].out = socket[p].out
      /\ socket'[p].end \in {"fin", "rst"}
      /\ \A q \in Peers \ {p} : socket'[q] = socket[q]
      /\ \/ socket'[p].in = socket[p].in
         \/ socket'[p].end = "rst" /\ \E n \in 0 .. Len(socket[p].in) :
                                        socket'[p].in = SubSeq(socket[p].in, 1, n)
  <2>1. CASE PeerFinishes(p) \/ PeerResets(p)
    <3>1. PICK e \in {"fin", "rst"} : socket' = [socket EXCEPT ![p].end = e]
      BY Zenon, <2>1 DEF PeerFinishes, PeerResets
    <3> QED
      BY Zenon, <3>1, <1>1 DEF SocketT
  <2>2. CASE PeerAborts(p)
    <3>1. PICK n \in 0 .. Len(socket[p].in) :
            socket' = [socket EXCEPT ![p].end = "rst",
                                     ![p].in = SubSeq(socket[p].in, 1, n)]
      BY Zenon, <2>2, <1>1 DEF PeerAborts, SocketT
    <3>2. SubSeq(socket[p].in, 1, n) \in Seq(CellT)
      BY <1>1
    <3> DEFINE in == SubSeq(socket[p].in, 1, n)
    <3> HIDE DEF in
    <3>3. /\ socket' \in [Peers -> SocketT] /\ socket'[p].out = socket[p].out
          /\ socket'[p].end = "rst" /\ socket'[p].in = in
          /\ \A q \in Peers \ {p} : socket'[q] = socket[q]
      BY Zenon, <3>1, <3>2, <1>1 DEF SocketT, in
    <3> QED
      BY Zenon, <3>3 DEF in
  <2> QED
    BY Zenon, <2>1, <2>2
<1>4. ASSUME NEW a \in Seq(CellT), Whole(a \o socket[p].in, sent[p], socket[p].end)
      PROVE  Whole(a \o socket'[p].in, sent[p], socket'[p].end)
  <2>1. a \o socket[p].in = Cells(sent[p])
    BY Zenon, <1>2, <1>4 DEF Whole
  <2>2. CASE socket'[p].in = socket[p].in
    BY Zenon, <2>1, <2>2 DEF Whole
  <2>3. ASSUME NEW n \in 0 .. Len(socket[p].in), socket'[p].end = "rst",
               socket'[p].in = SubSeq(socket[p].in, 1, n)
        PROVE  Whole(a \o socket'[p].in, sent[p], socket'[p].end)
    <3>1. Begins(a \o SubSeq(socket[p].in, 1, n), a \o socket[p].in)
      BY Zenon, <1>1, <1>4, StreamCut
    <3> QED
      BY Zenon, <3>1, <2>1, <2>3 DEF Whole
  <2> QED
    BY Zenon, <2>2, <2>3, <1>3
<1>5. ASSUME Fresh(p) PROVE Arrives(p, socket[p].in)'
  <2>1. << >> \o socket[p].in = socket[p].in /\ << >> \o socket'[p].in = socket'[p].in
    <3>1. socket'[p].in \in Seq(CellT)
      BY Zenon, <1>3 DEF SocketT
    <3> QED
      BY <3>1, <1>1
  <2>2. /\ Whole(<< >> \o socket[p].in, sent[p], socket[p].end)
        /\ << >> \in Seq(CellT)
    BY Zenon, <2>1, <1>5, EmptySeq DEF InboundSound, Arrives
  <2>3. Whole(<< >> \o socket'[p].in, sent[p], socket'[p].end)
    BY Zenon, <2>2, <1>4
  <2> QED
    BY Zenon, <2>1, <2>3, <1>2 DEF Arrives
<1>6. ASSUME NEW id \in DOMAIN by_id_, PeerOf(id) = p
      PROVE  Arrives(p, Stream(id))' /\ Replies(id)' = Replies(id)
  <2> DEFINE a == Cells(handled[p]) \o by_id_[id].inbound
  <2>1. a \in Seq(CellT)
    <3>1. by_id_[id].inbound \in Seq(CellT)
      BY Zenon DEF TypeOK, ConnectionT
    <3>2. Cells(handled[p]) \in Seq(CellT)
      BY Zenon, CellsType DEF TypeOK
    <3> QED
      BY <3>1, <3>2
  <2>2. PeerOf(id)' = p /\ by_id_' = by_id_ /\ handled' = handled
    BY Zenon, <1>2, <1>6 DEF PeerOf, gatewayVars
  <2>3. Stream(id) = a \o socket[p].in /\ Stream(id)' = a \o socket'[p].in
    BY Zenon, <2>2, <1>6 DEF Stream
  <2> HIDE DEF a
  <2>4. Whole(a \o socket[p].in, sent[p], socket[p].end)
    BY Zenon, <2>3, <1>6 DEF InboundSound, Arrives
  <2>5. Whole(a \o socket'[p].in, sent[p], socket'[p].end)
    BY Zenon, <2>1, <2>4, <1>4
  <2>6. Replies(id)' = Replies(id)
    BY Zenon, <2>2, <1>2, <1>3, <1>6 DEF Replies, Pending
  <2> QED
    BY Zenon, <2>3, <2>5, <2>6, <1>2 DEF Arrives
<1>7. /\ Begins(handled[p], sent'[p]) /\ sent'[p] = sent[p]
      /\ Begins(got'[p] \o socket'[p].out, owing[p])
      /\ Len(socket'[p].out) <= SocketRoom
      /\ Fresh(p) => got'[p] = << >> /\ socket'[p].out = << >>
  BY Zenon, <1>2, <1>3 DEF InboundSound, OutboundSound, Sessions
<1>8. socket[p].end # "new" /\ socket'[p].end # "new"
  BY Zenon, <1>2, <1>3
<1>9. /\ GatewayInv /\ sent' \in [Peers -> Seq(Messages)]
      /\ got' \in [Peers -> Seq(ReplyT)]
  BY Zenon, <1>2 DEF TypeOK
<1> HIDE DEF GatewayInv
<1> QED
  BY ZenonT(30), <1>2, <1>3, <1>5, <1>6, <1>7, <1>8, <1>9, PeerKeeps

\* Connecting: the peer joins the end of the queue.
LEMMA PeerConnectsKeeps ==
  ASSUME GatewayInv, NEW p \in Peers, PeerConnects(p)
  PROVE  GatewayInv'
<1> USE DEF GatewayInv
<1>1. /\ socket \in [Peers -> SocketT] /\ backlog \in Seq(Peers)
      /\ socket[p].end = "new" /\ Fresh(p) /\ ~Waiting(p)
  BY Zenon DEF TypeOK, PeerConnects, Fresh, Sessions
<1>2. /\ by_id_' = by_id_ /\ by_fd_' = by_fd_ /\ next_id_' = next_id_
      /\ interest' = interest /\ events' = events /\ pc' = pc
      /\ current' = current /\ owed' = owed
      /\ owner' = owner /\ sent' = sent /\ handled' = handled
      /\ owing' = owing /\ got' = got /\ reason' = reason
  BY Zenon DEF PeerConnects, gatewayVars, loopVars, historyVars
<1>3. /\ socket' \in [Peers -> SocketT]
      /\ \A q \in Peers : /\ socket'[q].in = socket[q].in /\ socket'[q].out = socket[q].out
                          /\ socket'[q].end = IF q = p THEN "no" ELSE socket[q].end
  BY Zenon, <1>1 DEF PeerConnects, SocketT
<1>4. /\ backlog' \in Seq(Peers) /\ Len(backlog') = Len(backlog) + 1
      /\ backlog'[Len(backlog) + 1] = p
      /\ \A i \in 1 .. Len(backlog) : backlog'[i] = backlog[i]
  BY <1>1 DEF PeerConnects
<1>5. /\ DOMAIN backlog' = 1 .. Len(backlog) + 1 /\ DOMAIN backlog = 1 .. Len(backlog)
      /\ Len(backlog) \in Nat
  BY <1>1, <1>4
<1>6. TypeOK'
  BY ZenonT(30), <1>2, <1>3, <1>4 DEF TypeOK
<1>7. TablesAgree'
  BY Zenon, <1>2 DEF TablesAgree
<1>8. \A q \in Peers : Waiting(q)' <=> Waiting(q) \/ q = p
  <2>1. \A i \in 1 .. Len(backlog) + 1 : i \in 1 .. Len(backlog) \/ i = Len(backlog) + 1
    BY <1>5
  <2>2. /\ Len(backlog) + 1 \in 1 .. Len(backlog) + 1
        /\ \A i \in 1 .. Len(backlog) : i \in 1 .. Len(backlog) + 1
    BY <1>5
  <2> QED
    BY Zenon, <2>1, <2>2, <1>4, <1>5 DEF Waiting
<1>9. \A q \in Peers : (Connected(q)' <=> Connected(q)) /\ (Fresh(q)' <=> Fresh(q))
  BY Zenon, <1>1, <1>2, <1>3, <1>8 DEF Connected, Fresh
<1>10. Sessions'
  <2>1. ASSUME NEW i \in DOMAIN backlog', NEW j \in DOMAIN backlog',
               backlog'[i] = backlog'[j]
        PROVE  i = j
    <3>1. \A k \in 1 .. Len(backlog) : backlog[k] # p
      BY Zenon, <1>1, <1>5 DEF Waiting
    <3>2. \A k, l \in 1 .. Len(backlog) : backlog[k] = backlog[l] => k = l
      BY Zenon, <1>5 DEF Sessions
    <3> QED
      BY <2>1, <3>1, <3>2, <1>4, <1>5
  <2>2. ASSUME NEW q \in Peers
        PROVE  /\ socket'[q].end = "new" => ~Waiting(q)'
               /\ Fresh(q)' => /\ ~Connected(q)' /\ reason'[q] = "open"
                               /\ handled'[q] = << >> /\ owing'[q] = << >>
                               /\ got'[q] = << >> /\ socket'[q].out = << >>
               /\ Connected(q)' => reason'[q] = "open"
    <3>1. socket'[q].end = "new" => q # p /\ socket[q].end = "new"
      BY Zenon, <1>3
    <3> QED
      BY Zenon, <3>1, <1>2, <1>3, <1>8, <1>9 DEF Sessions
  <2> QED
    BY Zenon, <2>1, <2>2, <1>2 DEF Sessions
<1>11. EventsAreCurrent'
  <2>1. \A q \in Peers : socket[q].end \in {"fin", "rst"} => socket'[q].end \in {"fin", "rst"}
    BY Zenon, <1>1, <1>3
  <2>2. ASSUME NEW e \in events, e.fd # listen_fd_
        PROVE  /\ e.fd \in DOMAIN owner /\ owner[e.fd] = e.about
               /\ e.closed => e.readable /\ socket'[e.about].end \in {"fin", "rst"}
    <3>1. owner[e.fd] \in Peers
      BY Zenon, <2>2 DEF EventsAreCurrent, TypeOK
    <3> QED
      BY Zenon, <2>1, <2>2, <3>1 DEF EventsAreCurrent
  <2>3. ASSUME Live
        PROVE  /\ Peer = current.about
               /\ current.closed => /\ pc # "closed" /\ current.readable
                                    /\ socket'[Peer].end \in {"fin", "rst"}
    <3>1. Peer \in Peers
      BY Zenon, <2>3, PeersOfConnections DEF Live, Peer, This, PeerOf
    <3> QED
      BY Zenon, <2>1, <2>3, <3>1 DEF EventsAreCurrent
  <2> QED
    BY Zenon, <2>2, <2>3, <1>2 DEF EventsAreCurrent, Live, Peer, This
<1>12. InboundSound'
  <2>1. ASSUME NEW q \in Peers, NEW x, Arrives(q, x)
        PROVE  Whole(x, sent'[q], socket'[q].end)
    <3>1. q = p => x = Cells(sent[q])
      BY Zenon, <2>1, <1>1 DEF Arrives, Whole
    <3> QED
      BY Zenon, <2>1, <3>1, <1>2, <1>3 DEF Arrives, Whole
  <2>2. \A q \in Peers : Fresh(q)' => Arrives(q, socket[q].in)'
    BY Zenon, <2>1, <1>3, <1>9 DEF InboundSound, Arrives
  <2>3. ASSUME NEW id \in DOMAIN by_id_ PROVE Arrives(PeerOf(id), Stream(id))'
    <3>1. PeerOf(id)' = PeerOf(id) /\ PeerOf(id) \in Peers
      BY Zenon, <1>2, PeersOfConnections DEF PeerOf
    <3>2. Stream(id)' = Stream(id)
      BY Zenon, <3>1, <1>2, <1>3 DEF Stream
    <3>3. Arrives(PeerOf(id), Stream(id))
      BY Zenon DEF InboundSound
    <3> QED
      BY Zenon, <3>1, <3>2, <3>3, <2>1 DEF Arrives
  <2> QED
    BY ZenonT(30), <2>2, <2>3, <1>2 DEF InboundSound
<1>13. OutboundSound'
  <2>1. ASSUME NEW id \in DOMAIN by_id_ PROVE Replies(id)' = owing'[PeerOf(id)']
    <3>1. PeerOf(id)' = PeerOf(id) /\ PeerOf(id) \in Peers
      BY Zenon, <1>2, PeersOfConnections DEF PeerOf
    <3>2. Replies(id)' = Replies(id)
      BY Zenon, <3>1, <1>2, <1>3 DEF Replies, Pending
    <3> QED
      BY Zenon, <3>1, <3>2, <1>2 DEF OutboundSound
  <2>2. \A q \in Peers : /\ Begins(got'[q] \o socket'[q].out, owing'[q])
                         /\ Len(socket'[q].out) <= SocketRoom
    BY Zenon, <1>2, <1>3 DEF OutboundSound
  <2> QED
    BY Zenon, <2>1, <2>2, <1>2 DEF OutboundSound
<1> QED
  BY Zenon, <1>6, <1>7, <1>10, <1>11, <1>12, <1>13

-----------------------------------------------------------------------------
(* The loop: steps that change neither a connection nor a socket.          *)

\* A step of the loop that only moves on in the batch of events keeps the
\* invariant, when what it says of the events and of the buffers still holds.
LEMMA LoopKeeps ==
  ASSUME GatewayInv, UNCHANGED <<gatewayVars, kernelVars, historyVars>>,
         events' \subseteq EventT, owed' \in Nat,
         pc' \in {"poll", "event", "accept", "write", "read", "decode", "reply", "closed"},
         current' \in [id : Nat, readable : BOOLEAN, closed : BOOLEAN,
                       about : Peers \cup {NoOne}],
         EventsAreCurrent',
         \A id \in DOMAIN by_id_ : \/ Len(by_id_[id].inbound) < 2
                                   \/ id = current'.id /\ pc' \in {"decode", "reply"}
  PROVE  GatewayInv'
<1> USE DEF GatewayInv
<1>1. /\ by_id_' = by_id_ /\ by_fd_' = by_fd_ /\ next_id_' = next_id_
      /\ interest' = interest /\ backlog' = backlog /\ owner' = owner
      /\ socket' = socket /\ sent' = sent /\ handled' = handled
      /\ owing' = owing /\ got' = got /\ reason' = reason
  BY Zenon DEF gatewayVars, kernelVars, historyVars
<1>2. TypeOK'
  BY Zenon, <1>1 DEF TypeOK
<1>3. TablesAgree'
  BY ZenonT(30), <1>1 DEF TablesAgree
<1>4. Sessions'
  BY ZenonT(30), <1>1 DEF Sessions, Waiting, Connected, Fresh
<1>5. InboundSound'
  <2>1. \A id \in DOMAIN by_id_ : PeerOf(id)' = PeerOf(id) /\ Stream(id)' = Stream(id)
    BY Zenon, <1>1 DEF PeerOf, Stream
  <2>2. \A p \in Peers : Fresh(p)' <=> Fresh(p)
    BY Zenon, <1>1 DEF Fresh, Waiting
  <2> QED
    BY Zenon, <1>1, <2>1, <2>2 DEF InboundSound, Arrives
<1>6. OutboundSound'
  <2>1. \A id \in DOMAIN by_id_ : PeerOf(id)' = PeerOf(id) /\ Replies(id)' = Replies(id)
    BY Zenon, <1>1 DEF PeerOf, Replies, Pending
  <2> QED
    BY Zenon, <1>1, <2>1 DEF OutboundSound
<1> QED
  BY Zenon, <1>2, <1>3, <1>4, <1>5, <1>6

\* With no connection being serviced no buffer holds a whole message.
LEMMA Idle ==
  ASSUME GatewayInv, pc \in {"poll", "event", "accept", "write", "read", "closed"}
  PROVE  \A id \in DOMAIN by_id_ : Len(by_id_[id].inbound) < 2
<1>1. pc \notin {"decode", "reply"}
  OBVIOUS
<1> QED
  BY Zenon, <1>1 DEF GatewayInv, InboundSound

\* The snapshot has one event for each ready descriptor, about its present owner.
LEMMA waitKeeps ==
  ASSUME GatewayInv, wait
  PROVE  GatewayInv'
<1> USE DEF GatewayInv
<1>1. PICK eof \in BOOLEAN :
        events' = Snapshot(eof) \cup
                  {[fd |-> listen_fd_, readable |-> TRUE, writable |-> FALSE,
                    closed |-> FALSE, about |-> NoOne] : p \in Range(backlog)}
  BY Zenon DEF wait
<1>2. /\ UNCHANGED <<gatewayVars, kernelVars, historyVars>>
      /\ current' = current /\ owed' = owed /\ pc = "poll" /\ pc' = "event"
      /\ by_id_' = by_id_ /\ owner' = owner /\ socket' = socket
  BY Zenon DEF wait, gatewayVars, kernelVars
<1>3. Ready \subseteq DOMAIN owner /\ Ready \subseteq Fds
  BY Zenon DEF Ready, TablesAgree, TypeOK
<1>4. ASSUME NEW e \in events'
      PROVE  /\ e \in EventT
             /\ \/ /\ e.fd = listen_fd_
                   /\ e = [fd |-> listen_fd_, readable |-> TRUE, writable |-> FALSE,
                           closed |-> FALSE, about |-> NoOne]
                \/ /\ e.fd \in Ready /\ owner[e.fd] = e.about
                   /\ e = [fd |-> e.fd, readable |-> Readable(owner[e.fd]),
                           writable |-> Writable(e.fd),
                           closed |-> HungUp(owner[e.fd], eof), about |-> owner[e.fd]]
                   /\ e.closed => e.readable /\ socket[e.about].end \in {"fin", "rst"}
  <2>1. CASE e = [fd |-> listen_fd_, readable |-> TRUE, writable |-> FALSE,
                  closed |-> FALSE, about |-> NoOne]
    BY Zenon, <2>1 DEF EventT
  <2>2. CASE e \in Snapshot(eof)
    <3>1. PICK fd \in Ready :
            e = [fd |-> fd, readable |-> Readable(owner[fd]), writable |-> Writable(fd),
                 closed |-> HungUp(owner[fd], eof), about |-> owner[fd]]
      BY Zenon, <2>2 DEF Snapshot
    <3>2. owner[fd] \in Peers /\ fd \in Fds
      BY Zenon, <1>3 DEF TypeOK
    <3>3. /\ Readable(owner[fd]) \in BOOLEAN /\ Writable(fd) \in BOOLEAN
          /\ HungUp(owner[fd], eof) \in BOOLEAN
      BY Zenon DEF Readable, Writable, HungUp
    <3>4. e \in EventT
      BY Zenon, <3>1, <3>2, <3>3 DEF EventT
    <3>5. HungUp(owner[fd], eof)
            => Readable(owner[fd]) /\ socket[owner[fd]].end \in {"fin", "rst"}
      BY Zenon DEF HungUp, Readable
    <3>6. /\ e.fd = fd /\ e.closed = HungUp(owner[fd], eof)
          /\ e.readable = Readable(owner[fd]) /\ e.about = owner[fd]
      BY Zenon, <3>1
    <3> QED
      BY Zenon, <3>1, <3>4, <3>5, <3>6
  <2> QED
    BY Zenon, <1>1, <2>1, <2>2
<1>5. ~Live /\ ~Live' /\ current.id = 0
  <2>1. current.id = 0 /\ 0 \notin DOMAIN by_id_
    BY <1>2 DEF EventsAreCurrent, TypeOK
  <2> QED
    BY Zenon, <1>2, <2>1 DEF Live
<1>6. EventsAreCurrent'
  <2>1. \A e, f \in events' : e.fd = f.fd => e = f
    <3> DEFINE L == [fd |-> listen_fd_, readable |-> TRUE, writable |-> FALSE,
                     closed |-> FALSE, about |-> NoOne]
               At(fd) == [fd |-> fd, readable |-> Readable(owner[fd]),
                          writable |-> Writable(fd),
                          closed |-> HungUp(owner[fd], eof), about |-> owner[fd]]
    <3>1. listen_fd_ \notin Ready
      BY Zenon DEF Ready
    <3>2. \A e \in events' : (e.fd = listen_fd_ /\ e = L) \/ (e.fd \in Ready /\ e = At(e.fd))
      BY Zenon, <1>4
    <3> HIDE DEF L, At
    <3> QED
      BY Zenon, <3>1, <3>2
  <2>2. \A e \in events' :
          \/ e.fd = listen_fd_
          \/ /\ e.fd \in DOMAIN owner' /\ owner'[e.fd] = e.about
             /\ e.closed => e.readable /\ socket'[e.about].end \in {"fin", "rst"}
    BY Zenon, <1>2, <1>3, <1>4
  <2>3. pc' \notin {"write", "decode"}
    BY Zenon, <1>2
  <2> QED
    BY Zenon, <2>1, <2>2, <2>3, <1>2, <1>5 DEF EventsAreCurrent
<1>7. events' \subseteq EventT
  BY Zenon, <1>4
<1>8. /\ owed' \in Nat
      /\ current' \in [id : Nat, readable : BOOLEAN, closed : BOOLEAN,
                       about : Peers \cup {NoOne}]
  BY Zenon, <1>2 DEF TypeOK
<1> QED
  BY Zenon, <1>2, <1>6, <1>7, <1>8, Idle, LoopKeeps

\* poll() returns when no event of the batch is left (tcp_gateway.cpp, poll).
LEMMA EndPassKeeps ==
  ASSUME GatewayInv, EndPass
  PROVE  GatewayInv'
<1> USE DEF GatewayInv
<1>1. /\ UNCHANGED <<gatewayVars, kernelVars, historyVars>>
      /\ events' = events /\ current' = current /\ owed' = owed
      /\ pc = "event" /\ pc' = "poll" /\ by_id_' = by_id_ /\ owner' = owner
      /\ socket' = socket
  BY Zenon DEF EndPass, gatewayVars, kernelVars
<1>2. ~Live /\ ~Live' /\ current.id = 0
  <2>1. current.id = 0 /\ 0 \notin DOMAIN by_id_
    BY <1>1 DEF EventsAreCurrent, TypeOK
  <2> QED
    BY Zenon, <1>1, <2>1 DEF Live
<1>3. EventsAreCurrent'
  <2>1. pc' \notin {"write", "decode"}
    BY Zenon, <1>1
  <2> QED
    BY Zenon, <2>1, <1>1, <1>2 DEF EventsAreCurrent
<1>4. /\ owed' \in Nat /\ events' \subseteq EventT
      /\ current' \in [id : Nat, readable : BOOLEAN, closed : BOOLEAN,
                       about : Peers \cup {NoOne}]
  BY Zenon, <1>1 DEF TypeOK
<1> QED
  BY Zenon, <1>1, <1>3, <1>4, Idle, LoopKeeps

\* poll() looks the descriptor up again: what it finds is the connection the
\* event is about, and no other event is left for it.
LEMMA NextEventKeeps ==
  ASSUME GatewayInv, NEW e \in events, NextEvent(e)
  PROVE  GatewayInv'
<1> USE DEF GatewayInv
<1>1. /\ UNCHANGED <<gatewayVars, kernelVars, historyVars>>
      /\ events' = events \ {e} /\ owed' = owed
      /\ pc = "event" /\ by_id_' = by_id_ /\ owner' = owner /\ socket' = socket
  BY Zenon DEF NextEvent, gatewayVars, kernelVars
<1>2. /\ e \in EventT /\ events' \subseteq EventT /\ owed' \in Nat
      /\ current \in [id : Nat, readable : BOOLEAN, closed : BOOLEAN,
                      about : Peers \cup {NoOne}]
  BY Zenon, <1>1 DEF TypeOK
<1>3. ~Live /\ current.id = 0 /\ 0 \notin DOMAIN by_id_
  <2>1. current.id = 0 /\ 0 \notin DOMAIN by_id_
    BY <1>1 DEF EventsAreCurrent, TypeOK
  <2> QED
    BY Zenon, <2>1 DEF Live
<1>4. /\ \A d, f \in events' : d.fd = f.fd => d = f
      /\ \A d \in events' :
           \/ d.fd = listen_fd_
           \/ /\ d.fd \in DOMAIN owner' /\ owner'[d.fd] = d.about
              /\ d.closed => d.readable /\ socket'[d.about].end \in {"fin", "rst"}
  BY Zenon, <1>1 DEF EventsAreCurrent
<1>5. CASE e.fd = listen_fd_ \/ e.fd \notin DOMAIN by_fd_
  <2>1. current' = current /\ pc' \in {"event", "accept"}
    BY Zenon, <1>1, <1>5 DEF NextEvent
  <2>2. pc' \notin {"write", "decode"}
    BY Zenon, <2>1
  <2>3. ~Live'
    BY Zenon, <1>1, <1>3, <2>1 DEF Live
  <2>4. EventsAreCurrent'
    BY ZenonT(30), <1>3, <1>4, <2>1, <2>2, <2>3 DEF EventsAreCurrent
  <2> QED
    BY Zenon, <1>1, <1>2, <2>1, <2>4, Idle, LoopKeeps
<1>6. CASE e.fd # listen_fd_ /\ e.fd \in DOMAIN by_fd_
  <2>1. /\ pc' \in {"write", "read"}
        /\ current' = [id |-> by_fd_[e.fd], readable |-> e.readable,
                       closed |-> e.closed, about |-> e.about]
    BY Zenon, <1>6 DEF NextEvent
  <2>2. PICK id \in DOMAIN by_id_ : by_id_[id].fd = e.fd /\ by_fd_[e.fd] = id
    BY Zenon, <1>6 DEF TablesAgree
  <2>3. current'.id = id /\ current'.closed = e.closed /\ current'.about = e.about
         /\ current'.readable = e.readable
    BY Zenon, <2>1, <2>2
  <2>4. Live' /\ This' = by_id_[id] /\ Peer' = owner[e.fd]
    BY Zenon, <2>2, <2>3, <1>1 DEF Live, This, Peer
  <2>5. /\ owner[e.fd] = e.about
        /\ e.closed => e.readable /\ socket[e.about].end \in {"fin", "rst"}
    BY Zenon, <1>6 DEF EventsAreCurrent
  <2>6. \A d \in events' : d.fd # e.fd
    BY ZenonT(30), <1>1 DEF EventsAreCurrent
  <2>7. pc' \notin {"poll", "event", "accept"} /\ pc' # "closed"
    BY Zenon, <2>1
  <2>8. EventsAreCurrent'
    BY ZenonT(30), <1>1, <1>4, <2>2, <2>3, <2>4, <2>5, <2>6, <2>7 DEF EventsAreCurrent
  <2>9. current' \in [id : Nat, readable : BOOLEAN, closed : BOOLEAN,
                      about : Peers \cup {NoOne}]
    <3>1. id \in Nat
      BY DEF TypeOK
    <3> QED
      BY ZenonT(30), <3>1, <2>1, <2>2, <1>2 DEF EventT
  <2> QED
    BY ZenonT(30), <1>1, <1>2, <2>1, <2>8, <2>9, Idle, LoopKeeps
<1> QED
  BY Zenon, <1>5, <1>6

-----------------------------------------------------------------------------
(* accept_ready().                                                         *)

\* The lowest free descriptor is free.
LEMMA NewFdIsFree ==
  ASSUME FreeFds # {}
  PROVE  NewFd \in Fds /\ NewFd \notin DOMAIN owner
<1> DEFINE T == Fds \ DOMAIN owner
<1>1. T \subseteq Nat /\ T # {}
  BY Zenon, GatewayAssumption DEF FreeFds
<1>2. PICK m \in T : \A y \in T : ~(<<y, m>> \in OpToRel(<, Nat))
  BY Zenon, <1>1, NatLessThanWellFounded, WFMin
<1>3. ASSUME NEW y \in T PROVE m =< y
  <2>1. m \in Nat /\ y \in Nat
    BY Zenon, <1>1
  <2>2. ~(y < m)
    BY Zenon, <2>1, <1>2 DEF OpToRel
  <2> QED
    BY <2>1, <2>2
<1>4. Min(T) \in T
  BY Zenon, <1>3 DEF Min
<1> QED
  BY Zenon, <1>4 DEF NewFd, FreeFds

\* Taking the first waiting peer off the queue.
LEMMA FirstLeaves ==
  ASSUME GatewayInv, backlog # << >>, backlog' = Tail(backlog), socket' = socket
  PROVE  /\ Head(backlog) \in Peers /\ backlog' \in Seq(Peers)
         /\ Fresh(Head(backlog)) /\ ~Connected(Head(backlog))
         /\ reason[Head(backlog)] = "open" /\ handled[Head(backlog)] = << >>
         /\ owing[Head(backlog)] = << >> /\ got[Head(backlog)] = << >>
         /\ socket[Head(backlog)].out = << >>
         /\ \A i, j \in DOMAIN backlog' : backlog'[i] = backlog'[j] => i = j
         /\ \A q \in Peers : /\ Waiting(q)' => Waiting(q)
                             /\ Fresh(q)' => Fresh(q) /\ q # Head(backlog)
<1> USE DEF GatewayInv
<1>1. backlog \in Seq(Peers)
  BY Zenon DEF TypeOK
<1>2. /\ Head(backlog) \in Peers /\ backlog' \in Seq(Peers)
      /\ Head(backlog) = backlog[1] /\ Len(backlog) \in Nat /\ Len(backlog) > 0
      /\ DOMAIN backlog = 1 .. Len(backlog) /\ DOMAIN backlog' = 1 .. Len(backlog) - 1
      /\ \A i \in 1 .. Len(backlog) - 1 : backlog'[i] = backlog[i + 1]
  BY <1>1
<1>3. \A i, j \in 1 .. Len(backlog) : backlog[i] = backlog[j] => i = j
  BY Zenon, <1>2 DEF Sessions
<1>4. \A i, j \in DOMAIN backlog' : backlog'[i] = backlog'[j] => i = j
  BY <1>2, <1>3
<1>5. ASSUME NEW q \in Peers, Waiting(q)' PROVE Waiting(q) /\ q # Head(backlog)
  <2>1. PICK i \in 1 .. Len(backlog) - 1 : backlog'[i] = q
    BY Zenon, <1>2, <1>5 DEF Waiting
  <2>2. i + 1 \in 1 .. Len(backlog) /\ backlog[i + 1] = q /\ 1 \in 1 .. Len(backlog) /\ i + 1 # 1
    BY <2>1, <1>2
  <2> QED
    BY Zenon, <2>2, <1>2, <1>3 DEF Waiting
<1>6. Waiting(Head(backlog))
  <2>1. 1 \in 1 .. Len(backlog)
    BY <1>2
  <2> QED
    BY Zenon, <2>1, <1>2 DEF Waiting
<1>7. socket[Head(backlog)].end # "new"
  BY Zenon, <1>2, <1>6 DEF Sessions
<1>8. \A q \in Peers : Fresh(q)' => Fresh(q) /\ q # Head(backlog)
  BY Zenon, <1>5, <1>7 DEF Fresh
<1>9. Fresh(Head(backlog))
  BY Zenon, <1>6 DEF Fresh
<1> QED
  BY Zenon, <1>2, <1>4, <1>5, <1>8, <1>9 DEF Sessions

\* A peer is turned away: only its reason changes.
LEMMA RefusedKeeps ==
  ASSUME GatewayInv, accept_ready, pc' # "event", Refused
  PROVE  GatewayInv'
<1> USE DEF GatewayInv
<1> DEFINE p == Head(backlog)
<1>1. /\ backlog # << >> /\ backlog' = Tail(backlog) /\ pc' = pc
      /\ reason' = [reason EXCEPT ![p] = "refused"]
      /\ by_id_' = by_id_ /\ by_fd_' = by_fd_ /\ next_id_' = next_id_
      /\ interest' = interest /\ owner' = owner /\ events' = events
      /\ current' = current /\ owed' = owed /\ socket' = socket /\ sent' = sent
      /\ handled' = handled /\ owing' = owing /\ got' = got
  BY Zenon DEF accept_ready, Refused, gatewayVars
<1>2. /\ p \in Peers /\ backlog' \in Seq(Peers) /\ ~Connected(p)
      /\ \A i, j \in DOMAIN backlog' : backlog'[i] = backlog'[j] => i = j
      /\ \A q \in Peers : Waiting(q)' => Waiting(q)
      /\ \A q \in Peers : Fresh(q)' => Fresh(q) /\ q # p
  BY Zenon, <1>1, FirstLeaves
<1>3. reason \in [Peers -> Reasons] /\ "refused" \in Reasons
  BY Zenon DEF TypeOK, Reasons
<1>4. /\ reason' \in [Peers -> Reasons] /\ reason'[p] = "refused"
      /\ \A q \in Peers : q # p => reason'[q] = reason[q]
  BY ZenonT(30), <1>1, <1>2, <1>3
<1> HIDE DEF p
<1>5. TypeOK'
  BY Zenon, <1>1, <1>2, <1>4 DEF TypeOK
<1>6. TablesAgree'
  BY Zenon, <1>1 DEF TablesAgree
<1>7. Sessions'
  <2>1. \A q \in Peers : Connected(q)' <=> Connected(q)
    BY Zenon, <1>1 DEF Connected
  <2>2. \A q \in Peers :
          /\ socket'[q].end = "new" => ~Waiting(q)'
          /\ Fresh(q)' => /\ ~Connected(q)' /\ reason'[q] = "open"
                          /\ handled'[q] = << >> /\ owing'[q] = << >>
                          /\ got'[q] = << >> /\ socket'[q].out = << >>
          /\ Connected(q)' => reason'[q] = "open"
    BY ZenonT(30), <2>1, <1>1, <1>2, <1>4 DEF Sessions
  <2> QED
    BY Zenon, <2>2, <1>1, <1>2 DEF Sessions
<1>8. EventsAreCurrent'
  <2>1. (Live' <=> Live) /\ This' = This /\ Peer' = Peer
    BY Zenon, <1>1 DEF Live, This, Peer
  <2> QED
    BY Zenon, <1>1, <2>1 DEF EventsAreCurrent
<1>9. InboundSound'
  <2>1. \A id \in DOMAIN by_id_ : PeerOf(id)' = PeerOf(id) /\ Stream(id)' = Stream(id)
    BY Zenon, <1>1 DEF PeerOf, Stream
  <2>2. "refused" \notin {"closed", "hung up"}
    OBVIOUS
  <2>3. \A q \in Peers : reason'[q] \in {"closed", "hung up"} => handled'[q] = sent'[q]
    BY Zenon, <2>2, <1>1, <1>4 DEF InboundSound
  <2> QED
    BY Zenon, <2>1, <2>3, <1>1, <1>2 DEF InboundSound, Arrives
<1>10. OutboundSound'
  <2>1. \A id \in DOMAIN by_id_ : PeerOf(id)' = PeerOf(id) /\ Replies(id)' = Replies(id)
    BY ZenonT(30), <1>1 DEF PeerOf, Replies, Pending
  <2> QED
    BY Zenon, <1>1, <2>1 DEF OutboundSound
<1> QED
  BY ZenonT(30), <1>5, <1>6, <1>7, <1>8, <1>9, <1>10

\* A peer is accepted: a new connection, on a descriptor no event is left for,
\* to which all the peer has sent is still to come.
LEMMA AcceptedKeeps ==
  ASSUME GatewayInv, accept_ready, pc' # "event", Accepted
  PROVE  GatewayInv'
<1> USE DEF GatewayInv
<1>0. PICK p, fd, n : p = Head(backlog) /\ fd = NewFd /\ n = next_id_
  OBVIOUS
<1>1. /\ backlog # << >> /\ backlog' = Tail(backlog) /\ pc' = pc /\ pc = "accept"
      /\ reason' = reason /\ events' = events /\ owner' = With(owner, fd, p)
      /\ interest' = With(interest, fd, "Read") /\ by_fd_' = With(by_fd_, fd, n)
      /\ by_id_' = With(by_id_, n, Connection(fd)) /\ next_id_' = n + 1
      /\ current' = current /\ owed' = owed /\ socket' = socket /\ sent' = sent
      /\ handled' = handled /\ owing' = owing /\ got' = got
  BY Zenon, <1>0 DEF accept_ready, Accepted
<1>2. /\ p \in Peers /\ backlog' \in Seq(Peers) /\ Fresh(p) /\ ~Connected(p)
      /\ reason[p] = "open" /\ handled[p] = << >> /\ owing[p] = << >>
      /\ got[p] = << >> /\ socket[p].out = << >>
      /\ \A i, j \in DOMAIN backlog' : backlog'[i] = backlog'[j] => i = j
      /\ \A q \in Peers : Waiting(q)' => Waiting(q)
      /\ \A q \in Peers : Fresh(q)' => Fresh(q) /\ q # p
  BY Zenon, <1>0, <1>1, FirstLeaves
<1>3. fd \in Fds /\ fd \notin DOMAIN owner
  <2>1. FreeFds # {}
    BY Zenon DEF accept_ready
  <2> QED
    BY Zenon, <2>1, <1>0, NewFdIsFree
<1>4. n \in Nat \ {0} /\ DOMAIN by_id_ \subseteq 1 .. n - 1 /\ n \notin DOMAIN by_id_
  <2>1. n \in Nat \ {0} /\ DOMAIN by_id_ \subseteq 1 .. n - 1
    BY ZenonT(30), <1>0 DEF TypeOK
  <2> QED
    BY <2>1
<1>5. /\ DOMAIN by_id_' = DOMAIN by_id_ \cup {n} /\ by_id_'[n] = Connection(fd)
      /\ \A id \in DOMAIN by_id_ : by_id_'[id] = by_id_[id]
      /\ DOMAIN by_fd_' = DOMAIN by_fd_ \cup {fd} /\ by_fd_'[fd] = n
      /\ \A f \in DOMAIN by_fd_ : f # fd => by_fd_'[f] = by_fd_[f]
      /\ DOMAIN owner' = DOMAIN owner \cup {fd} /\ owner'[fd] = p
      /\ \A f \in DOMAIN owner : owner'[f] = owner[f]
      /\ DOMAIN interest' = DOMAIN interest \cup {fd}
  BY Zenon, <1>1, <1>3, <1>4 DEF With
<1>6. /\ Connection(fd) \in ConnectionT /\ Connection(fd).fd = fd
      /\ Connection(fd).inbound = << >> /\ Connection(fd).outbound = << >>
      /\ Connection(fd).outbound_sent = 0 /\ Len(Connection(fd).inbound) = 0
      /\ Len(Connection(fd).outbound) = 0
  BY <1>3 DEF Connection, ConnectionT, Accounts
<1>7. TypeOK'
  <2>1. by_id_' \in [DOMAIN by_id_' -> ConnectionT]
    <3>1. by_id_ \in [DOMAIN by_id_ -> ConnectionT]
      BY Zenon DEF TypeOK
    <3> QED
      BY ZenonT(30), <1>1, <1>5, <1>6, <3>1 DEF With
  <2>2. by_fd_' \in [DOMAIN by_fd_' -> Nat]
    <3>1. by_fd_ \in [DOMAIN by_fd_ -> Nat]
      BY Zenon DEF TypeOK
    <3> QED
      BY ZenonT(30), <1>1, <1>4, <1>5, <3>1 DEF With
  <2>3. owner' \in [DOMAIN owner' -> Peers] /\ DOMAIN owner' \subseteq Fds
    <3>1. owner \in [DOMAIN owner -> Peers] /\ DOMAIN owner \subseteq Fds
      BY ZenonT(30) DEF TypeOK
    <3> QED
      BY ZenonT(30), <1>1, <1>2, <1>3, <1>5, <3>1 DEF With
  <2>4. next_id_' \in Nat \ {0} /\ DOMAIN by_id_' \subseteq 1 .. next_id_' - 1
    <3>1. next_id_' = n + 1 /\ DOMAIN by_id_' = DOMAIN by_id_ \cup {n}
      BY Zenon, <1>1, <1>5
    <3> QED
      BY <3>1, <1>4
  <2> QED
    BY ZenonT(30), <2>1, <2>2, <2>3, <2>4, <1>1, <1>2 DEF TypeOK
<1>8. TablesAgree'
  <2>1. /\ DOMAIN by_fd_ = {by_id_[id].fd : id \in DOMAIN by_id_}
        /\ \A id \in DOMAIN by_id_ : by_fd_[by_id_[id].fd] = id
        /\ DOMAIN owner = DOMAIN by_fd_
        /\ DOMAIN interest = DOMAIN by_fd_ \cup {listen_fd_}
    BY ZenonT(30) DEF TablesAgree
  <2>2. DOMAIN by_fd_' = {by_id_'[id].fd : id \in DOMAIN by_id_'}
    <3>1. ASSUME NEW f \in DOMAIN by_fd_'
          PROVE  \E id \in DOMAIN by_id_' : f = by_id_'[id].fd
      <4>1. CASE f = fd
        BY Zenon, <4>1, <1>5, <1>6
      <4>2. CASE f # fd
        <5>1. PICK id \in DOMAIN by_id_ : f = by_id_[id].fd
          BY Zenon, <4>2, <2>1, <1>5
        <5> QED
          BY Zenon, <5>1, <1>5
      <4> QED
        BY Zenon, <4>1, <4>2
    <3>2. ASSUME NEW id \in DOMAIN by_id_'
          PROVE  by_id_'[id].fd \in DOMAIN by_fd_'
      <4>1. CASE id = n
        BY Zenon, <4>1, <1>5, <1>6
      <4>2. CASE id # n
        <5>1. id \in DOMAIN by_id_ /\ by_id_'[id] = by_id_[id]
          BY Zenon, <4>2, <1>5
        <5>2. by_id_[id].fd \in DOMAIN by_fd_
          BY Zenon, <5>1, <2>1
        <5> QED
          BY Zenon, <5>1, <5>2, <1>5
      <4> QED
        BY Zenon, <4>1, <4>2
    <3> QED
      BY Zenon, <3>1, <3>2
  <2>3. ASSUME NEW id \in DOMAIN by_id_'
        PROVE  by_fd_'[by_id_'[id].fd] = id
    <3>1. CASE id = n
      BY Zenon, <3>1, <1>5, <1>6
    <3>2. CASE id # n
      <4>1. /\ id \in DOMAIN by_id_ /\ by_id_'[id] = by_id_[id]
            /\ by_id_[id].fd \in DOMAIN by_fd_
        BY Zenon, <3>2, <2>1, <1>5
      <4>2. by_id_[id].fd # fd
        BY Zenon, <4>1, <2>1, <1>3
      <4> QED
        BY Zenon, <4>1, <4>2, <2>1, <1>5
    <3> QED
      BY Zenon, <3>1, <3>2
  <2>4. DOMAIN owner' = DOMAIN by_fd_' /\ DOMAIN interest' = DOMAIN by_fd_' \cup {listen_fd_}
    BY Zenon, <2>1, <1>5
  <2> QED
    BY Zenon, <2>2, <2>3, <2>4 DEF TablesAgree
<1>9. \A q \in Peers : Connected(q)' <=> Connected(q) \/ q = p
  BY Zenon, <1>5 DEF Connected
<1>10. Sessions'
  <2>1. \A f, g \in DOMAIN owner' : owner'[f] = owner'[g] => f = g
    <3>1. \A f, g \in DOMAIN owner : owner[f] = owner[g] => f = g
      BY Zenon DEF Sessions
    <3>2. \A f \in DOMAIN owner : owner[f] # p
      BY Zenon, <1>2 DEF Connected
    <3> QED
      BY <3>1, <3>2, <1>5
  <2>2. \A q \in Peers :
          /\ socket'[q].end = "new" => ~Waiting(q)'
          /\ Fresh(q)' => /\ ~Connected(q)' /\ reason'[q] = "open"
                          /\ handled'[q] = << >> /\ owing'[q] = << >>
                          /\ got'[q] = << >> /\ socket'[q].out = << >>
          /\ Connected(q)' => reason'[q] = "open"
    BY Zenon, <1>1, <1>2, <1>9 DEF Sessions
  <2> QED
    BY Zenon, <2>1, <2>2, <1>2 DEF Sessions
<1>11. EventsAreCurrent'
  <2>1. current.id = 0
    BY Zenon, <1>1 DEF EventsAreCurrent
  <2>2. 0 \notin DOMAIN by_id_'
    BY <1>4, <1>5
  <2>3. ~Live'
    BY Zenon, <2>1, <2>2, <1>1 DEF Live
  <2>4. pc' \notin {"write", "decode"}
    BY Zenon, <1>1
  <2>5. \A e \in events' :
          \/ e.fd = listen_fd_
          \/ /\ e.fd \in DOMAIN owner' /\ owner'[e.fd] = e.about
             /\ e.closed => e.readable /\ socket'[e.about].end \in {"fin", "rst"}
    <3>1. \A e \in events : e.fd \in DOMAIN owner =>
            e.fd \in DOMAIN owner' /\ owner'[e.fd] = owner[e.fd]
      BY Zenon, <1>5
    <3> QED
      BY Zenon, <3>1, <1>1 DEF EventsAreCurrent
  <2> QED
    BY Zenon, <2>1, <2>3, <2>4, <2>5, <1>1 DEF EventsAreCurrent
<1>12. /\ \A id \in DOMAIN by_id_ : PeerOf(id)' = PeerOf(id)
       /\ PeerOf(n)' = p
  <2>1. \A id \in DOMAIN by_id_ : by_id_[id].fd \in DOMAIN owner
    BY Zenon, PeersOfConnections
  <2> QED
    BY Zenon, <2>1, <1>5, <1>6 DEF PeerOf
<1>13. InboundSound'
  <2>1. \A id \in DOMAIN by_id_ : Arrives(PeerOf(id), Stream(id))'
    <3>1. \A id \in DOMAIN by_id_ : Stream(id)' = Stream(id)
      BY Zenon, <1>1, <1>5, <1>12 DEF Stream
    <3> QED
      BY Zenon, <3>1, <1>1, <1>12 DEF InboundSound, Arrives
  <2>2. Arrives(PeerOf(n), Stream(n))'
    <3>1. socket[p].in \in Seq(CellT)
      BY Zenon, <1>2 DEF TypeOK, SocketT
    <3>2. Cells(<< >>) = << >>
      <4>1. << >> \in Seq(Messages) /\ Len(<< >>) = 0
        OBVIOUS
      <4>3. Cells(<< >>) \in Seq(CellT) /\ Len(Cells(<< >>)) = 2 * Len(<< >>)
        BY Zenon, <4>1, CellsType
      <4>2. Cells(<< >>) \in Seq(CellT) /\ Len(Cells(<< >>)) = 0
        BY <4>1, <4>3
      <4> QED
        BY Zenon, <4>2, EmptySeq
    <3>a. /\ handled'[p] = << >> /\ by_id_'[n].inbound = << >>
          /\ socket'[p].in = socket[p].in
      BY Zenon, <1>1, <1>2, <1>5, <1>6
    <3>3. Stream(n)' = << >> \o << >> \o socket[p].in
      BY Zenon, <3>2, <3>a, <1>12 DEF Stream
    <3>4. Stream(n)' = socket[p].in
      BY <3>1, <3>3
    <3>5. Arrives(p, socket[p].in)
      BY Zenon, <1>2 DEF InboundSound
    <3> QED
      BY ZenonT(30), <3>4, <3>5, <1>1, <1>12 DEF Arrives
  <2>3. \A id \in DOMAIN by_id_' : Len(by_id_'[id].inbound) < 2
    <3>1. \A id \in DOMAIN by_id_ : Len(by_id_[id].inbound) < 2
      BY Zenon, <1>1, Idle
    <3> QED
      BY <3>1, <1>5, <1>6
  <2>4. \A id \in DOMAIN by_id_' : Arrives(PeerOf(id), Stream(id))'
    BY Zenon, <2>1, <2>2, <1>5
  <2>5. \A q \in Peers : Fresh(q)' => Arrives(q, socket[q].in)'
    BY Zenon, <1>1, <1>2 DEF InboundSound, Arrives
  <2> QED
    BY Zenon, <2>3, <2>4, <2>5, <1>1 DEF InboundSound
<1>14. OutboundSound'
  <2>1. \A id \in DOMAIN by_id_ : Replies(id)' = owing'[PeerOf(id)']
    <3>1. \A id \in DOMAIN by_id_ : Replies(id)' = Replies(id)
      BY ZenonT(30), <1>1, <1>5, <1>12 DEF Replies, Pending
    <3> QED
      BY Zenon, <3>1, <1>1, <1>12 DEF OutboundSound
  <2>2. Replies(n)' = owing'[PeerOf(n)']
    <3>1. Pending(Connection(fd)) = << >>
      BY <1>6 DEF Pending
    <3>2. Replies(n)' = << >> \o << >> \o << >>
      <4>1. /\ got'[p] = << >> /\ socket'[p].out = << >>
            /\ by_id_'[n] = Connection(fd)
        BY Zenon, <1>1, <1>2, <1>5
      <4>2. Pending(by_id_[n])' = << >>
        BY ZenonT(30), <3>1, <4>1 DEF Pending
      <4> QED
        BY Zenon, <4>1, <4>2, <1>12 DEF Replies
    <3> QED
      BY SMTT(20), <3>2, <1>1, <1>2, <1>12
  <2>3. \A id \in DOMAIN by_id_' : by_id_'[id].outbound_sent <= Len(by_id_'[id].outbound)
    <3>1. by_id_'[n].outbound_sent <= Len(by_id_'[n].outbound)
      BY SMTT(20), <1>5, <1>6
    <3>2. \A id \in DOMAIN by_id_ : by_id_'[id].outbound_sent <= Len(by_id_'[id].outbound)
      BY Zenon, <1>5 DEF OutboundSound
    <3> QED
      BY Zenon, <3>1, <3>2, <1>5
  <2>4. \A id \in DOMAIN by_id_' : Replies(id)' = owing'[PeerOf(id)']
    BY Zenon, <2>1, <2>2, <1>5
  <2> QED
    BY Zenon, <2>3, <2>4, <1>1 DEF OutboundSound
<1> QED
  BY Zenon, <1>7, <1>8, <1>10, <1>11, <1>13, <1>14

\* accept_ready() takes one waiting peer, refuses it, or ends its loop.
LEMMA accept_readyKeeps ==
  ASSUME GatewayInv, accept_ready
  PROVE  GatewayInv'
<1>1. CASE pc' = "event"
  <2> USE DEF GatewayInv
  <2>1. /\ UNCHANGED <<gatewayVars, kernelVars, historyVars>>
        /\ events' = events /\ current' = current /\ owed' = owed
        /\ pc = "accept" /\ pc' = "event" /\ by_id_' = by_id_ /\ owner' = owner
        /\ socket' = socket
    BY Zenon, <1>1 DEF accept_ready, gatewayVars, kernelVars, historyVars
  <2>2. (Live' <=> Live) /\ This' = This /\ Peer' = Peer
    BY Zenon, <2>1 DEF Live, This, Peer
  <2>3. EventsAreCurrent'
    <3>1. pc' \notin {"write", "decode"} /\ pc' # "closed" /\ current.id = 0
      BY Zenon, <2>1 DEF EventsAreCurrent
    <3> QED
      BY ZenonT(30), <3>1, <2>1, <2>2 DEF EventsAreCurrent
  <2>4. /\ owed' \in Nat /\ events' \subseteq EventT
        /\ current' \in [id : Nat, readable : BOOLEAN, closed : BOOLEAN,
                         about : Peers \cup {NoOne}]
    BY Zenon, <2>1 DEF TypeOK
  <2> QED
    BY Zenon, <2>1, <2>3, <2>4, Idle, LoopKeeps
<1>2. CASE pc' # "event"
  <2>1. Refused \/ Accepted
    BY Zenon, <1>2 DEF accept_ready
  <2> QED
    BY Zenon, <1>2, <2>1, RefusedKeeps, AcceptedKeeps
<1> QED
  BY Zenon, <1>1, <1>2

=============================================================================
