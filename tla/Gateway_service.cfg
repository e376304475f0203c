\* Two peers are served together: messages of two accounts, silent or bad, cut
\* up by recv(), with slow readers and hang-ups.
CONSTANTS
  p1 = p1  p2 = p2  p3 = p3  a1 = a1  a2 = a2
  NoAccount = NoAccount  NoOne = NoOne  listen_fd_ = 3
  Peers <- TwoPeers  Fds = {4, 5}  Messages <- EveryKind
  MaxReplies = 2  max_connections = 2  max_outbound = 1
  SocketRoom = 1  MaxMessages = 2  MaxTraffic = 2  MayAbort = FALSE  Crowded = FALSE
SPECIFICATION MCFairSpec
INVARIANTS MessagesArriveInOrder HangUpLosesNothing
PROPERTIES EveryoneIsServed RepliesAreDelivered
