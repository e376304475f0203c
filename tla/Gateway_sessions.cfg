\* Three peers share two descriptors: reuse, refusal and resets.
CONSTANTS
  p1 = p1  p2 = p2  p3 = p3  a1 = a1  a2 = a2
  NoAccount = NoAccount  NoOne = NoOne  listen_fd_ = 3
  Peers <- ThreePeers  Fds = {4, 5, 6}  Messages <- OneKind
  MaxReplies = 2  max_connections = 2  max_outbound = 2
  SocketRoom = 1  MaxMessages = 2  MaxTraffic = 2  MayAbort = TRUE  Crowded = TRUE
SPECIFICATION MCSpec
SYMMETRY Symmetry
INVARIANTS TablesAgree EventsReachTheirConnection RepliesReachTheirSender
