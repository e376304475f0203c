\* A client is always a little behind with its replies.
CONSTANTS
  p1 = p1  p2 = p2  p3 = p3  a1 = a1  a2 = a2
  NoAccount = NoAccount  NoOne = NoOne  listen_fd_ = 3
  Peers <- OnePeer  Fds = {4, 5}  Messages <- OneKind
  MaxReplies = 1  max_connections = 2  max_outbound = 2
  SocketRoom = 1  MaxMessages = 7  MaxTraffic = 7  MayAbort = FALSE  Crowded = FALSE
SPECIFICATION MCSpec
INVARIANT BufferCompacted
