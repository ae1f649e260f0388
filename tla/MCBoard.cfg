SPECIFICATION BoardSpec
CONSTANTS
  Fds = {fd1, fd2}
  NoSock = NoSock
  MaxFrames = 2
  MaxDrops = 1
  Aps = {hotspot}
  NoAp = NoAp
INVARIANTS SocketsAccounted SendsOnLiveSocket FramesIntact OneDialDue
PROPERTIES CallsReturn Reconnects
