CONSTANTS
  NF = 2
  MaxGen = 3
  LOAD_ATTEMPTS = 2
  Refused = {2}
  Identity <- MCIdentity
  Gateway <- MCGateway
  Tcp = Tcp
  Udp = Udp
  Icmp = Icmp
  Keys = {Tcp, Udp, Icmp}
  ProtocolOf <- MCProtocolOf
  BucketOf <- MCBucketOf
  Configurations <- MCConfigurations
  Capacity = 2
  MaxChain = 1
  EvictionScan = 2
  SweepStride = 1
  RevisitBuckets = 1
  RevisitFlows = 1
  FrameBudget = 1
  FramesPerWindow = 1
  MaxFrames = 2
  MaxIdle = 2
SPECIFICATION MCSpec
INVARIANTS ActiveIsOnePublication ReleaseIsFollowed
INVARIANTS QuietIsAdmitted GoneInTwoPasses
PROPERTIES OfferIsRun AssuredIsKept ForbiddenEnds
