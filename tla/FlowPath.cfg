CONSTANTS
  TxQueues = {t1, t2}
  Sizes = {1}
  DiscLimit = 3
  ByteMode = FALSE
  DevMax = 2
  Mtu = 1
  Header = 1
  Limits = {0, 2, 9}
  Quota = 4
  Word = 16
  Changes = {}
  NoPacket = none
  NoLimits = unlimited
SPECIFICATION FairSpec
PROPERTIES NeverDiscarded ImplementsLink
