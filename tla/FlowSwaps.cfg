CONSTANTS
  TxQueues = {t1}
  Sizes = {1, 2}
  DiscLimit = 4
  ByteMode = TRUE
  DevMax = 6
  Mtu = 2
  Header = 1
  Limits = {0, 4, 9}
  Quota = 2
  Word = 16
  Changes = {"uninstall", "install"}
  NoPacket = none
  NoLimits = unlimited
SPECIFICATION FairSpec
INVARIANTS TypeOK NotStranded StopsEnd
PROPERTIES StopsAreLifted
CHECK_DEADLOCK FALSE
