\* Two bridges, a dialler whose delay starts at one and stops at three, three
\* failures of the network and one stranger.
SPECIFICATION FairSpec
CONSTANTS
  hq = hq
  field = field
  relay = relay
  depot = depot
  Process = {hq, field}
  Dialler = field
  Listener = hq
  Settings <- MCSettings
  Unreachable = {depot}
  InitialDelay = 1
  MaxDelay = 3
  MaxFaults = 3
  MaxStrangers = 1
CHECK_DEADLOCK FALSE
INVARIANTS
  FlagsInForce
  NoPlaintext
  EndsAgree
PROPERTIES
  Linked
  MeshPeersConnected
