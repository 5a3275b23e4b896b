\* Three connections and two losses, so that the receiver of the channel is
\* handed on twice; a channel of one, so that the sink has to wait.
CONSTANTS
  m1 = m1 m2 = m2
  Message = {m1, m2}
  Depth = 1
  MaxConn = 3
  MaxFaults = 2

SPECIFICATION FairSpec

INVARIANTS
  NothingForgotten
  ChannelSurvives
  HealthyMeansRunning
  RunningIsReachable
  ReportedInTurn

PROPERTIES
  Reconnects
  Settles

\* All messages may be sent, or the transport stopped.
CHECK_DEADLOCK FALSE
