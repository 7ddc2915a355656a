SPECIFICATION EspFairSpec
CONSTANTS
  Sock = {"s0", "s1"}
  NoSock = "none"
  MaxEvents = 2
  MaxAsleep = 2
INVARIANT ServedClientIsKnown
INVARIANT NobodyIsTurnedAway
INVARIANT NoSocketIsLost
INVARIANT EspStatusIsTrue
INVARIANT EspNoStandstill
PROPERTY EspKeepsTrying
PROPERTY ListensAgain
