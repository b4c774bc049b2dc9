SPECIFICATION FairSpec
CONSTANTS
  c1 = c1
  c2 = c2
  c3 = c3
  Clients <- MCClients
  Fds <- MCFds
  Listening = Listening
  Free = Free
INVARIANTS
  TypeOK
  ListenerSurvives
  NoConnectionLeaks
PROPERTIES
  ConnectionsEnd
CHECK_DEADLOCK FALSE
