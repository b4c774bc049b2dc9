SPECIFICATION Spec
CONSTANTS
  c1 = c1
  c2 = c2
  c3 = c3
  Clients <- MCClients
  Fds <- MCFds
  Listening = Listening
  Free = Free
SYMMETRY Symmetry
INVARIANT OwnDescriptor
CHECK_DEADLOCK FALSE
