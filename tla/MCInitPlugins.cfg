SPECIFICATION Spec
CONSTANTS
  NumPlugins = 3
  Fds = {3, 4}
  Chars = {"a", "b"}
  NUL = "NUL"
  IpSize = 4
  Junk <- MCJunk
  Ips <- MCIps
  Addresses <- MCAddresses
  Ports = {0, 80, 81}
INVARIANTS
  ListenersOwned
  AddressKept
  OthersServed
\* InitPlugins returns, or an assertion ends the process.
CHECK_DEADLOCK FALSE
