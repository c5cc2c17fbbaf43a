SPECIFICATION Spec
CONSTANTS
  site = site
  localhost = localhost
  public = public
  loopback = loopback
  nohost = nohost
  outside = outside
  inside = inside
  Hosts <- MCHosts
  NoHost = nohost
  Addresses = {outside, inside}
  BlockedAddr = {inside}
  BlockedNames = {localhost}
  Literals = {public, loopback}
  AddressOf <- MCAddressOf
  Answers <- MCAnswers
  MaxRequests = 3
  Limit = 1
  MaxBody = 3
INVARIANTS
  NothingBlockedIsReached
  BodyIsWhole
