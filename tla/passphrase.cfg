CONSTANTS
  dep1 = dep1
  dep2 = dep2
  vpc = vpc
  cluster = cluster
  net = net
  c1 = c1
  c2 = c2
  me = me
  you = you
  Deployment = {dep1, dep2}
  Root = {vpc, cluster}
  StateFile = {net, c1, c2}
  FileOf <- SharedNetwork
  Checkouts = {{vpc, cluster}, {cluster}}
  Laptop = {me, you}
  Cached = {me, you}
  MaxKeys = 2
  MaxFaults = 1
SPECIFICATION FairSpec
INVARIANTS
  TypeOK
  LicenceTrue
  StatesReadable
PROPERTIES
  RolloverConverges
