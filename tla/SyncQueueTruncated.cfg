SPECIFICATION Spec
CONSTANTS
  f1 = f1 s1 = s1 s2 = s2 pA = pA cA = cA cB = cB
  h1 = h1 h2 = h2 w1 = w1 w2 = w2 NoWorker = NoWorker
  Files = {f1}
  Storages = {s1, s2}
  Projects = {pA}
  Containers = {cA, cB}
  Job <- MCJob
  Seed <- MCSeed
  ContainerOf <- MCContainerOf
  BatchLimit = 2
  Tasks = {1}
  Workers = {w1, w2}
  Hosts = {h1}
  HostOf <- MCOneHost
  LocalDisks = {}
  AtomicStores = {s1, s2}
  MaxRetries = 1
  MaxFaults = 0
INVARIANT ReplicaWhole
