SPECIFICATION FairSpec
CHECK_DEADLOCK FALSE
CONSTANTS
  u1 = u1 u2 = u2 u3 = u3 d1 = d1 d2 = d2 pA = pA pB = pB
  s1 = s1 s2 = s2 cA = cA cB = cB c0 = c0 h = h NoFile = NoFile
  Hashes = {h}
  Projects = {pA, pB}
  Storages = {s1, s2}
  Containers = {c0, cA, cB}
  ContentOf <- MCContentOf
  StoragesOf <- MCStoragesOf
  Rank <- MCRank
  Default = c0
  Uploads = {u1, u2, u3}
  Deletes = {d1}
  ProjectOf <- MCTwoProjects
  ContainerOf <- MCIsolated
  MaxFaults = 1
INVARIANTS UploadedIsStored LocationResolvable
PROPERTIES CopyStays EventuallyReplicated
