SPECIFICATION FairSpec
CONSTANTS
  s1 = s1  s2 = s2  r1 = r1  r2 = r2  old = old  new = new  copy = copy
  Servers = {s1, s2}
  Resources = {r1}
  Sources = {old, new, copy}
  NoSource = NoSource
  Material <- MCMaterial
  MaxNames = 2
  MaxVersions = 5
  MaxReplacements = 1
  MaxFaults = 1
INVARIANT TypeOK AllReadable ActiveRefTrue
PROPERTY RotationIsKeyRing RotationCompletes
