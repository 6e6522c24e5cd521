CONSTANTS
  m1 = m1
  m2 = m2
  m3 = m3
  old = old
  new = new
  UserFile = UserFile
  Partial = Partial
  Missing = Missing
  Second = 3
  Rates = {4, 7}
  Batch = 4
  Full = 7
  MaxSince = 4
  Scripts <- MCScripts
  MaxNow = 12
  Fine = 4
  Rotations <- MCRotations
  ModNames = {m1, m2, m3}
  Releases <- MCReleases
SPECIFICATION HostSpec
INVARIANTS HostTypeOK NeverAheadOfTime  RotationIsNearest BundledModsCurrent
PROPERTY AudioGoesOn
