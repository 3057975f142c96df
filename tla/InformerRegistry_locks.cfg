SPECIFICATION Spec
CONSTANTS
  w1 = w1
  w2 = w2
  p1 = p1
  k1 = k1
  k2 = k2
  crd = crd
  pod = pod
  Workers = {w1, w2}
  Probes = {p1}
  Keys = {k1, k2}
  Kinds = {crd}
  KindOf <- SameKind
  Regular = {}
  MaxAttempts = 2
  MaxChanges = 1
  MaxSlow = 1
SYMMETRY Symmetry
INVARIANTS TypeOK ListsSynced NeverUnready
PROPERTIES StoresShared
