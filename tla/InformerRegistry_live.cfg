SPECIFICATION FairSpec
CONSTANTS
  w1 = w1
  w2 = w2
  p1 = p1
  k1 = k1
  k2 = k2
  crd = crd
  pod = pod
  Workers = {w1}
  Probes = {p1}
  Keys = {k1, k2}
  Kinds = {crd, pod}
  KindOf <- OwnKind
  Regular = {pod}
  MaxAttempts = 1
  MaxChanges = 1
  MaxSlow = 0
PROPERTIES ReconcileEnds ProbeAnswered TargetServed
