SPECIFICATION Spec
CONSTANTS
  p1 = p1
  p2 = p2
  Procs = {p1, p2}
  Gap = 2
  Stale = 4
  Renew = 1
  Landing = 1
INVARIANTS TypeOK EscsApart AloneSinceLook
SYMMETRY Symmetry
