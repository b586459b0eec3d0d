SPECIFICATION KindsSpec
CONSTANTS
  t1 = t1  t2 = t2  w1 = w1  w2 = w2
  c1 = c1  c2 = c2  c3 = c3
  a1 = a1  a2 = a2  a3 = a3
  NULL = NULL
  Readers = {t1, t2}
  Callers = {w1, w2}
  Codelets = {c1, c2, c3}
  Prios = {1, 2}
  Arrays = {a1, a2, a3}
  IsCtrl = FALSE
  CallocMayFail = FALSE
SYMMETRY Sym
INVARIANTS TypeOK NoUseAfterFree ListWellFormed NoArrayLeaks NoDestroyedCodeletRuns
PROPERTY ImplementsHookList
