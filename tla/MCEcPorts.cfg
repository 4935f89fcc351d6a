CONSTANTS
  t1 = t1
  t2 = t2
  Callers = {t1, t2}
  Free = Free
  Regs <- MCRegs
  Words = {320}
  Live = {321}
  Bytes = {1, 2}
SPECIFICATION PortSpec
INVARIANTS DataIsOwn SteadyWordsAreWhole
PROPERTY AccessesAreAtomic
