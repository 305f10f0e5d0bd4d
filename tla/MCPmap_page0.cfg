SPECIFICATION Spec
CONSTANTS
  k0 = k0 k1 = k1 p1 = p1 p2 = p2 p3 = p3 p4 = p4 p5 = p5 p6 = p6
  Page <- Page4
  BootPage <- MCBoot
  Page0 = k0
  EnvsPage = k1
  NoPage = NoPage
  Env = {e1}
  PDX = {d1}
  PTX = {t1, t2}
  RefMod = 16
  Rules = {"asked"}
SYMMETRY Sym4
INVARIANT Page0NotFree
