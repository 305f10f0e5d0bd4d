SPECIFICATION Spec
CONSTANTS
  k0 = k0 k1 = k1 p1 = p1 p2 = p2 p3 = p3 p4 = p4 p5 = p5 p6 = p6
  Page <- Page6
  BootPage <- MCBoot
  Page0 = k0
  EnvsPage = k1
  NoPage = NoPage
  Env = {e1, e2}
  PDX = {d1, d2}
  PTX = {t1}
  RefMod = 4
  Rules = {"mapped", "few", "asked"}
SYMMETRY Sym6
PROPERTY NoLoss
