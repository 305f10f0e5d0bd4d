SPECIFICATION Spec
CONSTANTS
  Env = {e1, e2, e3}
  First = e1
  NoPage = NoPage
  NoEnv = NoEnv
  Layout <- MCLayout
  ReadOnly = {"text"}
  Val = {0, 1}
  Zero = 0
  MaxFork = 2
SYMMETRY Sym
INVARIANTS TypeOK PrivateWhenWritable FaultsHandled
PROPERTIES ForkCopies FaultRepaired
CHECK_DEADLOCK FALSE
