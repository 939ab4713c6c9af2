SPECIFICATION SpecJusta
CONSTANTS
  p1 = p1
  p2 = p2
  NULL = NULL
  Procesos = {p1, p2}
  Algoritmos = {"FIFO", "RR", "VRR"}
  Quantum = 1
  UltimoPc = 0
  MaxDespachos = 2
  MaxUsuario = 1
CHECK_DEADLOCK FALSE
INVARIANTS
  TypeOK
  UnSoloDueno
  PcbFiel
  UnDesalojoPorInterrupcion
PROPERTIES
  RafagaAcotada
