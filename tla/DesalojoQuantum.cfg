SPECIFICATION Spec
CONSTANTS
  p1 = p1
  p2 = p2
  NULL = NULL
  Procesos = {p1, p2}
  Algoritmos = {"RR"}
  Quantum = 1
  UltimoPc = 0
  MaxDespachos = 2
  MaxUsuario = 0
CHECK_DEADLOCK FALSE
INVARIANTS
  QuantumConsumido
