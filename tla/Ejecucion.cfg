SPECIFICATION Spec
CONSTANTS
  BYTE = 2
  ANCHO = 2
  TamPagina = 2
  Frames = 3
  Configuraciones <- Configs
  MaxPasos = 5
  MaxPasosRota = 2
  NULL = NULL
  p1 = p1
  p2 = p2
  Procesos = {p1, p2}
  Instrucciones <- Programa
CHECK_DEADLOCK FALSE
INVARIANTS
  TypeOK
  FramesSinCompartir
  TlbSinRepetidas
  VictimaLruCasiVieja
PROPERTIES
  ImplementaCpuLogica
