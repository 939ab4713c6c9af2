SPECIFICATION Spec
CONSTANTS
  BYTE = 2
  ANCHO = 2
  TamPagina = 2
  Frames = 3
  Configuraciones <- ConfigsLru
  MaxPasos = 6
  MaxPasosRota = 2
  NULL = NULL
  p1 = p1
  p2 = p2
  Procesos = {p1}
  Instrucciones <- ProgramaLru
CHECK_DEADLOCK FALSE
INVARIANT LruSacaLaMenosUsada
