SPECIFICATION SpecJusta
CONSTANTS
  MaxProcesos = 2
  frames_totales = 5
  BITS = 2
  TamPagina = 2
  MaxTamanio = 6
  NULL = NULL
CHECK_DEADLOCK FALSE
INVARIANTS
  TypeOK
  MarcosConservados
  AbortoSoloAlLiberar
  AdmitidosCargados
PROPERTIES
  PedidoRespondido
