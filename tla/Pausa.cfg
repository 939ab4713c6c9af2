SPECIFICATION SpecJusta
CONSTANTS
  Hilos = {largo, corto, io}
  Comandos = {"INICIAR_PLANIFICACION", "DETENER_PLANIFICACION"}
  MaxAvisos = 2
  Nadie = Nadie
  largo = largo
  corto = corto
  io = io
CHECK_DEADLOCK FALSE
INVARIANTS
  TypeOK
  MutexExclusivo
  SaleConLaPlanificacionActiva
  AvisoPendiente
  SoloTrabaLaSegundaParada
PROPERTIES
  ImplementaPuerta
  DormidoPasa
