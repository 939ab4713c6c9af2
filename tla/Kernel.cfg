SPECIFICATION Spec
CONSTANTS
  MaxProcesos = 2
  Interfaces = {GEN}
  Recursos = {RA}
  InstanciasIniciales <- Instancias1
  GradoInicial = 2
  Grados = {1, 3}
  MaxCambios = 1
  MaxFinalizaciones = 0
  Algoritmo = "VRR"
  Eventos = {"DETENER_PLANIFICACION", "MULTIPROGRAMACION", "DESCONEXION_IO", "MUTEX_COPIADO"}
  Disciplinados = TRUE
  MaxInstancias = 2
  MaxCarreras = 1
  Ninguno = Ninguno
  GEN = GEN
  RA = RA
CHECK_DEADLOCK FALSE
INVARIANTS
  TypeOK
  AvisosJustos
  
  CadaProcesoEnUnLugar
  EstadoSegunCola
  GradoConservado
  InstanciasConservadas
  ExitSinRecursos
PROPERTY
  ImplementaDiagrama
