SPECIFICATION SpecJusta
CONSTANTS
  MaxProcesos = 2
  Interfaces = {GEN}
  Recursos = {RA}
  InstanciasIniciales <- Instancias1
  GradoInicial = 2
  Grados = {1, 3}
  MaxCambios = 1
  MaxFinalizaciones = 0
  Algoritmo = "VRR"
  Eventos = {"DETENER_PLANIFICACION", "DESCONEXION_IO", "MUTEX_COPIADO"}
  Disciplinados = TRUE
  MaxInstancias = 2
  MaxCarreras = 0
  Ninguno = Ninguno
  GEN = GEN
  RA = RA
CHECK_DEADLOCK FALSE
PROPERTIES
  ListoLlegaACpu
  BloqueadoVuelve
