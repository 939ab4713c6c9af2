SPECIFICATION Spec
CONSTANTS
  MaxProcesos = 2
  Interfaces = {GEN}
  Recursos = {RA}
  InstanciasIniciales <- Instancias1
  GradoInicial = 2
  Grados = {1}
  MaxCambios = 1
  MaxFinalizaciones = 1
  Algoritmo = "VRR"
  Eventos = {"MULTIPROGRAMACION", "FINALIZAR_PROCESO", "MUTEX_COPIADO"}
  Disciplinados = TRUE
  MaxInstancias = 2
  MaxCarreras = 0
  Ninguno = Ninguno
  GEN = GEN
  RA = RA
CHECK_DEADLOCK FALSE
INVARIANTS
  UnSoloProcesoEnCpu
  AvisosSuficientes
  InstanciasNoSePierden
