SPECIFICATION Spec
CONSTANTS
  MaxProcesos = 2
  Interfaces = {GEN}
  Recursos = {}
  InstanciasIniciales <- Instancias1
  GradoInicial = 2
  Grados = {1}
  MaxCambios = 0
  MaxFinalizaciones = 1
  Algoritmo = "FIFO"
  Eventos = {"FINALIZAR_PROCESO"}
  Disciplinados = TRUE
  MaxInstancias = 1
  MaxCarreras = 0
  Ninguno = Ninguno
  GEN = GEN
  RA = RA
CHECK_DEADLOCK FALSE
PROPERTY
  FinalizadoNoVuelve
