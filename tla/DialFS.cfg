SPECIFICATION Spec
CONSTANTS
  a = a
  b = b
  Nombres = {a, b}
  Instrucciones <- Programa
  Accesos <- Peticiones
  Letras = {1}
  block_count = 3
  block_size = 2
  BITS = 3
  MaxRotas = 1
  NULL = NULL
SYMMETRY Simetria
INVARIANTS
  TypeOK
  BitmapExacto
  MuereSoloSinArchivo
PROPERTIES
  ImplementaArchivos
