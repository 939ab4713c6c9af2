----------------------------- MODULE MC_DialFS -----------------------------
EXTENDS DialFS
CONSTANTS a, b
Programa ==
  {<<o, "FS", n>> : o \in {"IO_FS_CREATE", "IO_FS_DELETE"}, n \in {a, b}}
    \cup {<<"IO_FS_TRUNCATE", "FS", n, tam>> : n \in {a, b}, tam \in {1, 3}}
    \cup {<<"IO_FS_WRITE", "FS", n, "ax", "bx", puntero>> : n \in {a, b}, puntero \in {0, 1}}
    \cup {<<"IO_FS_READ", "FS", n, "ax", "bx", puntero>> : n \in {a, b}, puntero \in {0, 1}}
Peticiones ==
  {<<[direccion_fisica |-> 3, tam_dato |-> 1]>>,
   <<[direccion_fisica |-> 1, tam_dato |-> 1], [direccion_fisica |-> 4, tam_dato |-> 1]>>}
Simetria == Permutations({a, b})
=============================================================================
