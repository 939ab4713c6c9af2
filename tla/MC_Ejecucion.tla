---------------------------- MODULE MC_Ejecucion ----------------------------
EXTENDS Ejecucion
CONSTANTS p1, p2
Configs == {[entradas |-> 0, algoritmo |-> "FIFO"], [entradas |-> 2, algoritmo |-> "FIFO"],
            [entradas |-> 2, algoritmo |-> "LRU"]}
ConfigsLru == {[entradas |-> 2, algoritmo |-> "LRU"]}
Programa ==
  {[op |-> "SET", a |-> "ax", b |-> 1], [op |-> "SET", a |-> "eax", b |-> 2],
   [op |-> "SET", a |-> "di", b |-> 1], [op |-> "SUM", a |-> "ax", b |-> "eax"],
   [op |-> "SUB", a |-> "eax", b |-> "ax"],
   [op |-> "RESIZE", a |-> 1, b |-> 0], [op |-> "RESIZE", a |-> 4, b |-> 0],
   [op |-> "MOV_OUT", a |-> "ax", b |-> "eax"], [op |-> "MOV_IN", a |-> "eax", b |-> "di"],
   [op |-> "COPY_STRING", a |-> 3, b |-> 0],
   [op |-> "IO_STDIN_READ", a |-> "di", b |-> "eax"],
   [op |-> "IO_STDOUT_WRITE", a |-> "ax", b |-> "eax"]}
ProgramaLru ==
  {[op |-> "RESIZE", a |-> 4, b |-> 0], [op |-> "SET", a |-> "di", b |-> 2],
   [op |-> "MOV_IN", a |-> "ax", b |-> "si"], [op |-> "MOV_IN", a |-> "ax", b |-> "di"]}
=============================================================================
