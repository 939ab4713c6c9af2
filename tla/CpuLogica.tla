----------------------------- MODULE CpuLogica -----------------------------
(***************************************************************************)
(* What the instructions promise a program: a flat memory of its own,      *)
(* from logical address 0 to its size, that only its instructions and its  *)
(* input change (the comments over exec_mov_out, exec_mov_in and           *)
(* exec_io_stdin_read in execute.c).  The promise lasts until an access    *)
(* breaks it: after that step nothing is said of any memory.               *)
(***************************************************************************)
EXTENDS Operandos

CONSTANTS Procesos, Instrucciones, TamPagina, NULL

VARIABLES
  registros,
  logica,    \* the memory of each process, a sequence of bytes
  io,        \* [tipo, dl, resta, datos]: what an interface still does for it
  promesa    \* no access has broken the promise

logicaVars == <<registros, logica, io, promesa>>

Pega(s, dl, datos) ==
  [k \in DOMAIN s |-> IF dl < k /\ k <= dl + Len(datos) THEN datos[k - dl] ELSE s[k]]
Corta(s, dl, tam) == SubSeq(s, dl + 1, dl + tam)
EnRango(p, dl, tam) == tam = 0 \/ dl + tam <= Len(logica[p])

Registra(p, regs) == registros' = [registros EXCEPT ![p] = regs] /\ UNCHANGED <<logica, io>>
Guarda(p, dl, datos) ==
  /\ EnRango(p, dl, Len(datos))
  /\ logica' = [logica EXCEPT ![p] = Pega(@, dl, datos)]

Calcula(p, i) ==
  \/ i.op = "SET" /\ Registra(p, exec_set(registros[p], i.a, i.b))
  \/ i.op = "SUM" /\ Registra(p, exec_sum(registros[p], i.a, i.b))
  \/ i.op = "SUB" /\ Registra(p, exec_sub(registros[p], i.a, i.b))

\* What is added holds anything; what stays keeps its contents.
Redimensiona(p) ==
  \E s \in {logica'[p]} :
    /\ logica' = [logica EXCEPT ![p] = s]
    /\ IsPrefix(s, logica[p]) \/ IsPrefix(logica[p], s)
    /\ UNCHANGED <<registros, io>>

Mueve(p, i) ==
  LET regs == registros[p]
  IN  \/ /\ i.op = "MOV_OUT"
         /\ Guarda(p, regs[i.a], EnBytes(regs[i.b], i.b))
         /\ UNCHANGED <<registros, io>>
      \/ /\ i.op = "MOV_IN" /\ EnRango(p, regs[i.b], tam_registro(i.a))
         /\ Registra(p, exec_set(regs, i.a,
                                 DeBytes(Corta(logica[p], regs[i.b], tam_registro(i.a)))))
      \/ /\ i.op = "COPY_STRING" /\ EnRango(p, regs["si"], i.a)
         /\ Guarda(p, regs["di"], Corta(logica[p], regs["si"], i.a))
         /\ UNCHANGED <<registros, io>>

Bloquea(p, i) ==
  /\ i.op \in {"IO_STDIN_READ", "IO_STDOUT_WRITE"} /\ io[p] = NULL
  /\ io' = [io EXCEPT ![p] = [tipo |-> i.op, dl |-> registros[p][i.a],
                               resta |-> registros[p][i.b], datos |-> NULL]]
  /\ UNCHANGED <<registros, logica>>

\* The interface gets its text or its buffer, moves the bytes in pieces and in
\* order, and answers when none is left.
Interfaz(p) ==
  /\ io[p] # NULL /\ UNCHANGED registros
  /\ \/ /\ io[p].datos = NULL /\ io'[p].datos # NULL
        /\ io' = [io EXCEPT ![p].datos = io'[p].datos] /\ UNCHANGED logica
     \/ /\ io[p].datos # NULL
        /\ \E n \in 0 .. io[p].resta :
             \/ /\ io[p].tipo = "IO_STDIN_READ"
                /\ Guarda(p, io[p].dl, SubSeq(io[p].datos, 1, n))
                /\ io' = [io EXCEPT ![p].dl = @ + n, ![p].resta = @ - n,
                                    ![p].datos = SubSeq(@, n + 1, Len(@))]
             \/ /\ io[p].tipo = "IO_STDOUT_WRITE" /\ EnRango(p, io[p].dl, n)
                /\ io' = [io EXCEPT ![p].dl = @ + n, ![p].resta = @ - n,
                                    ![p].datos = @ \o Corta(logica[p], io[p].dl, n)]
                /\ UNCHANGED logica
     \/ /\ io[p].datos # NULL /\ io[p].resta = 0
        /\ io' = [io EXCEPT ![p] = NULL] /\ UNCHANGED logica

Termina(p) == logica' = [logica EXCEPT ![p] = <<>>] /\ UNCHANGED <<registros, io>>

Init ==
  /\ \A p \in Procesos : logica[p] = <<>> /\ io[p] = NULL
  /\ promesa = TRUE

Next ==
  \/ promesa' = FALSE
  \/ /\ UNCHANGED promesa
     /\ \E p \in Procesos :
          \/ \E i \in Instrucciones : Calcula(p, i) \/ Mueve(p, i) \/ Bloquea(p, i)
          \/ Redimensiona(p) \/ Interfaz(p) \/ Termina(p)

Spec == Init /\ [][Next]_logicaVars

=============================================================================
