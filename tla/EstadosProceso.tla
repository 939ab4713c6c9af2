--------------------------- MODULE EstadosProceso ---------------------------
(***************************************************************************)
(* What the kernel promises about a process, with no queue, semaphore or   *)
(* thread in sight: the state diagram of a process and the rule that the   *)
(* single CPU runs one process at a time.  Kernel is shown to implement it *)
(* with the field pcb->estado as `estado'.                                 *)
(***************************************************************************)
CONSTANT Procesos

VARIABLE estado

Estados == {"NO_CREADO", "NEW", "READY", "READY_PRIORIDAD", "EXECUTE",
            "BLOCKED", "EXIT"}

Init == estado = [p \in Procesos |-> "NO_CREADO"]

Pasa(p, s) == estado' = [estado EXCEPT ![p] = s]

Crear(p) == estado[p] = "NO_CREADO" /\ Pasa(p, "NEW")

Admitir(p) == estado[p] = "NEW" /\ Pasa(p, "READY")

\* The CPU is handed to a process only while no process is executing.
Despachar(p) ==
  /\ estado[p] \in {"READY", "READY_PRIORIDAD"}
  /\ \A q \in Procesos : estado[q] # "EXECUTE"
  /\ Pasa(p, "EXECUTE")

Desalojar(p) == estado[p] = "EXECUTE" /\ Pasa(p, "READY")

Bloquear(p) == estado[p] = "EXECUTE" /\ Pasa(p, "BLOCKED")

Desbloquear(p) ==
  /\ estado[p] = "BLOCKED"
  /\ \E s \in {"READY", "READY_PRIORIDAD"} : Pasa(p, s)

Terminar(p) == estado[p] = "EXECUTE" /\ Pasa(p, "EXIT")

Next ==
  \E p \in Procesos :
    \/ Crear(p)
    \/ Admitir(p)
    \/ Despachar(p)
    \/ Desalojar(p)
    \/ Bloquear(p)
    \/ Desbloquear(p)
    \/ Terminar(p)

Spec == Init /\ [][Next]_estado
=============================================================================
