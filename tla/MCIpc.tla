-------------------------------- MODULE MCIpc --------------------------------
(* One task, MM, FS and one user process *)
EXTENDS Ipc

MCPrograms == {SYSTASK, MM, FS, INIT}

\* What is left in p_getfrom, p_sendto and the message buffers after a message
\* has been exchanged is never read again: states that differ only there are
\* the same to TLC.
LiveData ==
  [k EXCEPT !.p_getfrom = [p \in Procs |-> IF "RECEIVING" \in k.p_flags[p]
                                           THEN k.p_getfrom[p] ELSE ANY],
            !.p_sendto = [p \in Procs |-> IF "SENDING" \in k.p_flags[p]
                                          THEN k.p_sendto[p] ELSE MM],
            !.mess = << >>]
=============================================================================
