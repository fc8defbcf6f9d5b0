----------------------------- MODULE KernelMain -----------------------------
(***************************************************************************)
(* The heidi-kernel process (src/kernel/main.cpp): the main thread, the    *)
(* thread that runs StatusSocket::serve_forever and the worker of the      *)
(* EventLoop, from start to exit.                                          *)
(***************************************************************************)
EXTENDS StatusSocket

VARIABLES
  signalled,      \* g_signal_received
  main,           \* where the main thread is
  loop_running, loop_stop_requested, loop_worker    \* the EventLoop

loopVars == <<loop_running, loop_stop_requested, loop_worker>>
kernelVars == <<vars, signalled, main, loopVars>>

loop == INSTANCE EventLoop WITH running <- loop_running,
          stop_requested <- loop_stop_requested, worker <- loop_worker

KernelTypeOK ==
  /\ TypeOK /\ loop!TypeOK
  /\ signalled \in BOOLEAN
  /\ main \in {"start", "wait signal", "wait loop", "join", "exited"}

\* The handlers are installed and the status thread is started.
KernelInit == Init /\ loop!Init /\ signalled = FALSE /\ main = "start"

\* SIGINT or SIGTERM.
Signal ==
  /\ ~signalled
  /\ signalled' = TRUE
  /\ UNCHANGED <<vars, main, loopVars>>

StartLoop ==
  /\ main = "start" /\ main' = "wait signal"
  /\ loop!run
  /\ UNCHANGED <<vars, signalled>>

StopLoop ==
  /\ main = "wait signal" /\ signalled
  /\ main' = "wait loop"
  /\ loop!request_stop
  /\ UNCHANGED <<vars, signalled>>

StopServer ==
  /\ main = "wait loop" /\ ~loop_running
  /\ main' = "join"
  /\ set_stop
  /\ UNCHANGED <<signalled, loopVars>>

\* The status thread is joined; the destructors find both threads ended.
Exit ==
  /\ main = "join" /\ spc = "ended"
  /\ main' = "exited"
  /\ UNCHANGED <<vars, signalled, loopVars>>

Main == StartLoop \/ StopLoop \/ StopServer \/ Exit
Worker == (loop!Test \/ loop!Wake) /\ UNCHANGED <<vars, signalled, main>>
Socket == /\ Server \/ \E p \in Publishers : Publish(p)
          /\ UNCHANGED <<signalled, main, loopVars>>
Outside == /\ \E c \in Clients : Client(c)
           /\ UNCHANGED <<signalled, main, loopVars>>

KernelNext ==
  /\ ~killed /\ main # "exited"
  /\ Main \/ Signal \/ Worker \/ Socket \/ Outside

KernelSpec == KernelInit /\ [][KernelNext]_kernelVars

-----------------------------------------------------------------------------
Alive(A) == ~killed /\ main # "exited" /\ A

OnlySocket(A) == Alive(A /\ UNCHANGED <<signalled, main, loopVars>>)

\* Every thread of the process runs.  A client that stopped reading reads on
\* some day, and a send that is blocked again and again in between gets
\* through (strong fairness).
KernelLiveSpec ==
  /\ KernelSpec
  /\ WF_kernelVars(Alive(Main))
  /\ WF_kernelVars(Alive(Worker))
  /\ SF_kernelVars(OnlySocket(Server))
  /\ \A p \in Publishers :
       SF_kernelVars(OnlySocket(LockList(p) \/ Send(p) \/ Published(p)))
  /\ \A c \in Clients : WF_kernelVars(OnlySocket(Resume(c)))

\* Shutdown completes: after SIGINT or SIGTERM the event loop ends, the status
\* thread is joined and main returns, wherever the three threads were when
\* the signal came.
ShutdownCompletes == signalled ~> main = "exited" \/ killed

\* docs/IPC.md:17-19, ping "Checks if the daemon is alive" and is answered.
\* A client that waits with a ping gets its answer, unless clients that still
\* hold their connections use up the descriptors.  It fails: connections whose
\* clients have long hung up are never closed, and use them up too.
PingAnswered ==
  \A c \in Clients :
    conn[c] = "backlog" /\ request[c] = "command"
      ~> \/ answered[c] \/ hung[c] \/ signalled \/ killed
         \/ \E d \in Open : ~hung[d]
=============================================================================
