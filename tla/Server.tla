-------------------------------- MODULE Server --------------------------------
(***************************************************************************)
(* src/server_main.cpp: main() runs the event loop over a pool; a SIGINT   *)
(* handler calls g_loop->stop(), run() returns, and the destructors run in *)
(* reverse order: the loop's, which calls stop() again, then the pool's,   *)
(* which drains the queue and joins the workers.                           *)
(*                                                                         *)
(* The kernel delivers a process's signal to its main thread when that     *)
(* thread does not block it, so the handler interrupts the loop.           *)
(***************************************************************************)
EXTENDS EventLoop

CONSTANT MaxSignals     \* bound: SIGINTs sent to the process

VARIABLES
    mpc,        \* main(): "start", "run", "destroy", "drain", "exited"
    signals,    \* how many SIGINTs were delivered
    heard       \* history: one was delivered while running_ was set

mainVars   == <<mpc, signals, heard>>
serverVars == <<loopVars, mainVars>>

ServerInit ==
    /\ LoopInit
    /\ mpc     = "start"
    /\ signals = 0
    /\ heard   = FALSE

-----------------------------------------------------------------------------
\* g_loop = &loop; loop.run()
MainRuns ==
    /\ mpc = "start"
    /\ mpc' = "run"
    /\ UNCHANGED <<loopVars, signals, heard>>

\* handleSigint(): nothing while g_loop is null, stop() afterwards.  Signals
\* that come once the loop is being destroyed are left out.
Sigint ==
    /\ signals < MaxSignals
    /\ signals' = signals + 1
    /\ \/ mpc = "start" /\ UNCHANGED <<loopVars, heard>>
       \/ mpc = "run" /\ lpc # "returned" /\ StopBegin /\ heard' = running
    /\ UNCHANGED mpc

RunMove == mpc = "run" /\ RunStep /\ UNCHANGED mainVars

\* ~EventLoop()
DestroyLoop ==
    /\ mpc = "run"
    /\ lpc = "returned"
    /\ StopBegin
    /\ mpc' = "destroy"
    /\ UNCHANGED <<signals, heard>>

StopMove == StopStep /\ UNCHANGED mainVars

\* stop() returns to the code it interrupted, or the destructor is done.
StopReturns ==
    /\ StopEnd
    /\ mpc' = IF mpc = "destroy" THEN "drain" ELSE mpc
    /\ UNCHANGED <<signals, heard>>

\* Mutant: the pool is not joined.
Drained_Unchecked == TRUE

Drained == jobs = << >> /\ \A w \in Workers : cpc[w] = "out"

\* ~ThreadPool() has drained the queue and joined the workers.
Exit ==
    /\ mpc = "drain"
    /\ Drained
    /\ mpc' = "exited"
    /\ UNCHANGED <<loopVars, signals, heard>>

MainStep == MainRuns \/ RunMove \/ DestroyLoop \/ StopMove \/ StopReturns \/ Exit

ServerNext ==
    \/ \E k \in Clients : ClientStep(k) /\ UNCHANGED mainVars
    \/ Sigint
    \/ MainStep
    \/ \E w \in Workers : WorkerStep(w) /\ UNCHANGED mainVars

\* The main thread and the workers keep running.  Clients owe nothing, and no
\* signal need ever come.
ServerFairness ==
    /\ WF_serverVars(MainStep)
    /\ \A w \in Workers : WF_serverVars(WorkerStep(w) /\ UNCHANGED mainVars)

ServerSpec == ServerInit /\ [][ServerNext]_serverVars /\ ServerFairness

-----------------------------------------------------------------------------
(* Properties                                                              *)

\* "[server] shut down cleanly": whatever was going on when the signal came,
\* the process ends with every socket closed, also one that was accepted but
\* not yet in connections_, every dispatched job done and accounted for.
CleanExit ==
    mpc = "exited" =>
        /\ \A f \in Fds : table[f] = Nobody
        /\ jobs = << >>
        /\ \A k \in Clients : pendingJobs[k] = 0 /\ writeMutex[k] = Nobody
        /\ \A t \in Threads : cpc[t] = "out"

\* "blocks until stop() is called (e.g. Ctrl+C)": a SIGINT delivered while the
\* loop runs ends the server.
StopEndsServer == heard ~> mpc = "exited"

\* No descriptor leaks: once a client has hung up, its descriptor is
\* eventually given back, by the loop, the last worker or stop().
EventuallyReleased ==
    \A k \in Clients :
        client[k] = "accepted" /\ hungUp[k] ~> \A f \in Fds : table[f] # k

\* "a client that sends a message and immediately disconnects must still get a
\* response": so it does when it sends just one and nobody stops the server.
LoneRequestAnswered ==
    \A k \in Clients :
        Len(Script[k]) = 1 =>
            (client[k] = "accepted" /\ sent[k] = 1) ~> (Script[k][1] \in received[k] \/ signals > 0)

\* A client that does not hang up gets a response to everything it sends.
PatientClientAnswered ==
    \A k \in Clients : \A i \in 1 .. Len(Script[k]) :
        (client[k] = "accepted" /\ sent[k] >= i) ~>
            (Script[k][i] \in received[k] \/ hungUp[k] \/ signals > 0)
=============================================================================
