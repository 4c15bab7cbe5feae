------------------------------ MODULE Connection ------------------------------
(***************************************************************************)
(* struct Connection of include/EventLoop.hpp: the flags by which the      *)
(* event loop and the workers agree on who closes a socket and when, and   *)
(* the two operations on them, safeSend() and tryFinalize().               *)
(*                                                                         *)
(* One action is one access to shared state.  The flags are released and   *)
(* acquired with a system call or a read-modify-write in between, and are  *)
(* taken as sequentially consistent.  A client connects once, so that a    *)
(* Connection object is named after its client.  Sockets belong to the     *)
(* kernel (external): a descriptor is an index into the process's table,   *)
(* a new socket gets the lowest free one, and a write goes to whatever     *)
(* socket the descriptor stands for at that moment.                        *)
(***************************************************************************)
EXTENDS Integers, Sequences, FiniteSets

CONSTANTS
    Clients,    \* the clients, each with one connection
    Workers,    \* the pool's threads
    Loop,       \* the event loop's thread
    Fds,        \* descriptors, a set of natural numbers
    Messages,   \* complete FIX messages
    NoMessage,
    Nobody      \* no client: a free descriptor, an unlocked mutex

ASSUME ConnectionAssumption ==
    /\ Loop \notin Workers
    /\ IsFiniteSet(Workers)
    /\ Nobody \notin Clients \cup Workers
    /\ NoMessage \notin Messages
    /\ Fds \subseteq Nat

VARIABLES
    table,          \* fd -> the client at the other end, Nobody if free
    fd,             \* client -> Connection::fd (0 before it is accepted)
    alive,          \* client -> alive
    pendingJobs,    \* client -> pendingJobs
    peerClosed,     \* client -> peerClosed
    fdClosed,       \* client -> fdClosed
    writeMutex,     \* client -> the worker that holds writeMutex
    cpc,            \* thread -> where it is in safeSend() / tryFinalize()
    this,           \* thread -> the connection it works on
    reply,          \* worker -> the message whose response it sends
    received,       \* client -> the messages it has received responses to
    dropped         \* history: messages whose response was thrown away

flags    == <<alive, pendingJobs, peerClosed, fdClosed>>
connVars == <<table, fd, alive, pendingJobs, peerClosed, fdClosed, writeMutex,
              cpc, this, reply, received, dropped>>

Threads == Workers \cup {Loop}

ConnInit ==
    /\ table       = [f \in Fds |-> Nobody]
    /\ fd          = [k \in Clients |-> 0]
    /\ alive       = [k \in Clients |-> TRUE]
    /\ pendingJobs = [k \in Clients |-> 0]
    /\ peerClosed  = [k \in Clients |-> FALSE]
    /\ fdClosed    = [k \in Clients |-> FALSE]
    /\ writeMutex  = [k \in Clients |-> Nobody]
    /\ cpc         = [t \in Threads |-> "out"]
    /\ this        = [t \in Threads |-> Nobody]
    /\ reply       = [w \in Workers |-> NoMessage]
    /\ received    = [k \in Clients |-> {}]
    /\ dropped     = {}

Goto(t, from, to) ==
    /\ cpc[t] = from
    /\ cpc' = [cpc EXCEPT ![t] = to]

-----------------------------------------------------------------------------
(* void safeSend(const std::string& data)                                  *)

SendLock(w) ==
    /\ Goto(w, "lock", "alive")
    /\ writeMutex[this[w]] = Nobody
    /\ writeMutex' = [writeMutex EXCEPT ![this[w]] = w]
    /\ UNCHANGED <<table, fd, flags, this, reply, received, dropped>>

\* if (!alive) return
SendCheck(w) ==
    /\ cpc[w] = "alive"
    /\ IF alive[this[w]]
       THEN Goto(w, "alive", "send") /\ UNCHANGED dropped
       ELSE Goto(w, "alive", "unlock") /\ dropped' = dropped \cup {reply[w]}
    /\ UNCHANGED <<table, fd, flags, writeMutex, this, reply, received>>

\* ::send() to the socket that has the descriptor now; an error drops the
\* response.  Responses are short and clients read them, so that the socket
\* buffer takes all of it.
SendWrite(w) ==
    /\ Goto(w, "send", "unlock")
    /\ LET k == table[fd[this[w]]]
       IN  IF k = Nobody
           THEN dropped' = dropped \cup {reply[w]} /\ UNCHANGED received
           ELSE received' = [received EXCEPT ![k] = @ \cup {reply[w]}] /\ UNCHANGED dropped
    /\ UNCHANGED <<table, fd, flags, writeMutex, this, reply>>

SendUnlock(w) ==
    /\ Goto(w, "unlock", "done")
    /\ writeMutex' = [writeMutex EXCEPT ![this[w]] = Nobody]
    /\ UNCHANGED <<table, fd, flags, this, reply, received, dropped>>

-----------------------------------------------------------------------------
(* void tryFinalize()                                                      *)

\* The operation ends here unless the condition holds.
ContinueIf(t, condition, from, to) ==
    /\ cpc[t] = from
    /\ cpc'  = [cpc EXCEPT ![t] = IF condition THEN to ELSE "out"]
    /\ this' = [this EXCEPT ![t] = IF condition THEN @ ELSE Nobody]

FinalPeer(t) ==
    /\ ContinueIf(t, peerClosed[this[t]], "peerClosed", "pending")
    /\ UNCHANGED <<table, fd, flags, writeMutex, reply, received, dropped>>

\* Mutant: the jobs still under way are not looked at.
FinalPending_Ignored(t) ==
    /\ ContinueIf(t, TRUE, "pending", "claim")
    /\ UNCHANGED <<table, fd, flags, writeMutex, reply, received, dropped>>

FinalPending(t) ==
    /\ ContinueIf(t, pendingJobs[this[t]] = 0, "pending", "claim")
    /\ UNCHANGED <<table, fd, flags, writeMutex, reply, received, dropped>>

\* Mutant: whoever gets here closes, fdClosed is not compared.
FinalClaim_Always(t) ==
    /\ ContinueIf(t, TRUE, "claim", "kill")
    /\ fdClosed' = [fdClosed EXCEPT ![this[t]] = TRUE]
    /\ UNCHANGED <<table, fd, alive, pendingJobs, peerClosed, writeMutex, reply, received, dropped>>

\* fdClosed.compare_exchange_strong(false, true)
FinalClaim(t) ==
    /\ ContinueIf(t, ~fdClosed[this[t]], "claim", "kill")
    /\ fdClosed' = [fdClosed EXCEPT ![this[t]] = TRUE]
    /\ UNCHANGED <<table, fd, alive, pendingJobs, peerClosed, writeMutex, reply, received, dropped>>

FinalKill(t) ==
    /\ Goto(t, "kill", "close")
    /\ alive' = [alive EXCEPT ![this[t]] = FALSE]
    /\ UNCHANGED <<table, fd, pendingJobs, peerClosed, fdClosed, writeMutex, this, reply,
                   received, dropped>>

\* close(fd)
FinalClose(t) ==
    /\ ContinueIf(t, FALSE, "close", "out")
    /\ table' = [table EXCEPT ![fd[this[t]]] = Nobody]
    /\ UNCHANGED <<fd, flags, writeMutex, reply, received, dropped>>

SendStep(w)  == SendLock(w) \/ SendCheck(w) \/ SendWrite(w) \/ SendUnlock(w)
FinalStep(t) == \/ FinalPeer(t) \/ FinalPending(t) \/ FinalClaim(t)
                \/ FinalKill(t) \/ FinalClose(t)
=============================================================================
