----------------------------- MODULE EventLoop -----------------------------
(***************************************************************************)
(* The life of a Connection under the libevent loop: Server's callbacks    *)
(* (server.cpp), the resume/yield protocol of Coroutine (coroutine.cpp)    *)
(* and the yielding wrappers of read, write and sendfile (io/yielding.cpp).*)
(*                                                                         *)
(* The process has one thread.  It is in event_base_dispatch ("dispatch"), *)
(* inside a coroutine ("running"), or back on the main context, just after *)
(* Coroutine::resume returned ("switch").  What a coroutine does between   *)
(* two yields is left open: request handlers are user code, and may wait   *)
(* on the client socket or on a pooled backend socket, or end.             *)
(***************************************************************************)
EXTENDS Naturals

CONSTANTS
  Conn,    \* addresses a Connection can be allocated at; freed ones are reused
  Fd,      \* descriptors accept(2) can return
  PoolFd,  \* descriptors of pooled backend sockets, open throughout
  NoFd,    \* the -1 of a failed accept
  NoConn   \* no coroutine is running

ASSUME FdAssumption == Fd \cap PoolFd = {} /\ NoFd \notin Fd \cup PoolFd
ASSUME ConnAssumption == NoConn \notin Conn

VARIABLES
  alive,     \* Connections that are allocated
  state,     \* Coroutine::m_state
  value,     \* Coroutine::m_value, the Need given to the last yield
  watched,   \* YieldingIOStrategy::m_watched_fd
  fd,        \* Connection::m_fd
  open,      \* the accepted descriptors the process holds open
  pending,   \* Connections whose m_ev is in the event base
  closures,  \* per Connection, the cx_event objects that have not been deleted
  ready,     \* descriptors the kernel reports ready (what is watched for)
  thread,    \* where the thread is
  cur,       \* the coroutine it runs or has just left
  caller,    \* which function called the Coroutine::resume in progress
  stranded   \* history: coroutines resumed because event_add had failed

connVars   == <<alive, state, value, watched, fd, open>>
loopVars   == <<pending, closures, ready>>
threadVars == <<thread, cur, caller>>
vars == <<connVars, loopVars, threadVars, stranded>>

Need == {"READ", "WRITE", "HALT"}

TypeOK ==
  /\ alive \subseteq Conn
  /\ state \in [Conn -> {"INIT", "RUNNING", "DONE"}]
  /\ value \in [Conn -> Need \cup {"unset"}]
  /\ watched \in [Conn -> Fd \cup PoolFd \cup {NoFd}]
  /\ fd \in [Conn -> Fd \cup {NoFd}]
  /\ open \subseteq Fd
  /\ pending \subseteq Conn
  /\ closures \in [Conn -> Nat]
  /\ ready \subseteq Fd \cup PoolFd
  /\ thread \in {"dispatch", "running", "switch"}
  /\ cur \in Conn \cup {NoConn}
  /\ caller \in {"Server::resume", "Server::register_connection"}
  /\ stranded \subseteq Conn

Init ==
  /\ alive = {}
  /\ state = [c \in Conn |-> "INIT"]
  /\ value = [c \in Conn |-> "unset"]
  /\ watched = [c \in Conn |-> NoFd]
  /\ fd = [c \in Conn |-> NoFd]
  /\ open = {}
  /\ pending = {}
  /\ closures = [c \in Conn |-> 0]
  /\ ready = {}
  /\ thread = "dispatch"
  /\ cur = NoConn
  /\ caller = "Server::resume"
  /\ stranded = {}

-----------------------------------------------------------------------------
(* Coroutine::resume on a coroutine that has not finished: an INIT one is   *)
(* marked RUNNING, and swapcontext enters it.                               *)
Enter(c, from) ==
  /\ thread' = "running"
  /\ cur' = c
  /\ caller' = from

BackToDispatch ==
  /\ thread' = "dispatch"
  /\ cur' = NoConn
  /\ UNCHANGED caller

(* _on_possible_accept.  The result of accept is not looked at: a failure   *)
(* makes a Connection on descriptor -1.  No constructor sets m_watched_fd.  *)
OnPossibleAccept(c, f) ==
  /\ thread = "dispatch"
  /\ c \notin alive
  /\ f \in (Fd \ open) \cup {NoFd}
  /\ alive' = alive \cup {c}
  /\ fd' = [fd EXCEPT ![c] = f]
  /\ open' = open \cup ({f} \ {NoFd})
  /\ state' = [state EXCEPT ![c] = "RUNNING"]
  /\ value' = [value EXCEPT ![c] = "unset"]
  /\ \E garbage \in Fd \cup PoolFd \cup {NoFd} :
       watched' = [watched EXCEPT ![c] = garbage]
  /\ Enter(c, "Server::resume")
  /\ UNCHANGED <<loopVars, stranded>>

(* Fault: the event is added with EV_PERSIST and stays in the base.         *)
OnConnectionEvent_Persistent(c) ==
  /\ thread = "dispatch"
  /\ c \in pending
  /\ watched[c] \in ready
  /\ closures' = [closures EXCEPT ![c] = @ - 1]
  /\ ready' = ready \ {watched[c]}
  /\ Enter(c, "Server::resume")
  /\ UNCHANGED <<connVars, pending, stranded>>

(* Fault: Server::resume registers EV_READ for both needs.                  *)
OnConnectionEvent_ReadOnly(c) ==
  /\ thread = "dispatch"
  /\ c \in pending
  /\ value[c] = "READ"
  /\ watched[c] \in ready
  /\ pending' = pending \ {c}
  /\ closures' = [closures EXCEPT ![c] = @ - 1]
  /\ ready' = ready \ {watched[c]}
  /\ Enter(c, "Server::resume")
  /\ UNCHANGED <<connVars, stranded>>

(* _on_connection_event.  The event was added without EV_PERSIST, so it has *)
(* left the base when its callback runs; the callback deletes the closure   *)
(* and resumes the coroutine.                                               *)
OnConnectionEvent(c) ==
  /\ thread = "dispatch"
  /\ c \in pending
  /\ watched[c] \in ready
  /\ pending' = pending \ {c}
  /\ closures' = [closures EXCEPT ![c] = @ - 1]
  /\ ready' = ready \ {watched[c]}
  /\ Enter(c, "Server::resume")
  /\ UNCHANGED <<connVars, stranded>>

(* Fault: watch_fd is not called and m_watched_fd is what it was.           *)
SafeIO_NoWatch(c, need, f) ==
  /\ thread = "running"
  /\ cur = c
  /\ value' = [value EXCEPT ![c] = need]
  /\ thread' = "switch"
  /\ UNCHANGED <<alive, state, watched, fd, open, loopVars, cur, caller, stranded>>

(* Fault: the coroutine adds its event itself, before it yields.            *)
SafeIO_AddsEvent(c, need, f) ==
  /\ thread = "running"
  /\ cur = c
  /\ watched' = [watched EXCEPT ![c] = f]
  /\ value' = [value EXCEPT ![c] = need]
  /\ pending' = pending \cup {c}
  /\ thread' = "switch"
  /\ UNCHANGED <<alive, state, fd, open, closures, ready, cur, caller, stranded>>

(* safe_read, safe_write and safe_sendfile: note the descriptor, then yield.*)
(* Connection::exec starts with a safe_read of the client socket; on        *)
(* descriptor -1 that read fails, so a second wait is never reached.        *)
SafeIO(c, need, f) ==
  /\ thread = "running"
  /\ cur = c
  /\ IF value[c] = "unset"
       THEN need = "READ" /\ f = fd[c]
       ELSE fd[c] # NoFd /\ f \in {fd[c]} \cup PoolFd
  /\ watched' = [watched EXCEPT ![c] = f]
  /\ value' = [value EXCEPT ![c] = need]
  /\ thread' = "switch"
  /\ UNCHANGED <<alive, state, fd, open, loopVars, cur, caller, stranded>>

(* Coroutine::run once exec has returned HALT, which it does only after a   *)
(* first safe_read.                                                         *)
Finish(c) ==
  /\ thread = "running"
  /\ cur = c
  /\ value[c] # "unset"
  /\ state' = [state EXCEPT ![c] = "DONE"]
  /\ value' = [value EXCEPT ![c] = "HALT"]
  /\ thread' = "switch"
  /\ UNCHANGED <<alive, watched, fd, open, loopVars, cur, caller, stranded>>

(* Fault: no new closure is allocated.                                      *)
Register_SameClosure(c) ==
  /\ thread = "switch"
  /\ cur = c
  /\ caller = "Server::resume"
  /\ value[c] \in {"READ", "WRITE"}
  /\ pending' = pending \cup {c}
  /\ BackToDispatch
  /\ UNCHANGED <<connVars, closures, ready, stranded>>

(* Fault: HALT is registered like a READ.                                   *)
Register_Halt(c) ==
  /\ thread = "switch"
  /\ cur = c
  /\ caller = "Server::resume"
  /\ closures' = [closures EXCEPT ![c] = @ + 1]
  /\ pending' = pending \cup {c}
  /\ BackToDispatch
  /\ UNCHANGED <<connVars, ready, stranded>>

(* Server::resume, READ or WRITE: register_connection puts the event, with  *)
(* a fresh closure, in the base.                                            *)
Register(c) ==
  /\ thread = "switch"
  /\ cur = c
  /\ caller = "Server::resume"
  /\ value[c] \in {"READ", "WRITE"}
  /\ closures' = [closures EXCEPT ![c] = @ + 1]
  /\ pending' = pending \cup {c}
  /\ BackToDispatch
  /\ UNCHANGED <<connVars, ready, stranded>>

(* Fault: register_connection calls Server::resume instead of io->resume.   *)
RegisterFails_Again(c) ==
  /\ thread = "switch"
  /\ cur = c
  /\ caller = "Server::resume"
  /\ value[c] \in {"READ", "WRITE"}
  /\ Enter(c, "Server::resume")
  /\ UNCHANGED <<connVars, loopVars, stranded>>

(* The same, when event_add fails: register_connection resumes the          *)
(* coroutine itself and drops the Need that resume returns.                 *)
RegisterFails(c) ==
  /\ thread = "switch"
  /\ cur = c
  /\ caller = "Server::resume"
  /\ value[c] \in {"READ", "WRITE"}
  /\ closures' = [closures EXCEPT ![c] = @ + 1]
  /\ stranded' = stranded \cup {c}
  /\ Enter(c, "Server::register_connection")
  /\ UNCHANGED <<connVars, pending, ready>>

(* Fault: ~Connection leaves the socket open.                               *)
Delete_KeepsSocket(c) ==
  /\ thread = "switch"
  /\ cur = c
  /\ caller = "Server::resume"
  /\ value[c] = "HALT"
  /\ alive' = alive \ {c}
  /\ state' = [state EXCEPT ![c] = "INIT"]
  /\ BackToDispatch
  /\ UNCHANGED <<value, watched, fd, open, loopVars, stranded>>

(* Fault: the HALT case does not delete io.                                 *)
Delete_Forgotten(c) ==
  /\ thread = "switch"
  /\ cur = c
  /\ caller = "Server::resume"
  /\ value[c] = "HALT"
  /\ BackToDispatch
  /\ UNCHANGED <<connVars, loopVars, stranded>>

(* Server::resume, HALT: delete io.  ~Connection closes the socket.         *)
Delete(c) ==
  /\ thread = "switch"
  /\ cur = c
  /\ caller = "Server::resume"
  /\ value[c] = "HALT"
  /\ alive' = alive \ {c}
  /\ open' = open \ {fd[c]}
  /\ ready' = ready \ {fd[c]}
  /\ state' = [state EXCEPT ![c] = "INIT"]
  /\ BackToDispatch
  /\ UNCHANGED <<value, watched, fd, pending, closures, stranded>>

(* register_connection after its own io->resume: the returned Need is lost. *)
DropNeed(c) ==
  /\ thread = "switch"
  /\ cur = c
  /\ caller = "Server::register_connection"
  /\ BackToDispatch
  /\ UNCHANGED <<connVars, loopVars, stranded>>

(* The kernel: a descriptor becomes ready at any time.                      *)
BecomesReady(f) ==
  /\ f \in (open \cup PoolFd) \ ready
  /\ ready' = ready \cup {f}
  /\ UNCHANGED <<connVars, pending, closures, threadVars, stranded>>

-----------------------------------------------------------------------------
ThreadStep(c) ==
  \/ \E need \in {"READ", "WRITE"}, f \in Fd \cup PoolFd \cup {NoFd} :
        SafeIO(c, need, f)
  \/ Finish(c)
  \/ Register(c)
  \/ RegisterFails(c)
  \/ Delete(c)
  \/ DropNeed(c)

Next ==
  \/ \E c \in Conn, f \in Fd \cup {NoFd} : OnPossibleAccept(c, f)
  \/ \E c \in Conn : OnConnectionEvent(c)
  \/ \E c \in Conn : ThreadStep(c)
  \/ \E f \in Fd \cup PoolFd : BecomesReady(f)

Spec == Init /\ [][Next]_vars

(* The thread never stops between two dispatches as long as handlers yield  *)
(* or return (weak fairness), and libevent runs its active events in FIFO   *)
(* order, so an event that stays active is not passed over for ever (strong *)
(* fairness).  Clients and the kernel promise nothing.                      *)
FairSpec ==
  /\ Spec
  /\ \A c \in Conn : WF_vars(ThreadStep(c))
  /\ \A c \in Conn : SF_vars(OnConnectionEvent(c))

-----------------------------------------------------------------------------
(* An event in the base can always be delivered: its Connection is still    *)
(* allocated and suspended in a safe_* call, it is not the one the thread   *)
(* is running (event_set on an event still in the base corrupts libevent),  *)
(* and the closure the callback will delete exists, once.                   *)
NoDanglingEvent ==
  \A c \in pending :
    /\ c \in alive
    /\ c # cur
    /\ state[c] = "RUNNING"
    /\ value[c] \in {"READ", "WRITE"}
    /\ closures[c] = 1

(* Coroutine::resume enters only a coroutine that is allocated and has not  *)
(* finished; it never takes its "return -1" exit for a DONE one, whose      *)
(* result Server::resume would ignore.                                      *)
RunsLiveCoroutine ==
  thread # "dispatch" =>
    /\ cur \in alive
    /\ thread = "running" => state[cur] = "RUNNING"
    /\ thread = "switch" => (value[cur] = "HALT" <=> state[cur] = "DONE")

(* Between two callbacks a Connection is reachable from exactly one place:  *)
(* the thread that runs it or the event base.  The exception is the one     *)
(* whose event_add failed, which nothing refers to any more.                *)
Accounted ==
  /\ \A c \in alive : c = cur \/ c \in pending \/ c \in stranded
  /\ stranded \subseteq alive \ pending
  /\ \A c \in Conn :
       closures[c] = IF c \in pending \cup stranded THEN 1 ELSE 0

(* Each accepted descriptor belongs to one Connection and is closed with    *)
(* it, so a descriptor number the kernel reuses never has two owners.       *)
FdAccounted ==
  /\ open = {fd[c] : c \in alive} \ {NoFd}
  /\ \A c, d \in alive : fd[c] = fd[d] /\ fd[c] # NoFd => c = d

(* A pending event watches a descriptor that is open (or the -1 of a failed *)
(* accept), never one that was closed and may be reused under it.           *)
WatchesOpenFd ==
  \A c \in pending : watched[c] \in open \cup PoolFd \cup {NoFd}

(* Control always returns to event_base_dispatch: resume, register_connec-  *)
(* tion and delete do not call one another for ever.                        *)
LoopReturns == (thread # "dispatch") ~> (thread = "dispatch")

(* A suspended Connection whose client socket is ready is resumed.          *)
ReadyIsServed ==
  \A c \in Conn : \A f \in Fd :
    (c \in pending /\ watched[c] = f /\ f = fd[c] /\ f \in ready)
      ~> (c \notin pending)

(* What "the blocking IO call will now fail" (server.cpp:147) is there for: *)
(* a Connection that could not be registered fails, ends and is deleted.    *)
FailedRegistrationEnds ==
  \A c \in Conn : (c \in stranded) ~> (c \notin alive)

(* A stranded Connection counts as running while register_connection has it *)
(* on the thread, and as lost from then on.                                 *)
Scheduler == INSTANCE CoopScheduler WITH
  Task <- Conn,
  Lossy <- TRUE,
  running <- IF thread = "dispatch" THEN {} ELSE {cur},
  waiting <- pending,
  lost <- stranded \ {cur}

(* The callbacks of server.cpp and the resume/yield protocol implement      *)
(* cooperative scheduling: one Connection at a time, woken only while it    *)
(* waits, not preempted.                                                    *)
RefinesScheduler == Scheduler!Spec
=============================================================================
