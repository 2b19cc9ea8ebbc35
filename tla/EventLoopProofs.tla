-------------------------- MODULE EventLoopProofs --------------------------
(***************************************************************************)
(* The safety properties of EventLoop for every number of Connections and  *)
(* descriptors.  The inductive invariant adds to them where the thread is: *)
(* which coroutine it has in hand, on whose behalf, and which descriptors  *)
(* a coroutine may be waiting on.                                          *)
(***************************************************************************)
EXTENDS EventLoop, TLAPS

(* The thread holds a coroutine exactly when it is not in dispatch, and     *)
(* register_connection resumes only coroutines whose event_add failed.      *)
ThreadInHand ==
  /\ thread = "dispatch" <=> cur = NoConn
  /\ thread # "dispatch" =>
       (caller = "Server::register_connection" <=> cur \in stranded)
  /\ cur \notin pending
  /\ thread = "switch" => value[cur] # "unset" /\ state[cur] # "INIT"

(* A coroutine that waits, or is about to, waits on its own socket or on a  *)
(* pooled one.                                                              *)
WatchesOwnFd ==
  \A c \in alive :
    (c \in pending \/ (c = cur /\ thread = "switch" /\ state[c] = "RUNNING"))
      => watched[c] \in {fd[c]} \cup PoolFd

IInv ==
  /\ TypeOK
  /\ NoDanglingEvent
  /\ RunsLiveCoroutine
  /\ Accounted
  /\ FdAccounted
  /\ ThreadInHand
  /\ WatchesOwnFd

USE DEF Need

LEMMA InitIInv == Init => IInv
  BY FdAssumption, ConnAssumption
  DEF Init, IInv, TypeOK, NoDanglingEvent, RunsLiveCoroutine, Accounted,
      FdAccounted, ThreadInHand, WatchesOwnFd

LEMMA OnPossibleAcceptIInv ==
  ASSUME IInv, NEW c \in Conn, NEW f \in Fd \cup {NoFd}, OnPossibleAccept(c, f)
  PROVE  IInv'
<1> USE FdAssumption, ConnAssumption
        DEF IInv, OnPossibleAccept, Enter, connVars, loopVars, threadVars
<1>1. TypeOK'
  BY DEF TypeOK
<1>2. NoDanglingEvent'
  BY DEF NoDanglingEvent
<1>3. RunsLiveCoroutine'
  BY DEF TypeOK, RunsLiveCoroutine
<1>4. Accounted'
  BY DEF TypeOK, Accounted, ThreadInHand
<1>5. FdAccounted'
  BY DEF TypeOK, FdAccounted
<1>6. ThreadInHand'
  BY DEF NoDanglingEvent, Accounted, ThreadInHand
<1>7. WatchesOwnFd'
  BY DEF NoDanglingEvent, WatchesOwnFd
<1> QED
  BY <1>1, <1>2, <1>3, <1>4, <1>5, <1>6, <1>7

LEMMA OnConnectionEventIInv ==
  ASSUME IInv, NEW c \in Conn, OnConnectionEvent(c)
  PROVE  IInv'
<1> USE FdAssumption, ConnAssumption
        DEF IInv, OnConnectionEvent, Enter, connVars, loopVars, threadVars
<1>1. TypeOK'
  BY DEF TypeOK, NoDanglingEvent
<1>2. NoDanglingEvent'
  BY DEF NoDanglingEvent
<1>3. RunsLiveCoroutine'
  BY DEF NoDanglingEvent, RunsLiveCoroutine
<1>4. Accounted'
  BY DEF TypeOK, Accounted, ThreadInHand
<1>5. FdAccounted'
  BY DEF FdAccounted
<1>6. ThreadInHand'
  BY DEF Accounted, ThreadInHand
<1>7. WatchesOwnFd'
  BY DEF WatchesOwnFd
<1> QED
  BY <1>1, <1>2, <1>3, <1>4, <1>5, <1>6, <1>7

LEMMA SafeIOIInv ==
  ASSUME IInv, NEW c \in Conn, NEW need \in {"READ", "WRITE"},
                      NEW f \in Fd \cup PoolFd \cup {NoFd}, SafeIO(c, need, f)
  PROVE  IInv'
<1> USE FdAssumption, ConnAssumption
        DEF IInv, SafeIO, connVars, loopVars, threadVars
<1>1. TypeOK'
  BY DEF TypeOK
<1>2. NoDanglingEvent'
  BY DEF NoDanglingEvent
<1>3. RunsLiveCoroutine'
  BY DEF TypeOK, RunsLiveCoroutine
<1>4. Accounted'
  BY DEF Accounted
<1>5. FdAccounted'
  BY DEF FdAccounted
<1>6. ThreadInHand'
  BY DEF TypeOK, RunsLiveCoroutine, ThreadInHand
<1>7. WatchesOwnFd'
  BY DEF TypeOK, WatchesOwnFd
<1> QED
  BY <1>1, <1>2, <1>3, <1>4, <1>5, <1>6, <1>7

LEMMA FinishIInv ==
  ASSUME IInv, NEW c \in Conn, Finish(c)
  PROVE  IInv'
<1> USE FdAssumption, ConnAssumption
        DEF IInv, Finish, connVars, loopVars, threadVars
<1>1. TypeOK'
  BY DEF TypeOK
<1>2. NoDanglingEvent'
  BY DEF NoDanglingEvent
<1>3. RunsLiveCoroutine'
  BY DEF TypeOK, RunsLiveCoroutine
<1>4. Accounted'
  BY DEF Accounted
<1>5. FdAccounted'
  BY DEF FdAccounted
<1>6. ThreadInHand'
  BY DEF TypeOK, ThreadInHand
<1>7. WatchesOwnFd'
  BY DEF TypeOK, WatchesOwnFd
<1> QED
  BY <1>1, <1>2, <1>3, <1>4, <1>5, <1>6, <1>7

LEMMA RegisterIInv ==
  ASSUME IInv, NEW c \in Conn, Register(c)
  PROVE  IInv'
<1> USE FdAssumption, ConnAssumption
        DEF IInv, Register, BackToDispatch, connVars, loopVars, threadVars
<1>1. TypeOK'
  BY DEF TypeOK
<1>2. NoDanglingEvent'
  BY DEF TypeOK, NoDanglingEvent, RunsLiveCoroutine, Accounted, ThreadInHand
<1>3. RunsLiveCoroutine'
  BY DEF RunsLiveCoroutine
<1>4. Accounted'
  BY DEF TypeOK, Accounted, ThreadInHand
<1>5. FdAccounted'
  BY DEF FdAccounted
<1>6. ThreadInHand'
  BY DEF TypeOK, ThreadInHand
<1>7. WatchesOwnFd'
  BY DEF TypeOK, RunsLiveCoroutine, ThreadInHand, WatchesOwnFd
<1> QED
  BY <1>1, <1>2, <1>3, <1>4, <1>5, <1>6, <1>7

LEMMA RegisterFailsIInv ==
  ASSUME IInv, NEW c \in Conn, RegisterFails(c)
  PROVE  IInv'
<1> USE FdAssumption, ConnAssumption
        DEF IInv, RegisterFails, Enter, connVars, loopVars, threadVars
<1>1. TypeOK'
  BY DEF TypeOK
<1>2. NoDanglingEvent'
  BY DEF NoDanglingEvent
<1>3. RunsLiveCoroutine'
  BY DEF TypeOK, RunsLiveCoroutine, ThreadInHand
<1>4. Accounted'
  BY DEF TypeOK, RunsLiveCoroutine, Accounted, ThreadInHand
<1>5. FdAccounted'
  BY DEF FdAccounted
<1>6. ThreadInHand'
  BY DEF ThreadInHand
<1>7. WatchesOwnFd'
  BY DEF WatchesOwnFd
<1> QED
  BY <1>1, <1>2, <1>3, <1>4, <1>5, <1>6, <1>7

LEMMA DeleteIInv ==
  ASSUME IInv, NEW c \in Conn, Delete(c)
  PROVE  IInv'
<1> USE FdAssumption, ConnAssumption
        DEF IInv, Delete, BackToDispatch, connVars, loopVars, threadVars
<1>1. TypeOK'
  BY DEF TypeOK
<1>2. NoDanglingEvent'
  BY DEF TypeOK, NoDanglingEvent
<1>3. RunsLiveCoroutine'
  BY DEF RunsLiveCoroutine
<1>4. Accounted'
  BY DEF Accounted, ThreadInHand
<1>5. FdAccounted'
  BY DEF RunsLiveCoroutine, FdAccounted
<1>6. ThreadInHand'
  BY DEF TypeOK, ThreadInHand
<1>7. WatchesOwnFd'
  BY DEF WatchesOwnFd
<1> QED
  BY <1>1, <1>2, <1>3, <1>4, <1>5, <1>6, <1>7

LEMMA DropNeedIInv ==
  ASSUME IInv, NEW c \in Conn, DropNeed(c)
  PROVE  IInv'
<1> USE FdAssumption, ConnAssumption
        DEF IInv, DropNeed, BackToDispatch, connVars, loopVars, threadVars
<1>1. TypeOK'
  BY DEF TypeOK
<1>2. NoDanglingEvent'
  BY DEF TypeOK, NoDanglingEvent
<1>3. RunsLiveCoroutine'
  BY DEF RunsLiveCoroutine
<1>4. Accounted'
  BY DEF Accounted, ThreadInHand
<1>5. FdAccounted'
  BY DEF FdAccounted
<1>6. ThreadInHand'
  BY DEF TypeOK, ThreadInHand
<1>7. WatchesOwnFd'
  BY DEF WatchesOwnFd
<1> QED
  BY <1>1, <1>2, <1>3, <1>4, <1>5, <1>6, <1>7

LEMMA BecomesReadyIInv ==
  ASSUME IInv, NEW f \in Fd \cup PoolFd, BecomesReady(f)
  PROVE  IInv'
<1> USE FdAssumption, ConnAssumption
        DEF IInv, BecomesReady, connVars, loopVars, threadVars
<1>1. TypeOK'
  BY DEF TypeOK
<1>2. NoDanglingEvent'
  BY DEF NoDanglingEvent
<1>3. RunsLiveCoroutine'
  BY DEF RunsLiveCoroutine
<1>4. Accounted'
  BY DEF Accounted
<1>5. FdAccounted'
  BY DEF FdAccounted
<1>6. ThreadInHand'
  BY DEF ThreadInHand
<1>7. WatchesOwnFd'
  BY DEF WatchesOwnFd
<1> QED
  BY <1>1, <1>2, <1>3, <1>4, <1>5, <1>6, <1>7

LEMMA NextIInv ==
  ASSUME IInv, [Next]_vars
  PROVE  IInv'
<1>1. ASSUME NEW c \in Conn, NEW f \in Fd \cup {NoFd}, OnPossibleAccept(c, f)
      PROVE  IInv'
  BY <1>1, OnPossibleAcceptIInv
<1>2. ASSUME NEW c \in Conn, OnConnectionEvent(c)
      PROVE  IInv'
  BY <1>2, OnConnectionEventIInv
<1>3. ASSUME NEW c \in Conn, ThreadStep(c)
      PROVE  IInv'
  BY <1>3, SafeIOIInv, FinishIInv, RegisterIInv, RegisterFailsIInv,
     DeleteIInv, DropNeedIInv
  DEF ThreadStep
<1>4. ASSUME NEW f \in Fd \cup PoolFd, BecomesReady(f)
      PROVE  IInv'
  BY <1>4, BecomesReadyIInv
<1>5. CASE UNCHANGED vars
  BY <1>5
  DEF vars, connVars, loopVars, threadVars, IInv, TypeOK, NoDanglingEvent,
      RunsLiveCoroutine, Accounted, FdAccounted, ThreadInHand, WatchesOwnFd
<1> QED
  BY <1>1, <1>2, <1>3, <1>4, <1>5 DEF Next

LEMMA Invariance == Spec => []IInv
<1>1. Init => IInv
  BY InitIInv
<1>2. IInv /\ [Next]_vars => IInv'
  BY NextIInv
<1> QED
  BY <1>1, <1>2, PTL DEF Spec

(* Every variable keeps its type; in particular the number of closures of   *)
(* an event never goes below zero (no double delete of a cx_event).         *)
THEOREM TypeCorrect == Spec => []TypeOK
<1>1. IInv => TypeOK
  BY DEF IInv
<1> QED
  BY <1>1, Invariance, PTL

(* No event outlives its Connection, is armed twice or is armed for the     *)
(* running coroutine (register_connection, _on_connection_event, delete).   *)
THEOREM EventsDeliverable == Spec => []NoDanglingEvent
<1>1. IInv => NoDanglingEvent
  BY DEF IInv
<1> QED
  BY <1>1, Invariance, PTL

(* Coroutine::resume is called on live, unfinished coroutines only.         *)
THEOREM ResumesLive == Spec => []RunsLiveCoroutine
<1>1. IInv => RunsLiveCoroutine
  BY DEF IInv
<1> QED
  BY <1>1, Invariance, PTL

(* No Connection is forgotten unless event_add failed for it.               *)
THEOREM NoneForgotten == Spec => []Accounted
<1>1. IInv => Accounted
  BY DEF IInv
<1> QED
  BY <1>1, Invariance, PTL

(* Accepted descriptors have one owner each and are closed with it.         *)
THEOREM DescriptorsOwned == Spec => []FdAccounted
<1>1. IInv => FdAccounted
  BY DEF IInv
<1> QED
  BY <1>1, Invariance, PTL

(* No pending event watches a descriptor after it was closed.               *)
THEOREM WatchesOpen == Spec => []WatchesOpenFd
<1>1. IInv => WatchesOpenFd
  BY DEF IInv, TypeOK, NoDanglingEvent, FdAccounted, WatchesOwnFd, WatchesOpenFd
<1> QED
  BY <1>1, Invariance, PTL

-----------------------------------------------------------------------------
(* The refinement: accept spawns a task, a connection event wakes one,      *)
(* register_connection parks it or loses it, delete ends it; the rest of    *)
(* the code is invisible to the scheduler.                                  *)
LEMMA StepRefines ==
  ASSUME IInv, [Next]_vars
  PROVE  [Scheduler!Next]_(Scheduler!vars)
<1> USE ConnAssumption
        DEF IInv, TypeOK, connVars, loopVars, threadVars
<1>1. ASSUME NEW c \in Conn, NEW f \in Fd \cup {NoFd}, OnPossibleAccept(c, f)
      PROVE  Scheduler!Spawn(c)
  BY <1>1 DEF OnPossibleAccept, Enter, Accounted, NoDanglingEvent,
     ThreadInHand, Scheduler!Spawn, Scheduler!Idle
<1>2. ASSUME NEW c \in Conn, OnConnectionEvent(c)
      PROVE  Scheduler!Wake(c)
  BY <1>2 DEF OnConnectionEvent, Enter, Accounted, ThreadInHand,
     Scheduler!Wake, Scheduler!Idle
<1>3. ASSUME NEW c \in Conn, Register(c)
      PROVE  Scheduler!Park(c)
  BY <1>3 DEF Register, BackToDispatch, ThreadInHand, Scheduler!Park
<1>4. ASSUME NEW c \in Conn, Delete(c)
      PROVE  Scheduler!End(c)
  BY <1>4 DEF Delete, BackToDispatch, ThreadInHand, Scheduler!End
<1>5. ASSUME NEW c \in Conn, DropNeed(c)
      PROVE  Scheduler!Lose(c)
  BY <1>5 DEF DropNeed, BackToDispatch, ThreadInHand, Scheduler!Lose
<1>6. ASSUME NEW c \in Conn, RegisterFails(c)
      PROVE  UNCHANGED Scheduler!vars
  BY <1>6 DEF RegisterFails, Enter, ThreadInHand, Scheduler!vars
<1>7. ASSUME NEW c \in Conn,
             NEW need \in {"READ", "WRITE"}, NEW f \in Fd \cup PoolFd \cup {NoFd},
             SafeIO(c, need, f)
      PROVE  UNCHANGED Scheduler!vars
  BY <1>7 DEF SafeIO, Scheduler!vars
<1>8. ASSUME NEW c \in Conn, Finish(c)
      PROVE  UNCHANGED Scheduler!vars
  BY <1>8 DEF Finish, Scheduler!vars
<1>9. ASSUME NEW f \in Fd \cup PoolFd, BecomesReady(f)
      PROVE  UNCHANGED Scheduler!vars
  BY <1>9 DEF BecomesReady, Scheduler!vars
<1>10. CASE UNCHANGED vars
  BY <1>10 DEF vars, Scheduler!vars
<1> HIDE DEF IInv, TypeOK, connVars, loopVars, threadVars
<1> QED
  BY <1>1, <1>2, <1>3, <1>4, <1>5, <1>6, <1>7, <1>8, <1>9, <1>10
  DEF Next, ThreadStep, Scheduler!Next

(* The callbacks of server.cpp with the resume/yield protocol implement     *)
(* cooperative scheduling.                                                  *)
THEOREM Refinement == Spec => RefinesScheduler
<1>1. Init => Scheduler!Init
  BY DEF Init, Scheduler!Init
<1>2. IInv /\ [Next]_vars => [Scheduler!Next]_(Scheduler!vars)
  BY StepRefines
<1> QED
  BY <1>1, <1>2, Invariance, PTL DEF Spec, RefinesScheduler, Scheduler!Spec
=============================================================================
