----------------------------- MODULE SocketPool -----------------------------
(***************************************************************************)
(* SocketPool (pool.cpp): the sockets to one backend, free or lent to a    *)
(* Client.  The kernel chooses the number of a new descriptor; the pool    *)
(* never closes one.                                                       *)
(***************************************************************************)
EXTENDS Naturals, FiniteSets

CONSTANTS
  Socket,       \* descriptor numbers a backend socket can have
  MaxPoolSize   \* MAX_POOL_SIZE

ASSUME SocketAssumption == Socket \subseteq Nat
ASSUME MaxPoolSizeAssumption == MaxPoolSize \in Nat

VARIABLES
  avail,   \* m_avail
  taken,   \* m_taken
  open     \* descriptors of Socket the process holds open

poolVars == <<avail, taken, open>>

PoolTypeOK ==
  /\ avail \subseteq Socket
  /\ taken \subseteq Socket
  /\ open \subseteq Socket

PoolInit ==
  /\ avail = {}
  /\ taken = {}
  /\ open = {}

-----------------------------------------------------------------------------
(* Fault: a socket that is handed out is not taken off the free list.       *)
GetAvail_Keeps(f) ==
  /\ f \in avail
  /\ \A g \in avail : f <= g
  /\ taken' = taken \cup {f}
  /\ UNCHANGED <<avail, open>>

(* get, with a socket at hand: *m_avail.begin() of an ordered set.          *)
GetAvail(f) ==
  /\ f \in avail
  /\ \A g \in avail : f <= g
  /\ avail' = avail \ {f}
  /\ taken' = taken \cup {f}
  /\ UNCHANGED open

(* Fault: the size is checked before the pool has grown past the limit.     *)
MayConnect_OffByOne ==
  /\ avail = {}
  /\ Cardinality(taken) <= MaxPoolSize

(* get, with no socket at hand and room for one more: connect.              *)
MayConnect ==
  /\ avail = {}
  /\ Cardinality(taken) < MaxPoolSize

GetConnected(f) ==
  /\ MayConnect
  /\ f \in Socket \ open
  /\ open' = open \cup {f}
  /\ taken' = taken \cup {f}
  /\ UNCHANGED avail

(* get fails: the pool is full, socket() fails, or f is created and fcntl,  *)
(* getaddrinfo or ::connect fails on it; f is then not closed.              *)
GetRefused ==
  /\ avail = {}
  /\ \/ UNCHANGED open
     \/ /\ MayConnect
        /\ \E f \in Socket \ open : open' = open \cup {f}

(* Fault: put does not look at what erase returned.                         *)
PutBack_Unchecked(f) ==
  /\ taken' = taken \ {f}
  /\ avail' = avail \cup {f}

(* The effect of put on the two sets; a descriptor that is not taken is     *)
(* refused and changes nothing.                                             *)
PutBack(f) ==
  /\ taken' = taken \ {f}
  /\ avail' = IF f \in taken THEN avail \cup {f} ELSE avail

Put(f) == PutBack(f) /\ UNCHANGED open

(* del forgets the descriptor and leaves it open.                           *)
Del(f) ==
  /\ avail' = avail \ {f}
  /\ taken' = taken \ {f}
  /\ UNCHANGED open

PoolNext ==
  \/ \E f \in Socket : GetAvail(f) \/ GetConnected(f) \/ Put(f) \/ Del(f)
  \/ GetRefused /\ UNCHANGED <<avail, taken>>

PoolSpec == PoolInit /\ [][PoolNext]_poolVars

-----------------------------------------------------------------------------
(* No socket is free and lent at once, so no put or get of one Client can   *)
(* hand a socket to another that is still using it.                         *)
Disjoint == avail \cap taken = {}

(* get checks m_taken alone against MAX_POOL_SIZE, and del shrinks the      *)
(* sets: still the pool as a whole never exceeds the limit.                 *)
Bounded == Cardinality(avail \cup taken) <= MaxPoolSize

(* The pool holds open descriptors only: what it hands out is a socket.     *)
HoldsOpen == avail \cup taken \subseteq open
=============================================================================
