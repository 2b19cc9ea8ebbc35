-------------------------- MODULE SocketPoolProofs --------------------------
(***************************************************************************)
(* The pool's invariants for every limit and every set of descriptors.     *)
(* Together they are inductive once the two sets are known to be finite,   *)
(* which their cardinality needs.                                          *)
(***************************************************************************)
EXTENDS SocketPool, FiniteSetTheorems, TLAPS

PoolInv ==
  /\ PoolTypeOK
  /\ IsFiniteSet(avail \cup taken)
  /\ Disjoint
  /\ Bounded
  /\ HoldsOpen

(* get and put move a socket between the two sets; the union stays.         *)
LEMMA GetAvailKeepsUnion ==
  ASSUME NEW f \in Socket, GetAvail(f)
  PROVE  avail' \cup taken' = avail \cup taken
  BY DEF GetAvail

LEMMA PutBackKeepsUnion ==
  ASSUME NEW f, PutBack(f)
  PROVE  avail' \cup taken' = avail \cup taken
  BY DEF PutBack

(* connect grows the pool only from below the limit: with nothing free the  *)
(* taken sockets are the whole pool.                                        *)
LEMMA ConnectStaysBounded ==
  ASSUME PoolInv, NEW f \in Socket, GetConnected(f)
  PROVE  IsFiniteSet(avail' \cup taken') /\ Bounded'
<1>1. avail \cup taken = taken /\ avail' \cup taken' = taken \cup {f}
  BY DEF GetConnected, MayConnect
<1>2. f \notin taken
  BY DEF GetConnected, PoolInv, HoldsOpen
<1>3. IsFiniteSet(taken)
  BY <1>1 DEF PoolInv
<1>4. /\ IsFiniteSet(taken \cup {f})
      /\ Cardinality(taken \cup {f}) = Cardinality(taken) + 1
  BY <1>2, <1>3, FS_AddElement
<1>5. Cardinality(taken) \in Nat
  BY <1>3, FS_CardinalityType
<1>6. Cardinality(taken) < MaxPoolSize
  BY DEF GetConnected, MayConnect
<1> QED
  BY <1>1, <1>4, <1>5, <1>6, MaxPoolSizeAssumption DEF Bounded

(* del can only shrink it.                                                  *)
LEMMA DelStaysBounded ==
  ASSUME PoolInv, NEW f \in Socket, Del(f)
  PROVE  IsFiniteSet(avail' \cup taken') /\ Bounded'
<1>1. avail' \cup taken' \subseteq avail \cup taken
  BY DEF Del
<1>2. /\ IsFiniteSet(avail' \cup taken')
      /\ Cardinality(avail' \cup taken') <= Cardinality(avail \cup taken)
  BY <1>1, FS_Subset DEF PoolInv
<1>3. /\ Cardinality(avail' \cup taken') \in Nat
      /\ Cardinality(avail \cup taken) \in Nat
  BY <1>2, FS_CardinalityType DEF PoolInv
<1> QED
  BY <1>2, <1>3, MaxPoolSizeAssumption DEF PoolInv, Bounded

LEMMA PoolInvInit == PoolInit => PoolInv
<1>1. avail \cup taken = {} => IsFiniteSet(avail \cup taken) /\ Bounded
  BY FS_EmptySet, MaxPoolSizeAssumption DEF Bounded
<1> QED
  BY <1>1 DEF PoolInit, PoolInv, PoolTypeOK, Disjoint, HoldsOpen

LEMMA PoolInvNext ==
  ASSUME PoolInv, [PoolNext]_poolVars
  PROVE  PoolInv'
<1> USE DEF PoolInv, PoolTypeOK, Disjoint, HoldsOpen
<1>1. ASSUME NEW f \in Socket, GetAvail(f)
      PROVE  PoolInv'
  BY <1>1, GetAvailKeepsUnion DEF GetAvail, Bounded
<1>2. ASSUME NEW f \in Socket, GetConnected(f)
      PROVE  PoolInv'
  BY <1>2, ConnectStaysBounded DEF GetConnected, MayConnect
<1>3. ASSUME NEW f \in Socket, Put(f)
      PROVE  PoolInv'
  BY <1>3, PutBackKeepsUnion DEF Put, PutBack, Bounded
<1>4. ASSUME NEW f \in Socket, Del(f)
      PROVE  PoolInv'
  BY <1>4, DelStaysBounded DEF Del
<1>5. ASSUME GetRefused, UNCHANGED <<avail, taken>>
      PROVE  PoolInv'
  BY <1>5 DEF GetRefused, Bounded
<1>6. CASE UNCHANGED poolVars
  BY <1>6 DEF poolVars, Bounded
<1> QED
  BY <1>1, <1>2, <1>3, <1>4, <1>5, <1>6 DEF PoolNext

LEMMA PoolInvariance == PoolSpec => []PoolInv
<1>1. PoolInit => PoolInv
  BY PoolInvInit
<1>2. PoolInv /\ [PoolNext]_poolVars => PoolInv'
  BY PoolInvNext
<1> QED
  BY <1>1, <1>2, PTL DEF PoolSpec

(* get, put and del never leave a socket both free and lent.                *)
THEOREM PoolDisjoint == PoolSpec => []Disjoint
<1>1. PoolInv => Disjoint
  BY DEF PoolInv
<1> QED
  BY <1>1, PoolInvariance, PTL

(* The pool never holds more than MAX_POOL_SIZE sockets.                    *)
THEOREM PoolBounded == PoolSpec => []Bounded
<1>1. PoolInv => Bounded
  BY DEF PoolInv
<1> QED
  BY <1>1, PoolInvariance, PTL

(* Every socket the pool holds is open.                                     *)
THEOREM PoolHoldsOpen == PoolSpec => []HoldsOpen
<1>1. PoolInv => HoldsOpen
  BY DEF PoolInv
<1> QED
  BY <1>1, PoolInvariance, PTL
=============================================================================
