-------------------------- MODULE ClientPoolProofs --------------------------
(***************************************************************************)
(* Socket ownership, for any number of handlers, sockets and sends, when   *)
(* every send has a Client of its own: whatever the backend does, a socket *)
(* is lent to one handler, and m_taken is the sockets being used.          *)
(* A Client that has not sent yet has no descriptor to put back, which is  *)
(* why a failed connect is harmless; OneSendPerClient records that.        *)
(*                                                                         *)
(* What handlers are told, for any number of handlers, sockets, requests   *)
(* and kinds of request: when every send has a Client of its own and the   *)
(* backend does no worse than close the connection, a send that returned   *)
(* true has read the answer to its own request.  What travels on a socket  *)
(* is, at any time, one exchange of the handler that uses it, and nothing  *)
(* when no handler does.                                                   *)
(***************************************************************************)
EXTENDS ClientPool, TLAPS, SequenceTheorems, WellFoundedInduction

ControlOK ==
  /\ PoolTypeOK
  /\ pc \in [Handler -> {"idle", "ready"} \cup InSend]
  /\ m_fd \in [Handler -> Socket \cup {NoFd}]
  /\ tries \in [Handler -> Nat]
  /\ kind \in [Handler -> Kind]

OneSendPerClient ==
  \A h \in Handler :
    /\ pc[h] = "idle" => tries[h] = 0
    /\ pc[h] \in InSend => tries[h] # 0
    /\ pc[h] \notin InSend /\ tries[h] = 0 => m_fd[h] = NoFd

OwnershipInv ==
  /\ ControlOK
  /\ OneSendPerClient
  /\ HoldsOpen
  /\ Disjoint
  /\ Exclusive
  /\ TakenInUse

USE NoFdAssumption DEF InSend, PoolTypeOK

LEMMA OwnershipInit == Init => OwnershipInv
  BY KindAssumption DEF Init, PoolInit, OwnershipInv, ControlOK, OneSendPerClient, HoldsOpen,
     Disjoint, Exclusive, TakenInUse

(* A send takes its socket from the free ones or from the kernel, and so    *)
(* never one that is in use.                                                *)
LEMMA StartSendOwnership ==
  ASSUME OwnershipInv, NEW h \in Handler, NEW f \in Socket, StartSend(h, f)
  PROVE  OwnershipInv'
<1> USE DEF OwnershipInv, StartSend
<1>1. /\ f \notin taken
      /\ taken' = taken \cup {f}
      /\ avail' = avail \ {f}
      /\ open' = open \cup {f}
  BY DEF GetAvail, GetConnected, MayConnect, Disjoint, HoldsOpen
<1>2. pc[h] = "ready"
  BY DEF MaySend
<1>3. ControlOK'
  BY <1>1 DEF ControlOK
<1>4. OneSendPerClient'
  BY DEF ControlOK, OneSendPerClient
<1>5. HoldsOpen' /\ Disjoint'
  BY <1>1 DEF HoldsOpen, Disjoint
<1>6. Exclusive'
  BY <1>1 DEF ControlOK, Exclusive, TakenInUse
<1>7. TakenInUse'
  BY <1>1, <1>2 DEF ControlOK, TakenInUse
<1> QED
  BY <1>3, <1>4, <1>5, <1>6, <1>7

(* A send that cannot get a socket puts back -1, which the pool refuses.    *)
LEMMA StartSendFailsOwnership ==
  ASSUME OwnershipInv, NEW h \in Handler, StartSendFails(h), ~ReuseClient
  PROVE  OwnershipInv' /\ UNCHANGED <<avail, taken>>
<1> USE DEF OwnershipInv, StartSendFails, Failure
<1>1. m_fd[h] = NoFd
  BY DEF MaySend, ControlOK, OneSendPerClient
<1>2. UNCHANGED <<avail, taken>>
  BY <1>1 DEF PutBack, ControlOK
<1>3. open \subseteq open' /\ open' \subseteq Socket
  BY DEF GetRefused, ControlOK
<1>4. pc[h] = "ready" /\ tries[h] \in Nat
  BY DEF MaySend, ControlOK
<1>5. ControlOK' /\ OneSendPerClient'
  BY <1>2, <1>3, <1>4 DEF ControlOK, OneSendPerClient
<1>6. HoldsOpen' /\ Disjoint'
  BY <1>2, <1>3 DEF HoldsOpen, Disjoint
<1>7. Exclusive' /\ TakenInUse'
  BY <1>2, <1>4 DEF ControlOK, Exclusive, TakenInUse
<1> QED
  BY <1>2, <1>5, <1>6, <1>7

(* A send that ends, well or not, puts back the socket it alone holds.      *)
LEMMA ReleaseOwnership ==
  ASSUME OwnershipInv, NEW h \in Handler, pc[h] \in InSend, PutBack(m_fd[h]),
         pc' = [pc EXCEPT ![h] = "ready"], UNCHANGED <<open, m_fd, kind, tries>>
  PROVE  OwnershipInv' /\ Put(m_fd[h]) /\ m_fd[h] \in Socket
<1> USE DEF OwnershipInv
<1>1. m_fd[h] \in taken /\ m_fd[h] \in Socket
  BY DEF TakenInUse, ControlOK
<1>2. taken' = taken \ {m_fd[h]} /\ avail' = avail \cup {m_fd[h]}
  BY <1>1 DEF PutBack
<1>3. ControlOK' /\ OneSendPerClient'
  BY <1>1, <1>2 DEF ControlOK, OneSendPerClient
<1>4. HoldsOpen' /\ Disjoint'
  BY <1>1, <1>2 DEF HoldsOpen, Disjoint
<1>5. Exclusive'
  BY DEF ControlOK, Exclusive
<1>6. TakenInUse'
  BY <1>2 DEF ControlOK, Exclusive, TakenInUse
<1>7. Put(m_fd[h])
  BY DEF Put
<1> QED
  BY <1>1, <1>3, <1>4, <1>5, <1>6, <1>7

(* Between those two points the send keeps its socket.                      *)
LEMMA StayOwnership ==
  ASSUME OwnershipInv, NEW h \in Handler, pc[h] \in InSend, NEW p \in InSend,
         pc' = [pc EXCEPT ![h] = p], UNCHANGED <<poolVars, m_fd, kind, tries>>
  PROVE  OwnershipInv'
<1> USE DEF OwnershipInv, poolVars
<1>1. ControlOK' /\ OneSendPerClient' /\ HoldsOpen' /\ Disjoint'
  BY DEF ControlOK, OneSendPerClient, HoldsOpen, Disjoint
<1>2. Exclusive' /\ TakenInUse'
  BY DEF ControlOK, Exclusive, TakenInUse
<1> QED
  BY <1>1, <1>2

(* Outside a send a handler holds nothing.                                  *)
LEMMA OutsideOwnership ==
  ASSUME OwnershipInv, NEW h \in Handler, pc[h] \notin InSend, UNCHANGED poolVars,
         kind' \in [Handler -> Kind],
         NEW p \in {"idle", "ready"}, pc' = [pc EXCEPT ![h] = p],
         \/ pc[h] = "idle" /\ UNCHANGED <<m_fd, tries>>
         \/ m_fd' = [m_fd EXCEPT ![h] = NoFd] /\ tries' = [tries EXCEPT ![h] = 0]
  PROVE  OwnershipInv'
<1> USE DEF OwnershipInv, poolVars
<1>1. ControlOK' /\ OneSendPerClient'
  BY DEF ControlOK, OneSendPerClient
<1>2. HoldsOpen' /\ Disjoint'
  BY DEF HoldsOpen, Disjoint
<1>3. Exclusive' /\ TakenInUse'
  BY DEF ControlOK, Exclusive, TakenInUse
<1> QED
  BY <1>1, <1>2, <1>3

LEMMA UnchangedOwnership ==
  ASSUME OwnershipInv, UNCHANGED <<poolVars, pc, m_fd, kind, tries>>
  PROVE  OwnershipInv'
  BY DEF OwnershipInv, poolVars, ControlOK, OneSendPerClient, HoldsOpen,
     Disjoint, Exclusive, TakenInUse

(* Every step keeps the invariant and is, for the pool, a get, a put or     *)
(* nothing.                                                                 *)
LEMMA StepOwnership ==
  ASSUME OwnershipInv, [Next]_vars, ~ReuseClient
  PROVE  OwnershipInv' /\ [PoolNext]_poolVars
<1>1. ASSUME NEW h \in Handler, NEW f \in Socket, StartSend(h, f)
      PROVE  OwnershipInv' /\ PoolNext
  BY <1>1, StartSendOwnership DEF StartSend, PoolNext
<1>2. ASSUME NEW h \in Handler, StartSendFails(h)
      PROVE  OwnershipInv' /\ PoolNext
  BY <1>2, StartSendFailsOwnership DEF StartSendFails, PoolNext
<1>3. ASSUME NEW h \in Handler, WriteFails(h)
      PROVE  OwnershipInv' /\ PoolNext
  BY <1>3, ReleaseOwnership DEF WriteFails, Failure, PoolNext
<1>4. ASSUME NEW h \in Handler, NEW n \in 1..MaxSends, Write(h, n)
      PROVE  OwnershipInv' /\ UNCHANGED poolVars
  <2>1. PICK p : pc' = [pc EXCEPT ![h] = p] /\ p \in InSend
    BY <1>4, KindAssumption DEF Write, AfterHeaders, OwnershipInv, ControlOK
  <2> QED
    BY <1>4, <2>1, StayOwnership DEF Write
<1>5. ASSUME NEW h \in Handler, WriteBody(h)
      PROVE  OwnershipInv' /\ UNCHANGED poolVars
  BY <1>5, StayOwnership DEF WriteBody
<1>6. ASSUME NEW h \in Handler, NEW n \in 1..Len(toClient[m_fd[h]]), Wait100(h, n)
      PROVE  OwnershipInv' /\ (PoolNext \/ UNCHANGED poolVars)
  <2>1. CASE Failure(h)
    BY <1>6, <2>1, ReleaseOwnership DEF Wait100, Failure, PoolNext
  <2>2. CASE pc' = [pc EXCEPT ![h] = "body"] /\ UNCHANGED <<avail, taken>>
    BY <1>6, <2>2, StayOwnership DEF Wait100, poolVars
  <2> QED
    BY <1>6, <2>1, <2>2 DEF Wait100
<1>7. ASSUME NEW h \in Handler, NEW n \in 1..Len(toClient[m_fd[h]]), ReadReply(h, n)
      PROVE  OwnershipInv' /\ PoolNext
  <2>1. PutBack(m_fd[h]) /\ pc' = [pc EXCEPT ![h] = "ready"]
    BY <1>7 DEF ReadReply, Failure, Success
  <2> QED
    BY <1>7, <2>1, ReleaseOwnership DEF ReadReply, PoolNext
<1>8. ASSUME NEW h \in Handler, ReadFails(h)
      PROVE  OwnershipInv' /\ PoolNext
  BY <1>8, ReleaseOwnership DEF ReadFails, Failure, PoolNext
<1>9. ASSUME NEW h \in Handler, EndRequest(h)
      PROVE  OwnershipInv' /\ UNCHANGED poolVars
  BY <1>9, OutsideOwnership DEF EndRequest, OwnershipInv, ControlOK
<1>10. ASSUME NEW h \in Handler, NEW k \in Kind, NewRequest(h, k)
       PROVE  OwnershipInv' /\ UNCHANGED poolVars
  BY <1>10, OutsideOwnership DEF NewRequest, OwnershipInv, ControlOK
<1>11. ASSUME NEW s \in Socket, BackendStep(s) \/ Close(s)
       PROVE  OwnershipInv' /\ UNCHANGED poolVars
  BY <1>11, UnchangedOwnership
  DEF BackendStep, AnswersWhole, TakesHead, TakesRest, Consume, Close, clientVars
<1>12. CASE UNCHANGED vars
  BY <1>12, UnchangedOwnership DEF vars, clientVars
<1> QED
  BY <1>1, <1>2, <1>3, <1>4, <1>5, <1>6, <1>7, <1>8, <1>9, <1>10, <1>11, <1>12
  DEF Next, HandlerStep

LEMMA Ownership == ~ReuseClient => (Spec => []OwnershipInv)
<1> SUFFICES ASSUME ~ReuseClient
             PROVE  Spec => []OwnershipInv
  OBVIOUS
<1>1. Init => OwnershipInv
  BY OwnershipInit
<1>2. OwnershipInv /\ [Next]_vars => OwnershipInv'
  BY StepOwnership
<1> QED
  BY <1>1, <1>2, PTL DEF Spec

(* No two handlers ever use one pooled socket, provided each send is made   *)
(* by a Client of its own.                                                  *)
THEOREM SocketsExclusive == ~ReuseClient => (Spec => []Exclusive)
<1>1. OwnershipInv => Exclusive
  BY DEF OwnershipInv
<1> QED
  BY <1>1, Ownership, PTL

(* m_taken is exactly the sockets of the sends in progress: none is lost    *)
(* to the pool, none returned early.                                        *)
THEOREM TakenAccounted == ~ReuseClient => (Spec => []TakenInUse)
<1>1. OwnershipInv => TakenInUse
  BY DEF OwnershipInv
<1> QED
  BY <1>1, Ownership, PTL

(* Client::send implements the pool's specification, so what is proved of   *)
(* SocketPool holds of the pool that clients use.                           *)
THEOREM UsesPool == ~ReuseClient => (Spec => RefinesPool)
<1> SUFFICES ASSUME ~ReuseClient
             PROVE  Spec => RefinesPool
  OBVIOUS
<1>1. Init => PoolInit
  BY DEF Init
<1>2. OwnershipInv /\ [Next]_vars => [PoolNext]_poolVars
  BY StepOwnership
<1> QED
  BY <1>1, <1>2, Ownership, PTL DEF Spec, RefinesPool, PoolSpec

-----------------------------------------------------------------------------
HIDE NoFdAssumption DEF InSend, PoolTypeOK

(* Of one send: what it sends first and last, and what it is answered.      *)
First(h) == Unit(h, IF kind[h] = "memory" THEN "whole" ELSE "head")
Rest(h) == Unit(h, "rest")
Continue(h) == [who |-> h, round |-> round[h], code |-> "100"]

Wire(s, requests, replies, awaited) ==
  toBackend[s] = requests /\ toClient[s] = replies /\ awaits[s] = awaited

(* Where the exchange of a send may be, as long as the backend has not      *)
(* closed the socket, and after that.                                       *)
WithOpenPeer(h, s) ==
  \/ pc[h] = "write" /\ Wire(s, <<>>, <<>>, NoUnit)
  \/ pc[h] = "body" /\ kind[h] = "disk" /\ Wire(s, <<First(h)>>, <<>>, NoUnit)
  \/ pc[h] = "body" /\ kind[h] # "memory" /\ Wire(s, <<>>, <<>>, First(h))
  \/ pc[h] = "wait100" /\ kind[h] = "expect" /\ Wire(s, <<First(h)>>, <<>>, NoUnit)
  \/ pc[h] = "wait100" /\ kind[h] = "expect" /\ Wire(s, <<>>, <<Continue(h)>>, First(h))
  \/ pc[h] = "read" /\ kind[h] = "memory" /\ Wire(s, <<First(h)>>, <<>>, NoUnit)
  \/ pc[h] = "read" /\ kind[h] = "disk" /\ Wire(s, <<First(h), Rest(h)>>, <<>>, NoUnit)
  \/ pc[h] = "read" /\ kind[h] # "memory" /\ Wire(s, <<Rest(h)>>, <<>>, First(h))
  \/ pc[h] = "read" /\ Wire(s, <<>>, <<Own(h)>>, NoUnit)

WithClosedPeer(h, s) ==
  /\ toBackend[s] = <<>>
  /\ \/ toClient[s] = <<>>
     \/ pc[h] = "wait100" /\ kind[h] = "expect" /\ toClient[s] = <<Continue(h)>>
     \/ pc[h] = "read" /\ toClient[s] = <<Own(h)>>

Exchange(h) ==
  pc[h] \in InSend =>
    /\ pc[h] = "write" => unsent[h] = <<First(h)>>
    /\ IF peer[m_fd[h]] = "open" THEN WithOpenPeer(h, m_fd[h]) ELSE WithClosedPeer(h, m_fd[h])

(* A socket that no send uses carries nothing, and the backend, if it still *)
(* has it, expects a new request.                                           *)
AtRest(s) ==
  s \notin taken =>
    /\ toBackend[s] = <<>> /\ toClient[s] = <<>>
    /\ peer[s] = "open" => awaits[s] = NoUnit

(* A send that has not ended has read nothing for the handler.              *)
Tally(h) ==
  /\ tries[h] = 0 => m_data[h] = <<>>
  /\ tries[h] = 0 \/ pc[h] \in InSend => result[h] = "none" /\ got[h] = <<>> /\ sends[h] = 0
  /\ result[h] = "ok" => got[h] = <<Own(h)>> /\ sends[h] = 1

(* Whatever the backend does and however often a Client sends, its fields   *)
(* and the units on the wire keep their form.                               *)
Bookkeeping ==
  \A h \in Handler :
    /\ sends[h] <= tries[h]
    /\ pc[h] \in InSend => m_fd[h] \in Socket /\ sends[h] < tries[h]

TypeInv == TypeOK /\ Bookkeeping

RepliesInv ==
  /\ TypeInv
  /\ OwnershipInv
  /\ \A h \in Handler : Exchange(h)
  /\ \A s \in Socket : AtRest(s)
  /\ \A h \in Handler : Tally(h)

-----------------------------------------------------------------------------
(* The least of a set of numbers.                                           *)
LEMMA First1 ==
  ASSUME NEW T, T \subseteq Nat, T # {}
  PROVE  \E x \in T : \A y \in T : x <= y
<1> DEFINE R == OpToRel(<, Nat)
<1>1. \A x, y \in Nat : <<x, y>> \in R <=> x < y
  BY DEF OpToRel
<1>2. IsWellFoundedOn(R, Nat)
  BY NatLessThanWellFounded
<1> HIDE DEF R
<1>3. PICK x \in T : \A y \in T : ~ (<<y, x>> \in R)
  BY <1>2, WFMin
<1>4. ASSUME NEW y \in T PROVE x <= y
  <2>1. ~(y < x)
    BY <1>1, <1>3
  <2> QED BY <2>1
<1> QED BY <1>4

LEMMA UnitTyped ==
  ASSUME TypeOK, NEW h \in Handler, NEW part \in {"whole", "head", "rest"}
  PROVE  Unit(h, part) \in Units
<1>1. round[h] \in 0..MaxRounds /\ kind[h] \in Kind
  BY DEF TypeOK
<1> QED BY <1>1 DEF Unit, Units

LEMMA AnswerTyped ==
  ASSUME NEW u \in Units, NEW code \in {"100", "final", "bad"}
  PROVE  Answer(u, code) \in Answers
BY DEF Answer, Answers, Units

LEMMA AnsweringTyped ==
  ASSUME NEW u \in Units, NEW answers \in Answering(u)
  PROVE  answers \in Seq(Answers)
<1>1. Answer(u, "final") \in Answers /\ Answer(u, "bad") \in Answers
  BY AnswerTyped
<1>2. \/ answers = <<Answer(u, "final")>>
      \/ answers = <<Answer(u, "bad")>>
      \/ answers = <<Answer(u, "bad"), Answer(u, "bad")>>
  BY DEF Answering
<1> DEFINE final == Answer(u, "final")
           bad == Answer(u, "bad")
<1> HIDE DEF final, bad
<1>3. final \in Answers /\ bad \in Answers /\ (answers = <<final>> \/ answers = <<bad>> \/ answers = <<bad, bad>>)
  BY <1>1, <1>2 DEF final, bad
<1>4. <<final>> \in Seq(Answers) /\ <<bad>> \in Seq(Answers)
  BY <1>3
<1>5. <<bad, bad>> \in Seq(Answers)
  BY <1>3
<1> QED BY <1>3, <1>4, <1>5

(* The replies before a malformed one.                                      *)
LEMMA BeforeMalformedTyped ==
  ASSUME NEW answers \in Seq(Answers), Malformed(answers)
  PROVE  BeforeMalformed(answers) \in Seq(Answers)
<1> DEFINE Bad == {i \in 1..Len(answers) : answers[i].code = "bad"}
           first == CHOOSE i \in 1..Len(answers) :
                      /\ answers[i].code = "bad"
                      /\ \A j \in 1..i-1 : answers[j].code # "bad"
<1>1. Len(answers) \in Nat
  BY LenProperties
<1>2. Bad \subseteq Nat /\ Bad # {}
  BY <1>1 DEF Malformed
<1>3. PICK i \in Bad : \A j \in Bad : i <= j
  BY <1>2, First1
<1>4. i \in 1..Len(answers) /\ answers[i].code = "bad" /\ \A j \in 1..i-1 : answers[j].code # "bad"
  <2>1. i \in 1..Len(answers) /\ answers[i].code = "bad"
    BY <1>3
  <2>2. ASSUME NEW j \in 1..i-1, answers[j].code = "bad" PROVE FALSE
    BY <1>1, <1>3, <2>1, <2>2
  <2> QED BY <2>1, <2>2
<1>5. first \in 1..Len(answers)
  BY <1>4
<1>6. BeforeMalformed(answers) = SubSeq(answers, 1, first - 1)
  BY DEF BeforeMalformed
<1> HIDE DEF first
<1>7. \A j \in 1..first - 1 : answers[j] \in Answers
  BY <1>1, <1>5, ElementOfSeq
<1> QED BY <1>5, <1>6, <1>7, SubSeqProperties

LEMMA PartOf ==
  ASSUME NEW S, NEW s \in Seq(S), NEW n \in 1..Len(s)
  PROVE  SubSeq(s, 1, n) \in Seq(S) /\ SubSeq(s, n + 1, Len(s)) \in Seq(S)
BY LenProperties, ElementOfSeq, SubSeqProperties

LEMMA TypesInitially ==
  ASSUME Init
  PROVE  TypeInv
<1>1. (CHOOSE k \in Kind : TRUE) \in Kind
  BY KindAssumption
<1>2. 0 \in 0..MaxRounds /\ 0 \in 0..MaxSends
  BY BoundsAssumption
<1> QED BY <1>1, <1>2, EmptySeq DEF Init, PoolInit, PoolTypeOK, TypeInv, TypeOK, Bookkeeping, InSend

(* What the steps of a send have in common: the pool.                       *)
LEMMA PutBackTyped ==
  ASSUME PoolTypeOK, NEW f, PutBack(f), UNCHANGED open
  PROVE  PoolTypeOK'
BY DEF PoolTypeOK, PutBack

LEMMA PreparedTyped ==
  ASSUME TypeOK, NEW h \in Handler
  PROVE  Prepared(h) \in Seq(Units)
<1>1. m_data[h] \in Seq(Units)
  BY DEF TypeOK
<1>2. Unit(h, IF kind[h] = "memory" THEN "whole" ELSE "head") \in Units
  BY UnitTyped
<1> QED BY <1>1, <1>2, AppendProperties DEF Prepared

LEMMA FailureTyped ==
  ASSUME TypeInv, NEW h \in Handler, Failure(h), pc[h] \in InSend, UNCHANGED <<open, m_fd, sends, tries>>
  PROVE  /\ PoolTypeOK'
         /\ pc' \in [Handler -> {"idle", "ready"} \cup InSend]
         /\ result' \in [Handler -> {"none", "ok", "failed"}]
         /\ Bookkeeping'
<1>1. PoolTypeOK'
  BY PutBackTyped DEF TypeInv, TypeOK, Failure
<1>2. pc' = [pc EXCEPT ![h] = "ready"] /\ result' = [result EXCEPT ![h] = "failed"]
  BY DEF Failure
<1> QED BY <1>1, <1>2 DEF TypeInv, TypeOK, Bookkeeping, InSend

LEMMA StartSendTyped ==
  ASSUME TypeInv, NEW h \in Handler, NEW f \in Socket, StartSend(h, f)
  PROVE  TypeInv'
<1> USE DEF TypeInv
<1>1. PoolTypeOK'
  BY DEF StartSend, GetAvail, GetConnected, TypeOK, PoolTypeOK
<1>2. pc[h] = "ready" /\ tries[h] \in 0..MaxSends /\ sends[h] \in 0..MaxSends /\ sends[h] <= tries[h]
  BY DEF StartSend, MaySend, TypeOK, Bookkeeping
<1>3. tries[h] + 1 \in 0..MaxSends
  <2>1. CASE ReuseClient
    BY <1>2, <2>1, BoundsAssumption DEF StartSend, MaySend
  <2>2. CASE ~ReuseClient
    BY <1>2, <2>2, BoundsAssumption DEF StartSend, MaySend
  <2> QED BY <2>1, <2>2
<1>4. Prepared(h) \in Seq(Units)
  BY PreparedTyped
<1>5. /\ m_fd' = [m_fd EXCEPT ![h] = f]
      /\ m_data' = [m_data EXCEPT ![h] = Prepared(h)]
      /\ unsent' = [unsent EXCEPT ![h] = Prepared(h)]
      /\ tries' = [tries EXCEPT ![h] = tries[h] + 1]
      /\ pc' = [pc EXCEPT ![h] = "write"]
      /\ result' = [result EXCEPT ![h] = "none"]
      /\ UNCHANGED <<kind, round, sends, got, wireVars>>
  BY DEF StartSend
<1>6. TypeOK'
  BY <1>1, <1>3, <1>4, <1>5 DEF TypeOK, wireVars, InSend
<1>7. Bookkeeping'
  BY <1>2, <1>5 DEF TypeOK, Bookkeeping, InSend
<1> QED BY <1>6, <1>7

LEMMA StartSendFailsTyped ==
  ASSUME TypeInv, NEW h \in Handler, StartSendFails(h)
  PROVE  TypeInv'
<1> USE DEF TypeInv
<1>1. PoolTypeOK'
  BY DEF StartSendFails, Failure, GetRefused, PutBack, TypeOK, PoolTypeOK
<1>2. pc[h] = "ready" /\ tries[h] \in 0..MaxSends /\ sends[h] \in 0..MaxSends /\ sends[h] <= tries[h]
  BY DEF StartSendFails, MaySend, TypeOK, Bookkeeping
<1>3. tries[h] + 1 \in 0..MaxSends
  <2>1. CASE ReuseClient
    BY <1>2, <2>1, BoundsAssumption DEF StartSendFails, MaySend
  <2>2. CASE ~ReuseClient
    BY <1>2, <2>2, BoundsAssumption DEF StartSendFails, MaySend
  <2> QED BY <2>1, <2>2
<1>4. Prepared(h) \in Seq(Units)
  BY PreparedTyped
<1>5. /\ m_data' = [m_data EXCEPT ![h] = Prepared(h)]
      /\ tries' = [tries EXCEPT ![h] = tries[h] + 1]
      /\ pc' = [pc EXCEPT ![h] = "ready"]
      /\ result' = [result EXCEPT ![h] = "failed"]
      /\ UNCHANGED <<m_fd, kind, unsent, round, sends, got, wireVars>>
  BY DEF StartSendFails, Failure
<1>6. TypeOK'
  BY <1>1, <1>3, <1>4, <1>5 DEF TypeOK, wireVars
<1>7. Bookkeeping'
  BY <1>2, <1>5 DEF TypeOK, Bookkeeping, InSend
<1> QED BY <1>6, <1>7

LEMMA WriteTyped ==
  ASSUME TypeInv, NEW h \in Handler
  PROVE  /\ WriteFails(h) => TypeInv'
         /\ ReadFails(h) => TypeInv'
         /\ WriteBody(h) => TypeInv'
         /\ \A n \in 1..MaxSends : Write(h, n) => TypeInv'
<1> USE DEF TypeInv
<1>1. ASSUME WriteFails(h) \/ ReadFails(h) PROVE TypeInv'
  <2>1. /\ pc[h] \in InSend /\ Failure(h)
        /\ UNCHANGED <<open, m_fd, kind, m_data, unsent, round, sends, tries, got, wireVars>>
    BY <1>1 DEF WriteFails, ReadFails, InSend
  <2>2. /\ PoolTypeOK'
        /\ pc' \in [Handler -> {"idle", "ready"} \cup InSend]
        /\ result' \in [Handler -> {"none", "ok", "failed"}]
        /\ Bookkeeping'
    BY <2>1, FailureTyped
  <2> QED BY <2>1, <2>2 DEF TypeOK, wireVars
<1>2. ASSUME NEW s \in Socket, NEW units \in Seq(Units), Transmit(s, units)
      PROVE  toBackend' \in [Socket -> Seq(Units)]
  <2>1. toBackend[s] \o units \in Seq(Units)
    BY ConcatProperties DEF TypeOK
  <2> QED BY <1>2, <2>1 DEF TypeOK, Transmit
<1>3. ASSUME WriteBody(h) PROVE TypeInv'
  <2>1. <<Unit(h, "rest")>> \in Seq(Units) /\ m_fd[h] \in Socket /\ pc[h] \in InSend
    BY <1>3, UnitTyped DEF Bookkeeping, WriteBody, InSend
  <2>2. toBackend' \in [Socket -> Seq(Units)]
    BY <1>2, <1>3, <2>1 DEF WriteBody
  <2>3. /\ pc' = [pc EXCEPT ![h] = "read"]
        /\ UNCHANGED <<poolVars, m_fd, kind, m_data, unsent, round, sends, tries, got, result,
                       toClient, peer, awaits>>
    BY <1>3 DEF WriteBody
  <2>4. TypeOK'
    BY <2>2, <2>3 DEF TypeOK, PoolTypeOK, poolVars, InSend
  <2>5. Bookkeeping'
    BY <2>1, <2>3 DEF TypeOK, Bookkeeping
  <2> QED BY <2>4, <2>5
<1>4. ASSUME NEW n \in 1..MaxSends, Write(h, n) PROVE TypeInv'
  <2>1. m_fd[h] \in Socket /\ pc[h] \in InSend /\ n \in 1..Len(unsent[h]) /\ unsent[h] \in Seq(Units)
    BY <1>4 DEF Bookkeeping, Write, InSend, TypeOK
  <2> DEFINE now == SubSeq(unsent[h], 1, n)
             later == SubSeq(unsent[h], n + 1, Len(unsent[h]))
             next == IF n < Len(unsent[h]) THEN "write" ELSE AfterHeaders(h)
  <2>2. now \in Seq(Units) /\ later \in Seq(Units)
    BY <2>1, PartOf
  <2>3. next \in InSend
    BY KindAssumption DEF AfterHeaders, TypeOK, InSend
  <2>4. toBackend' \in [Socket -> Seq(Units)]
    BY <1>2, <1>4, <2>1, <2>2 DEF Write
  <2>5. /\ unsent' = [unsent EXCEPT ![h] = later]
        /\ pc' = [pc EXCEPT ![h] = next]
        /\ UNCHANGED <<poolVars, m_fd, kind, m_data, round, sends, tries, got, result,
                       toClient, peer, awaits>>
    BY <1>4 DEF Write
  <2> HIDE DEF now, later, next
  <2>6. TypeOK'
    BY <2>2, <2>3, <2>4, <2>5 DEF TypeOK, PoolTypeOK, poolVars
  <2>7. Bookkeeping'
    BY <2>1, <2>3, <2>5 DEF TypeOK, Bookkeeping
  <2> QED BY <2>6, <2>7
<1> QED BY <1>1, <1>3, <1>4

LEMMA ReceivedTyped ==
  ASSUME TypeInv, NEW h \in Handler, NEW n \in 1..Len(toClient[m_fd[h]]), pc[h] \in InSend
  PROVE  /\ Received(m_fd[h], n) \in Seq(Answers)
         /\ Drain(m_fd[h], n) => toClient' \in [Socket -> Seq(Answers)]
<1>1. m_fd[h] \in Socket /\ toClient[m_fd[h]] \in Seq(Answers)
  BY DEF TypeInv, TypeOK, Bookkeeping
<1>2. /\ SubSeq(toClient[m_fd[h]], 1, n) \in Seq(Answers)
      /\ SubSeq(toClient[m_fd[h]], n + 1, Len(toClient[m_fd[h]])) \in Seq(Answers)
  BY <1>1, PartOf
<1> QED BY <1>1, <1>2 DEF Received, Drain, TypeInv, TypeOK

LEMMA Wait100Typed ==
  ASSUME TypeInv, NEW h \in Handler, NEW n \in 1..Len(toClient[m_fd[h]]), Wait100(h, n)
  PROVE  TypeInv'
<1> USE DEF TypeInv
<1>1. pc[h] \in InSend /\ Drain(m_fd[h], n)
  BY DEF Wait100, InSend
<1>2. toClient' \in [Socket -> Seq(Answers)] /\ UNCHANGED <<toBackend, peer, awaits>>
  BY <1>1, ReceivedTyped DEF Drain
<1>3. UNCHANGED <<open, m_fd, kind, m_data, unsent, round, sends, tries, got>>
  BY DEF Wait100
<1>4. CASE pc' = [pc EXCEPT ![h] = "body"] /\ UNCHANGED <<avail, taken, result>>
  <2>1. TypeOK'
    BY <1>2, <1>3, <1>4 DEF TypeOK, PoolTypeOK, InSend
  <2>2. Bookkeeping'
    BY <1>1, <1>3, <1>4 DEF TypeOK, Bookkeeping
  <2> QED BY <2>1, <2>2
<1>5. CASE Failure(h)
  <2>1. /\ PoolTypeOK'
        /\ pc' \in [Handler -> {"idle", "ready"} \cup InSend]
        /\ result' \in [Handler -> {"none", "ok", "failed"}]
        /\ Bookkeeping'
    BY <1>1, <1>3, <1>5, FailureTyped
  <2> QED BY <1>2, <1>3, <2>1 DEF TypeOK
<1> QED BY <1>4, <1>5 DEF Wait100

LEMMA ReadReplyTyped ==
  ASSUME TypeInv, NEW h \in Handler, NEW n \in 1..Len(toClient[m_fd[h]]), ReadReply(h, n)
  PROVE  TypeInv'
<1> USE DEF TypeInv
<1>1. pc[h] \in InSend /\ Drain(m_fd[h], n)
  BY DEF ReadReply, InSend
<1>2. toClient' \in [Socket -> Seq(Answers)] /\ UNCHANGED <<toBackend, peer, awaits>>
  BY <1>1, ReceivedTyped DEF Drain
<1>3. UNCHANGED <<open, m_fd, kind, m_data, unsent, round, tries>>
  BY DEF ReadReply
<1> DEFINE answers == Received(m_fd[h], n)
<1>4. answers \in Seq(Answers) /\ got[h] \in Seq(Answers)
  BY <1>1, ReceivedTyped DEF TypeOK
<1>5. CASE Malformed(answers)
  <2>1. Failure(h) /\ UNCHANGED sends /\ got' = [got EXCEPT ![h] = got[h] \o BeforeMalformed(answers)]
    BY <1>5 DEF ReadReply
  <2>2. got[h] \o BeforeMalformed(answers) \in Seq(Answers)
    BY <1>4, <1>5, BeforeMalformedTyped, ConcatProperties
  <2>3. /\ PoolTypeOK'
        /\ pc' \in [Handler -> {"idle", "ready"} \cup InSend]
        /\ result' \in [Handler -> {"none", "ok", "failed"}]
        /\ Bookkeeping'
    BY <1>1, <1>3, <2>1, FailureTyped
  <2> QED BY <1>2, <1>3, <2>1, <2>2, <2>3 DEF TypeOK
<1>6. CASE ~Malformed(answers)
  <2>1. Success(h) /\ got' = [got EXCEPT ![h] = got[h] \o answers]
    BY <1>6 DEF ReadReply
  <2>2. got[h] \o answers \in Seq(Answers)
    BY <1>4, ConcatProperties
  <2> HIDE DEF answers
  <2>3. sends[h] \in 0..MaxSends /\ tries[h] \in 0..MaxSends /\ sends[h] < tries[h] /\ MaxSends \in Nat
    BY <1>1, BoundsAssumption DEF TypeOK, Bookkeeping
  <2>4. sends[h] + 1 \in 0..MaxSends /\ sends[h] + 1 <= tries[h]
    BY <2>3
  <2>5. /\ sends' = [sends EXCEPT ![h] = sends[h] + 1]
        /\ pc' = [pc EXCEPT ![h] = "ready"]
        /\ result' = [result EXCEPT ![h] = "ok"]
        /\ PutBack(m_fd[h]) /\ UNCHANGED open
    BY <1>3, <2>1 DEF Success
  <2>6. PoolTypeOK'
    BY <2>5, PutBackTyped DEF TypeOK
  <2>7. TypeOK'
    BY <1>2, <1>3, <2>1, <2>2, <2>4, <2>5, <2>6 DEF TypeOK
  <2>8. Bookkeeping'
    BY <1>3, <2>4, <2>5 DEF TypeOK, Bookkeeping, InSend
  <2> QED BY <2>7, <2>8
<1> QED BY <1>5, <1>6

LEMMA RequestTyped ==
  ASSUME TypeInv, NEW h \in Handler
  PROVE  /\ EndRequest(h) => TypeInv'
         /\ \A k \in Kind : NewRequest(h, k) => TypeInv'
<1> USE DEF TypeInv
<1>1. ASSUME EndRequest(h) PROVE TypeInv'
  <2>1. <<>> \in Seq(Units) /\ <<>> \in Seq(Answers) /\ 0 \in 0..MaxSends
    BY EmptySeq, BoundsAssumption
  <2>2. TypeOK'
    BY <1>1, <2>1 DEF EndRequest, TypeOK, PoolTypeOK, poolVars, wireVars
  <2>3. Bookkeeping'
    BY <1>1 DEF EndRequest, TypeOK, Bookkeeping, InSend
  <2> QED BY <2>2, <2>3
<1>2. ASSUME NEW k \in Kind, NewRequest(h, k) PROVE TypeInv'
  <2>1. round[h] + 1 \in 0..MaxRounds
    BY <1>2, BoundsAssumption DEF NewRequest, TypeOK
  <2>2. TypeOK'
    BY <1>2, <2>1 DEF NewRequest, TypeOK, PoolTypeOK, poolVars, wireVars
  <2>3. Bookkeeping'
    BY <1>2 DEF NewRequest, TypeOK, Bookkeeping, InSend
  <2> QED BY <2>2, <2>3
<1> QED BY <1>1, <1>2

(* The backend's side.                                                      *)
LEMMA BackendTyped ==
  ASSUME TypeInv, NEW s \in Socket
  PROVE  (BackendStep(s) => TypeInv') /\ (Close(s) => TypeInv')
<1> USE DEF TypeInv
<1>1. ASSUME NEW answers \in Seq(Answers), Reply(s, answers) PROVE toClient' \in [Socket -> Seq(Answers)]
  <2>1. toClient[s] \o answers \in Seq(Answers)
    BY ConcatProperties DEF TypeOK
  <2> QED BY <1>1, <2>1 DEF TypeOK, Reply
<1>2. ASSUME NEW u \in Units, Consume(s, u) PROVE toBackend' \in [Socket -> Seq(Units)]
  <2>1. Tail(toBackend[s]) \in Seq(Units)
    BY <1>2, HeadTailProperties DEF TypeOK, Consume
  <2> QED BY <1>2, <2>1 DEF TypeOK, Consume
<1>3. ASSUME NEW u \in Units, Consume(s, u),
             toClient' \in [Socket -> Seq(Answers)], awaits' \in [Socket -> Units \cup {NoUnit}]
      PROVE  TypeInv'
  <2>1. toBackend' \in [Socket -> Seq(Units)]
    BY <1>2, <1>3
  <2>2. UNCHANGED <<poolVars, clientVars, peer>>
    BY <1>3 DEF Consume
  <2>3. TypeOK'
    BY <1>3, <2>1, <2>2 DEF TypeOK, PoolTypeOK, poolVars, clientVars
  <2>4. Bookkeeping'
    BY <2>2 DEF TypeOK, Bookkeeping, clientVars
  <2> QED BY <2>3, <2>4
<1>4. ASSUME NEW u \in Units, AnswersWhole(s, u) PROVE TypeInv'
  <2>1. PICK answers \in Answering(u) : Reply(s, answers)
    BY <1>4 DEF AnswersWhole
  <2>2. toClient' \in [Socket -> Seq(Answers)]
    BY <1>1, <2>1, AnsweringTyped
  <2>3. Consume(s, u) /\ UNCHANGED awaits
    BY <1>4 DEF AnswersWhole
  <2>4. awaits' \in [Socket -> Units \cup {NoUnit}]
    BY <2>3 DEF TypeOK
  <2> QED BY <1>3, <2>2, <2>3, <2>4
<1>5. ASSUME NEW u \in Units, NEW v \in Units \cup {NoUnit}, awaits' = [awaits EXCEPT ![s] = v]
      PROVE  awaits' \in [Socket -> Units \cup {NoUnit}]
  BY <1>5 DEF TypeOK
<1>6. ASSUME NEW u \in Units, TakesHead(s, u) PROVE TypeInv'
  <2>1. Consume(s, u)
    BY <1>6 DEF TakesHead
  <2>2. CASE u.kind # "expect"
    <3>1. UNCHANGED toClient /\ awaits' = [awaits EXCEPT ![s] = u]
      BY <1>6, <2>2 DEF TakesHead
    <3>2. toClient' \in [Socket -> Seq(Answers)]
      BY <3>1 DEF TypeOK
    <3> QED BY <1>3, <1>5, <2>1, <3>1, <3>2
  <2>3. CASE Reply(s, <<Answer(u, "100")>>) /\ awaits' = [awaits EXCEPT ![s] = u]
    <3>1. <<Answer(u, "100")>> \in Seq(Answers)
      BY AnswerTyped
    <3> QED BY <1>1, <1>3, <1>5, <2>1, <2>3, <3>1
  <2>4. CASE Reply(s, <<Answer(u, "final")>>) /\ awaits' = [awaits EXCEPT ![s] = [u EXCEPT !.part = "rest"]]
    <3>1. <<Answer(u, "final")>> \in Seq(Answers)
      BY AnswerTyped
    <3>2. [u EXCEPT !.part = "rest"] \in Units
      BY DEF Units
    <3> QED BY <1>1, <1>3, <1>5, <2>1, <2>4, <3>1, <3>2
  <2> QED BY <1>6, <2>2, <2>3, <2>4 DEF TakesHead
<1>7. ASSUME NEW u \in Units, TakesRest(s, u) PROVE TypeInv'
  <2>1. Consume(s, u) /\ awaits' = [awaits EXCEPT ![s] = NoUnit] /\ awaits[s] # NoUnit
    BY <1>7 DEF TakesRest
  <2>2. awaits' \in [Socket -> Units \cup {NoUnit}]
    BY <2>1 DEF TypeOK
  <2>3. awaits[s] \in Units
    BY <2>1 DEF TypeOK
  <2>4. CASE UNCHANGED toClient
    <3>1. toClient' \in [Socket -> Seq(Answers)]
      BY <2>4 DEF TypeOK
    <3> QED BY <1>3, <2>1, <2>2, <3>1
  <2>5. CASE \E answers \in Answering(awaits[s]) : Reply(s, answers)
    <3>1. PICK v \in Units : v = awaits[s]
      BY <2>3
    <3>2. PICK answers \in Answering(v) : Reply(s, answers)
      BY <2>5, <3>1
    <3>3. toClient' \in [Socket -> Seq(Answers)]
      BY <1>1, <3>2, AnsweringTyped
    <3> QED BY <1>3, <2>1, <2>2, <3>3
  <2> QED BY <1>7, <2>4, <2>5 DEF TakesRest
<1>8. ASSUME Close(s) PROVE TypeInv'
  <2>1. TypeOK'
    BY <1>8, EmptySeq DEF Close, TypeOK, PoolTypeOK, poolVars, clientVars
  <2>2. Bookkeeping'
    BY <1>8 DEF Close, TypeOK, Bookkeeping, clientVars
  <2> QED BY <2>1, <2>2
<1>9. BackendStep(s) => TypeInv'
  BY <1>4, <1>6, <1>7 DEF BackendStep
<1> QED BY <1>8, <1>9

LEMMA TypesKept ==
  ASSUME TypeInv, [Next]_vars
  PROVE  TypeInv'
<1>1. CASE UNCHANGED vars
  BY <1>1 DEF vars, poolVars, clientVars, wireVars, TypeInv, TypeOK, PoolTypeOK, Bookkeeping
<1>2. ASSUME NEW h \in Handler, HandlerStep(h) PROVE TypeInv'
  <2>1. CASE \E f \in Socket : StartSend(h, f)
    BY <2>1, StartSendTyped
  <2>2. CASE StartSendFails(h)
    BY <2>2, StartSendFailsTyped
  <2>3. CASE WriteFails(h) \/ WriteBody(h) \/ ReadFails(h) \/ \E n \in 1..MaxSends : Write(h, n)
    BY <2>3, WriteTyped
  <2>4. CASE \E n \in 1..Len(toClient[m_fd[h]]) : Wait100(h, n)
    <3>1. PICK n \in 1..Len(toClient[m_fd[h]]) : Wait100(h, n)
      BY <2>4
    <3> QED BY <3>1, Wait100Typed
  <2>5. CASE \E n \in 1..Len(toClient[m_fd[h]]) : ReadReply(h, n)
    <3>1. PICK n \in 1..Len(toClient[m_fd[h]]) : ReadReply(h, n)
      BY <2>5
    <3> QED BY <3>1, ReadReplyTyped
  <2>6. \/ \E f \in Socket : StartSend(h, f)
        \/ StartSendFails(h)
        \/ WriteFails(h) \/ WriteBody(h) \/ ReadFails(h) \/ \E n \in 1..MaxSends : Write(h, n)
        \/ \E n \in 1..Len(toClient[m_fd[h]]) : Wait100(h, n)
        \/ \E n \in 1..Len(toClient[m_fd[h]]) : ReadReply(h, n)
    BY <1>2, Zenon DEF HandlerStep
  <2> QED BY <2>1, <2>2, <2>3, <2>4, <2>5, <2>6, Zenon
<1>3. ASSUME NEW h \in Handler, EndRequest(h) \/ \E k \in Kind : NewRequest(h, k) PROVE TypeInv'
  BY <1>3, RequestTyped
<1>4. ASSUME NEW s \in Socket, BackendStep(s) \/ Close(s) PROVE TypeInv'
  BY <1>4, BackendTyped
<1> QED BY <1>1, <1>2, <1>3, <1>4 DEF Next

(* The variables of the handlers and of the wire keep their types, for any  *)
(* faults of the backend and Clients that send more than once.              *)
THEOREM TypeCorrect == Spec => []TypeOK
<1>1. Init => TypeInv
  BY TypesInitially
<1>2. TypeInv /\ [Next]_vars => TypeInv'
  BY TypesKept
<1>3. TypeInv => TypeOK
  BY DEF TypeInv
<1> QED BY <1>1, <1>2, <1>3, PTL DEF Spec

-----------------------------------------------------------------------------
(* From here on: one send by each Client, and a backend that answers what   *)
(* it was sent, or closes.                                                  *)
Modest == ~ReuseClient /\ Fault \subseteq {"close"}

(* What tells the units apart.                                              *)
LEMMA UnitsApart ==
  ASSUME NEW h \in Handler, TypeOK
  PROVE  /\ First(h).part = "whole" <=> kind[h] = "memory"
         /\ First(h).part # "rest"
         /\ First(h).kind = kind[h]
         /\ First(h) # NoUnit
         /\ Answer(First(h), "final") = Own(h)
         /\ Answer(First(h), "100") = Continue(h)
         /\ Own(h).code = "final"
         /\ Continue(h).code = "100"
<1>1. CASE kind[h] = "memory"
  BY <1>1 DEF First, Unit, NoUnit, Answer, Own, Continue
<1>2. CASE kind[h] # "memory"
  BY <1>2 DEF First, Unit, NoUnit, Answer, Own, Continue
<1> QED BY <1>1, <1>2

LEMMA UnitsStay ==
  ASSUME NEW h \in Handler, kind'[h] = kind[h], round'[h] = round[h]
  PROVE  First(h)' = First(h) /\ Rest(h)' = Rest(h) /\ Own(h)' = Own(h) /\ Continue(h)' = Continue(h)
BY DEF First, Rest, Own, Continue, Unit

(* A step of one send, on its socket, leaves the others alone.              *)
OnlyHandler(h) ==
  \A i \in Handler \ {h} :
    /\ pc'[i] = pc[i] /\ m_fd'[i] = m_fd[i] /\ unsent'[i] = unsent[i]
    /\ kind'[i] = kind[i] /\ round'[i] = round[i]
    /\ m_data'[i] = m_data[i] /\ tries'[i] = tries[i] /\ sends'[i] = sends[i]
    /\ got'[i] = got[i] /\ result'[i] = result[i]

OnlyWire(s) ==
  \A t \in Socket \ {s} :
    /\ toBackend'[t] = toBackend[t] /\ toClient'[t] = toClient[t]
    /\ peer'[t] = peer[t] /\ awaits'[t] = awaits[t]

OnlySocket(s) ==
  /\ OnlyWire(s)
  /\ \A t \in Socket \ {s} : t \in taken' <=> t \in taken

LEMMA OthersKeep ==
  ASSUME RepliesInv, NEW h, NEW s, OnlyHandler(h), OnlySocket(s),
         \A i \in Handler \ {h} : pc[i] \in InSend => m_fd[i] # s
  PROVE  /\ \A i \in Handler \ {h} : Exchange(i)' /\ Tally(i)'
         /\ \A t \in Socket \ {s} : AtRest(t)'
<1>1. ASSUME NEW i \in Handler \ {h} PROVE Exchange(i)' /\ Tally(i)'
  <2>1. First(i)' = First(i) /\ Rest(i)' = Rest(i) /\ Own(i)' = Own(i) /\ Continue(i)' = Continue(i)
    BY UnitsStay DEF OnlyHandler
  <2>2. Exchange(i) /\ Tally(i)
    BY DEF RepliesInv
  <2>3. Tally(i)'
    <3>1. /\ pc'[i] = pc[i] /\ m_data'[i] = m_data[i] /\ tries'[i] = tries[i]
          /\ sends'[i] = sends[i] /\ got'[i] = got[i] /\ result'[i] = result[i]
      BY DEF OnlyHandler
    <3> QED BY <2>1, <2>2, <3>1 DEF Tally
  <2>4. CASE pc[i] \notin InSend
    BY <2>3, <2>4 DEF OnlyHandler, Exchange
  <2>5. CASE pc[i] \in InSend
    <3>1. m_fd[i] \in Socket \ {s}
      BY <2>5 DEF RepliesInv, TypeInv, Bookkeeping
    <3>2. PICK t \in Socket \ {s} : t = m_fd[i] /\ t = m_fd'[i]
      BY <3>1 DEF OnlyHandler
    <3>3. /\ toBackend'[t] = toBackend[t] /\ toClient'[t] = toClient[t]
          /\ peer'[t] = peer[t] /\ awaits'[t] = awaits[t]
      BY DEF OnlySocket, OnlyWire
    <3>4. pc'[i] = pc[i] /\ kind'[i] = kind[i] /\ unsent'[i] = unsent[i] /\ m_fd'[i] = m_fd[i]
      BY DEF OnlyHandler
    <3>5. WithOpenPeer(i, t) => WithOpenPeer(i, t)'
      BY <2>1, <3>3, <3>4 DEF WithOpenPeer, Wire, NoUnit
    <3>6. WithClosedPeer(i, t) => WithClosedPeer(i, t)'
      BY <2>1, <3>3, <3>4 DEF WithClosedPeer
    <3> QED BY <2>1, <2>2, <2>3, <2>5, <3>2, <3>3, <3>4, <3>5, <3>6 DEF Exchange
  <2> QED BY <2>3, <2>4, <2>5
<1>2. ASSUME NEW t \in Socket \ {s} PROVE AtRest(t)'
  BY DEF RepliesInv, AtRest, OnlySocket, OnlyWire, NoUnit
<1> QED BY <1>1, <1>2

(* For steps of no handler: there is a value that is not one.               *)
LEMMA Nobody == \E nobody : nobody \notin Handler
<1>1. {x \in Handler : x \notin x} \notin Handler
  OBVIOUS
<1> QED BY <1>1

LEMMA Together ==
  ASSUME RepliesInv, TypeInv', OwnershipInv', NEW h \in Handler, NEW s \in Socket,
         OnlyHandler(h), OnlySocket(s),
         \A i \in Handler \ {h} : pc[i] \in InSend => m_fd[i] # s,
         Exchange(h)', Tally(h)', AtRest(s)'
  PROVE  RepliesInv'
<1>1. /\ \A i \in Handler \ {h} : Exchange(i)' /\ Tally(i)'
      /\ \A t \in Socket \ {s} : AtRest(t)'
  BY OthersKeep
<1>2. \A i \in Handler : Exchange(i)' /\ Tally(i)'
  BY <1>1
<1>3. \A t \in Socket : AtRest(t)'
  BY <1>1
<1> QED BY <1>2, <1>3 DEF RepliesInv

LEMMA InUse ==
  ASSUME RepliesInv, NEW h \in Handler, pc[h] \in InSend
  PROVE  /\ m_fd[h] \in Socket /\ m_fd[h] \in taken
         /\ \A i \in Handler \ {h} : pc[i] \in InSend => m_fd[i] # m_fd[h]
         /\ tries[h] # 0 /\ result[h] = "none" /\ got[h] = <<>> /\ sends[h] = 0
<1>1. m_fd[h] \in Socket
  BY DEF RepliesInv, TypeInv, Bookkeeping
<1>2. m_fd[h] \in taken
  BY DEF RepliesInv, OwnershipInv, TakenInUse
<1>3. \A i \in Handler \ {h} : pc[i] \in InSend => m_fd[i] # m_fd[h]
  BY DEF RepliesInv, OwnershipInv, Exclusive
<1>4. tries[h] # 0
  BY DEF RepliesInv, OwnershipInv, OneSendPerClient
<1>5. result[h] = "none" /\ got[h] = <<>> /\ sends[h] = 0
  BY DEF RepliesInv, Tally
<1> QED BY <1>1, <1>2, <1>3, <1>4, <1>5

(* A step within a send.                                                    *)
LEMMA WithinSend ==
  ASSUME RepliesInv, TypeInv', OwnershipInv', NEW h \in Handler, pc[h] \in InSend,
         NEW f \in Socket, f = m_fd[h],
         NEW p \in InSend, pc' = [pc EXCEPT ![h] = p],
         \A i \in Handler \ {h} : unsent'[i] = unsent[i],
         OnlySocket(f), p = "write" => unsent'[h] = <<First(h)>>,
         UNCHANGED <<avail, taken, m_fd, kind, m_data, round, sends, tries, got, result, peer>>,
         IF peer[f] = "open" THEN WithOpenPeer(h, f)' ELSE WithClosedPeer(h, f)'
  PROVE  RepliesInv'
<1>1. /\ \A i \in Handler \ {h} : pc[i] \in InSend => m_fd[i] # f
      /\ tries[h] # 0 /\ result[h] = "none" /\ got[h] = <<>> /\ sends[h] = 0 /\ f \in taken
  BY InUse
<1>2. pc \in [Handler -> {"idle", "ready"} \cup InSend]
  BY DEF RepliesInv, TypeInv, TypeOK
<1>3. OnlyHandler(h)
  BY <1>2 DEF OnlyHandler
<1>4. First(h)' = First(h)
  BY UnitsStay
<1>5. pc'[h] = p
  BY <1>2
<1>6. Exchange(h)'
  BY <1>4, <1>5 DEF Exchange
<1>7. Tally(h)'
  BY <1>1, <1>5 DEF Tally
<1>8. AtRest(f)'
  BY <1>1 DEF AtRest
<1> QED BY <1>1, <1>3, <1>6, <1>7, <1>8, Together

(* The end of a send, with nothing left on the socket.                      *)
LEMMA EndOfSend ==
  ASSUME RepliesInv, TypeInv', OwnershipInv', NEW h \in Handler, pc[h] \in InSend,
         NEW f \in Socket, f = m_fd[h],
         PutBack(f), pc' = [pc EXCEPT ![h] = "ready"],
         \A i \in Handler \ {h} : sends'[i] = sends[i] /\ got'[i] = got[i] /\ result'[i] = result[i],
         OnlyWire(f), UNCHANGED <<m_fd, kind, m_data, unsent, round, tries>>,
         toBackend'[f] = <<>>, toClient'[f] = <<>>, peer'[f] = "open" => awaits'[f] = NoUnit,
         \/ result'[h] = "failed"
         \/ result'[h] = "ok" /\ got'[h] = <<Own(h)>> /\ sends'[h] = 1
  PROVE  RepliesInv'
<1>1. /\ \A i \in Handler \ {h} : pc[i] \in InSend => m_fd[i] # f
      /\ tries[h] # 0
  BY InUse
<1>2. pc \in [Handler -> {"idle", "ready"} \cup InSend]
  BY DEF RepliesInv, TypeInv, TypeOK
<1>3. OnlyHandler(h)
  BY <1>2 DEF OnlyHandler
<1>4. OnlySocket(f)
  BY DEF OnlyWire, OnlySocket, PutBack
<1>5. Own(h)' = Own(h)
  BY UnitsStay
<1>6. pc'[h] = "ready"
  BY <1>2
<1>7. Exchange(h)'
  BY <1>6 DEF Exchange, InSend
<1>8. Tally(h)'
  BY <1>1, <1>5, <1>6 DEF Tally, InSend
<1>9. AtRest(f)'
  BY DEF AtRest, NoUnit
<1> QED BY <1>1, <1>3, <1>4, <1>7, <1>8, <1>9, Together

-----------------------------------------------------------------------------
LEMMA StartSendReplies ==
  ASSUME RepliesInv, TypeInv', OwnershipInv', Modest, NEW h \in Handler, NEW f \in Socket, StartSend(h, f)
  PROVE  RepliesInv'
<1>1. pc[h] = "ready" /\ tries[h] = 0
  <2>1. pc[h] = "ready" /\ tries[h] < 1
    BY DEF StartSend, MaySend, Modest
  <2>2. tries[h] \in Nat
    BY DEF RepliesInv, OwnershipInv, ControlOK
  <2> QED BY <2>1, <2>2
<1>2. f \notin taken /\ taken' = taken \cup {f}
  BY DEF StartSend, GetAvail, GetConnected, RepliesInv, OwnershipInv, Disjoint, HoldsOpen
<1>3. \A i \in Handler \ {h} : pc[i] \in InSend => m_fd[i] # f
  BY <1>2 DEF RepliesInv, OwnershipInv, TakenInUse
<1>4. m_data[h] = <<>> /\ got[h] = <<>> /\ sends[h] = 0
  BY <1>1 DEF RepliesInv, Tally
<1>5. Prepared(h) = <<First(h)>>
  BY <1>4 DEF Prepared, First
<1>6. /\ m_fd' = [m_fd EXCEPT ![h] = f]
      /\ unsent' = [unsent EXCEPT ![h] = <<First(h)>>]
      /\ m_data' = [m_data EXCEPT ![h] = <<First(h)>>]
      /\ tries' = [tries EXCEPT ![h] = tries[h] + 1]
      /\ pc' = [pc EXCEPT ![h] = "write"]
      /\ result' = [result EXCEPT ![h] = "none"]
      /\ UNCHANGED <<kind, round, sends, got, wireVars>>
  BY <1>5 DEF StartSend
<1>7. TypeOK
  BY DEF RepliesInv, TypeInv
<1>8. OnlyHandler(h)
  BY <1>6, <1>7 DEF TypeOK, OnlyHandler
<1>9. OnlySocket(f)
  BY <1>2, <1>6 DEF OnlySocket, OnlyWire, wireVars
<1>10. /\ pc'[h] = "write" /\ m_fd'[h] = f /\ unsent'[h] = <<First(h)>>
       /\ tries'[h] = 1 /\ result'[h] = "none" /\ sends'[h] = 0 /\ got'[h] = <<>>
  BY <1>1, <1>4, <1>6, <1>7 DEF TypeOK
<1>11. First(h)' = First(h)
  BY <1>6, UnitsStay
<1>12. /\ toBackend[f] = <<>> /\ toClient[f] = <<>>
       /\ peer[f] = "open" => awaits[f] = NoUnit
  BY <1>2 DEF RepliesInv, AtRest
<1>13. UNCHANGED <<toBackend, toClient, peer, awaits>>
  BY <1>6 DEF wireVars
<1>14. Exchange(h)'
  BY <1>10, <1>11, <1>12, <1>13 DEF Exchange, WithOpenPeer, WithClosedPeer, Wire, NoUnit
<1>15. Tally(h)'
  BY <1>10 DEF Tally
<1>16. AtRest(f)'
  BY <1>2 DEF AtRest
<1> QED BY <1>3, <1>8, <1>9, <1>14, <1>15, <1>16, Together

LEMMA StartSendFailsReplies ==
  ASSUME RepliesInv, TypeInv', OwnershipInv', Modest, NEW h \in Handler, StartSendFails(h)
  PROVE  RepliesInv'
<1>1. UNCHANGED <<avail, taken>>
  BY StartSendFailsOwnership DEF RepliesInv, Modest
<1>2. pc[h] = "ready" /\ TypeOK /\ tries[h] \in Nat
  BY DEF StartSendFails, MaySend, RepliesInv, TypeInv, OwnershipInv, ControlOK
<1>3. /\ tries' = [tries EXCEPT ![h] = tries[h] + 1]
      /\ pc' = [pc EXCEPT ![h] = "ready"]
      /\ result' = [result EXCEPT ![h] = "failed"]
      /\ m_data' = [m_data EXCEPT ![h] = Prepared(h)]
      /\ UNCHANGED <<m_fd, kind, unsent, round, sends, got, toBackend, toClient, peer, awaits>>
  BY DEF StartSendFails, Failure, wireVars
<1>4. pc'[h] = "ready" /\ tries'[h] # 0 /\ result'[h] = "failed"
  BY <1>2, <1>3 DEF TypeOK
<1>5. OnlyHandler(h)
  BY <1>2, <1>3 DEF TypeOK, OnlyHandler
<1>6. OnlySocket(NoFd)
  BY <1>1, <1>3 DEF OnlySocket, OnlyWire
<1>7. \A i \in Handler \ {h} : pc[i] \in InSend => m_fd[i] # NoFd
  BY NoFdAssumption DEF RepliesInv, TypeInv, Bookkeeping
<1>8. /\ \A i \in Handler \ {h} : Exchange(i)' /\ Tally(i)'
      /\ \A t \in Socket \ {NoFd} : AtRest(t)'
  BY <1>5, <1>6, <1>7, OthersKeep
<1>9. Exchange(h)' /\ Tally(h)'
  BY <1>4 DEF Exchange, Tally, InSend
<1>10. \A t \in Socket : AtRest(t)'
  BY <1>8, NoFdAssumption
<1>11. \A i \in Handler : Exchange(i)' /\ Tally(i)'
  BY <1>8, <1>9
<1> QED BY <1>10, <1>11 DEF RepliesInv

(* What is on the socket of a send.                                         *)
LEMMA OnTheWire ==
  ASSUME RepliesInv, NEW h \in Handler, pc[h] \in InSend, NEW f \in Socket, f = m_fd[h]
  PROVE  /\ pc[h] = "write" => unsent[h] = <<First(h)>>
         /\ peer[f] = "open" => WithOpenPeer(h, f)
         /\ peer[f] # "open" => WithClosedPeer(h, f)
BY DEF RepliesInv, Exchange

LEMMA FailureReplies ==
  ASSUME RepliesInv, TypeInv', OwnershipInv', NEW h \in Handler, WriteFails(h) \/ ReadFails(h)
  PROVE  RepliesInv'
<1>1. pc[h] \in InSend
  BY DEF WriteFails, ReadFails, InSend
<1>2. PICK f \in Socket : f = m_fd[h]
  BY <1>1, InUse
<1>3. /\ PutBack(f) /\ pc' = [pc EXCEPT ![h] = "ready"]
      /\ result' = [result EXCEPT ![h] = "failed"]
      /\ UNCHANGED <<m_fd, kind, m_data, unsent, round, tries, sends, got, toBackend, toClient, peer, awaits>>
      /\ peer[f] = "closed"
  BY <1>2 DEF WriteFails, ReadFails, Failure, wireVars
<1>4. WithClosedPeer(h, f)
  BY <1>1, <1>2, <1>3, OnTheWire
<1>5. toBackend[f] = <<>> /\ toClient[f] = <<>>
  BY <1>2, <1>4 DEF WithClosedPeer, WriteFails, ReadFails
<1>6. result'[h] = "failed" /\ \A i \in Handler \ {h} : sends'[i] = sends[i] /\ got'[i] = got[i] /\ result'[i] = result[i]
  BY <1>3 DEF RepliesInv, TypeInv, TypeOK
<1>7. OnlyWire(f)
  BY <1>3 DEF OnlyWire
<1> QED BY <1>1, <1>2, <1>3, <1>5, <1>6, <1>7, EndOfSend

LEMMA Singleton ==
  ASSUME NEW x
  PROVE  /\ Len(<<x>>) = 1 /\ SubSeq(<<x>>, 1, 1) = <<x>> /\ SubSeq(<<x>>, 2, 1) = <<>>
         /\ Head(<<x>>) = x /\ Tail(<<x>>) = <<>>
         /\ <<>> \o <<x>> = <<x>>
<1>1. <<x>> \in Seq({x}) /\ Len(<<x>>) = 1 /\ <<x>>[1] = x
  OBVIOUS
<1>2. SubSeq(<<x>>, 1, 1) = <<x>>
  <2>1. PICK s : s = <<x>> /\ s \in Seq({x}) /\ Len(s) = 1 /\ s[1] = x
    BY <1>1
  <2>2. \A i \in 1..1 : s[i] \in {x}
    BY <2>1
  <2>3. SubSeq(s, 1, 1) \in Seq({x}) /\ Len(SubSeq(s, 1, 1)) = 1
    BY <2>2, SubSeqProperties
  <2>4. \A i \in 1..1 : SubSeq(s, 1, 1)[i] = s[i]
    BY <2>2, SubSeqProperties
  <2>5. SubSeq(s, 1, 1) = s
    BY <2>1, <2>3, <2>4, SeqEqual
  <2> QED BY <2>1, <2>5
<1>3. SubSeq(<<x>>, 2, 1) = <<>>
  BY <1>1, SubSeqProperties
<1>4. Head(<<x>>) = x
  BY <1>1
<1>5. Tail(<<x>>) = <<>>
  BY <1>1, HeadTailProperties, EmptySeq
<1>6. <<>> \o <<x>> = <<x>>
  BY <1>1, ConcatEmptySeq
<1> QED BY <1>1, <1>2, <1>3, <1>4, <1>5, <1>6

LEMMA WriteReplies ==
  ASSUME RepliesInv, TypeInv', OwnershipInv', NEW h \in Handler, NEW n \in 1..MaxSends, Write(h, n)
  PROVE  RepliesInv'
<1>1. pc[h] = "write" /\ pc[h] \in InSend /\ TypeOK
  BY DEF Write, InSend, RepliesInv, TypeInv
<1>2. PICK f \in Socket : f = m_fd[h]
  BY <1>1, InUse
<1>3. PICK first : first = First(h)
  OBVIOUS
<1>4. unsent[h] = <<first>>
  BY <1>1, <1>2, <1>3, OnTheWire
<1>5. n = 1 /\ SubSeq(unsent[h], 1, n) = <<first>>
  <2>1. n \in 1..Len(unsent[h])
    BY DEF Write
  <2>2. Len(<<first>>) = 1 /\ SubSeq(<<first>>, 1, 1) = <<first>>
    BY Singleton
  <2> QED BY <1>4, <2>1, <2>2
<1>6. PICK p : p = AfterHeaders(h)
  OBVIOUS
<1>7. /\ Transmit(f, <<first>>)
      /\ pc' = [pc EXCEPT ![h] = p]
      /\ UNCHANGED <<poolVars, m_fd, kind, m_data, round, sends, tries, got, result, toClient, peer, awaits>>
      /\ \A i \in Handler \ {h} : unsent'[i] = unsent[i]
  <2>1. Transmit(m_fd[h], SubSeq(unsent[h], 1, n))
    BY DEF Write
  <2>2. Transmit(f, <<first>>)
    BY <1>2, <1>5, <2>1 DEF Transmit
  <2>3. pc' = [pc EXCEPT ![h] = p]
    BY <1>4, <1>5, <1>6, Singleton DEF Write
  <2> QED BY <1>1, <2>2, <2>3 DEF Write, TypeOK
<1>8. \/ kind[h] = "memory" /\ p = "read"
      \/ kind[h] = "disk" /\ p = "body"
      \/ kind[h] = "expect" /\ p = "wait100"
  BY <1>1, <1>6, KindAssumption DEF AfterHeaders, TypeOK
<1>9. p \in InSend /\ p # "write"
  BY <1>8 DEF InSend
<1>10. First(h)' = first /\ pc'[h] = p /\ kind'[h] = kind[h]
  BY <1>1, <1>3, <1>7, UnitsStay DEF TypeOK
<1>11. CASE peer[f] = "open"
  <2>1. toBackend[f] = <<>> /\ toClient[f] = <<>> /\ awaits[f] = NoUnit
    BY <1>1, <1>2, <1>11, OnTheWire DEF WithOpenPeer, Wire
  <2>2. toBackend' = [toBackend EXCEPT ![f] = toBackend[f] \o <<first>>]
    BY <1>7, <1>11 DEF Transmit
  <2>3. toBackend[f] \o <<first>> = <<first>>
    BY <2>1
  <2>4. toBackend'[f] = <<first>> /\ \A t \in Socket \ {f} : toBackend'[t] = toBackend[t]
    BY <1>1, <2>2, <2>3 DEF TypeOK
  <2>5. OnlySocket(f)
    BY <1>7, <2>4 DEF OnlySocket, OnlyWire, poolVars
  <2>6. WithOpenPeer(h, f)'
    BY <1>7, <1>8, <1>10, <2>1, <2>4 DEF WithOpenPeer, Wire, NoUnit
  <2> QED BY <1>1, <1>2, <1>7, <1>9, <1>11, <2>5, <2>6, WithinSend DEF poolVars
<1>12. CASE peer[f] # "open"
  <2>1. toBackend[f] = <<>> /\ toClient[f] = <<>>
    BY <1>1, <1>2, <1>12, OnTheWire DEF WithClosedPeer
  <2>2. UNCHANGED toBackend
    BY <1>7, <1>12 DEF Transmit
  <2>3. OnlySocket(f)
    BY <1>7, <2>2 DEF OnlySocket, OnlyWire, poolVars
  <2>4. WithClosedPeer(h, f)'
    BY <1>7, <2>1, <2>2 DEF WithClosedPeer
  <2> QED BY <1>1, <1>2, <1>7, <1>9, <1>12, <2>3, <2>4, WithinSend DEF poolVars
<1> QED BY <1>11, <1>12

LEMMA Pair ==
  ASSUME NEW x, NEW y
  PROVE  /\ <<x>> \o <<y>> = <<x, y>>
         /\ Head(<<x, y>>) = x /\ Tail(<<x, y>>) = <<y>>
<1>1. /\ <<x>> \in Seq({x, y}) /\ Len(<<x>>) = 1 /\ <<x>>[1] = x
      /\ <<y>> \in Seq({x, y}) /\ Len(<<y>>) = 1 /\ <<y>>[1] = y
      /\ <<x, y>> \in Seq({x, y}) /\ Len(<<x, y>>) = 2 /\ <<x, y>>[1] = x /\ <<x, y>>[2] = y
  OBVIOUS
<1>2. PICK s, t, st : s = <<x>> /\ t = <<y>> /\ st = <<x, y>>
  OBVIOUS
<1>3. s \o t = st
  <2>1. s \in Seq({x, y}) /\ Len(s) = 1 /\ t \in Seq({x, y}) /\ Len(t) = 1
    BY <1>1, <1>2
  <2>2. s \o t \in Seq({x, y}) /\ Len(s \o t) = 2
    BY <2>1, ConcatProperties
  <2>3. (s \o t)[1] = s[1]
    BY <2>1, ConcatProperties
  <2>4. (s \o t)[2] = t[1]
    BY <2>1, ConcatProperties
  <2>5. st[1] = s[1] /\ st[2] = t[1] /\ st \in Seq({x, y}) /\ Len(st) = 2
    BY <1>1, <1>2
  <2>6. \A i \in 1..Len(s \o t) : i = 1 \/ i = 2
    BY <2>2
  <2>7. \A i \in 1..Len(s \o t) : (s \o t)[i] = st[i]
    BY <2>3, <2>4, <2>5, <2>6
  <2> QED BY <2>2, <2>5, <2>7, SeqEqual
<1>4. Head(st) = x
  BY <1>1, <1>2
<1>5. Tail(st) = t
  <2>1. Tail(st) \in Seq({x, y}) /\ Len(Tail(st)) = 1 /\ Tail(st)[1] = st[2]
    BY <1>1, <1>2, HeadTailProperties
  <2> QED BY <1>1, <1>2, <2>1, SeqEqual
<1> QED BY <1>2, <1>3, <1>4, <1>5

LEMMA WriteBodyReplies ==
  ASSUME RepliesInv, TypeInv', OwnershipInv', NEW h \in Handler, WriteBody(h)
  PROVE  RepliesInv'
<1>1. pc[h] = "body" /\ pc[h] \in InSend /\ "read" \in InSend /\ TypeOK
  BY DEF WriteBody, InSend, RepliesInv, TypeInv
<1>2. PICK f \in Socket : f = m_fd[h]
  BY <1>1, InUse
<1>3. PICK first, rest : first = First(h) /\ rest = Rest(h)
  OBVIOUS
<1>4. /\ Transmit(f, <<rest>>)
      /\ pc' = [pc EXCEPT ![h] = "read"]
      /\ UNCHANGED <<poolVars, m_fd, kind, m_data, unsent, round, sends, tries, got, result,
                     toClient, peer, awaits>>
  BY <1>2, <1>3 DEF WriteBody, Rest
<1>5. First(h)' = first /\ Rest(h)' = rest /\ pc'[h] = "read" /\ kind'[h] = kind[h]
  BY <1>1, <1>3, <1>4, UnitsStay DEF TypeOK
<1>6. CASE peer[f] = "open"
  <2>1. \/ kind[h] = "disk" /\ toBackend[f] = <<first>> /\ toClient[f] = <<>> /\ awaits[f] = NoUnit
        \/ kind[h] # "memory" /\ toBackend[f] = <<>> /\ toClient[f] = <<>> /\ awaits[f] = first
    BY <1>1, <1>2, <1>3, <1>6, OnTheWire DEF WithOpenPeer, Wire
  <2>2. toBackend' = [toBackend EXCEPT ![f] = toBackend[f] \o <<rest>>]
    BY <1>4, <1>6 DEF Transmit
  <2>3. toBackend'[f] = toBackend[f] \o <<rest>> /\ \A t \in Socket \ {f} : toBackend'[t] = toBackend[t]
    BY <1>1, <2>2 DEF TypeOK
  <2>4. OnlySocket(f)
    BY <1>4, <2>3 DEF OnlySocket, OnlyWire, poolVars
  <2>5. <<first>> \o <<rest>> = <<first, rest>> /\ <<>> \o <<rest>> = <<rest>>
    BY Singleton, Pair
  <2>6. ASSUME kind[h] = "disk" /\ toBackend[f] = <<first>> /\ toClient[f] = <<>> /\ awaits[f] = NoUnit
        PROVE  WithOpenPeer(h, f)'
    <3>1. toBackend'[f] = <<first, rest>>
      BY <2>3, <2>5, <2>6
    <3> QED BY <1>4, <1>5, <2>6, <3>1 DEF WithOpenPeer, Wire, NoUnit
  <2>7. ASSUME kind[h] # "memory" /\ toBackend[f] = <<>> /\ toClient[f] = <<>> /\ awaits[f] = first
        PROVE  WithOpenPeer(h, f)'
    <3>1. toBackend'[f] = <<rest>>
      BY <2>3, <2>5, <2>7
    <3> QED BY <1>4, <1>5, <2>7, <3>1 DEF WithOpenPeer, Wire, NoUnit
  <2>8. WithOpenPeer(h, f)'
    BY <2>1, <2>6, <2>7
  <2> QED BY <1>1, <1>2, <1>4, <1>6, <2>4, <2>8, WithinSend DEF poolVars
<1>7. CASE peer[f] # "open"
  <2>1. toBackend[f] = <<>> /\ toClient[f] = <<>>
    BY <1>1, <1>2, <1>7, OnTheWire DEF WithClosedPeer
  <2>2. UNCHANGED toBackend
    BY <1>4, <1>7 DEF Transmit
  <2>3. OnlySocket(f)
    BY <1>4, <2>2 DEF OnlySocket, OnlyWire, poolVars
  <2>4. WithClosedPeer(h, f)'
    BY <1>4, <2>1, <2>2 DEF WithClosedPeer
  <2> QED BY <1>1, <1>2, <1>4, <1>7, <2>3, <2>4, WithinSend DEF poolVars
<1> QED BY <1>6, <1>7

(* What is read from a socket that holds one unit.                          *)
LEMMA ReadsOne ==
  ASSUME TypeOK, NEW f \in Socket, NEW x, toClient[f] = <<x>>, NEW n, Drain(f, n)
  PROVE  /\ n = 1 /\ Received(f, n) = <<x>>
         /\ toClient'[f] = <<>>
         /\ \A t \in Socket \ {f} : toClient'[t] = toClient[t]
         /\ UNCHANGED <<toBackend, peer, awaits>>
<1>1. Len(<<x>>) = 1 /\ SubSeq(<<x>>, 1, 1) = <<x>> /\ SubSeq(<<x>>, 2, 1) = <<>>
  BY Singleton
<1>2. n \in 1..Len(toClient[f])
  BY DEF Drain
<1>3. n = 1
  BY <1>1, <1>2
<1>4. toClient' = [toClient EXCEPT ![f] = SubSeq(toClient[f], n + 1, Len(toClient[f]))]
  BY DEF Drain
<1>5. SubSeq(toClient[f], n + 1, Len(toClient[f])) = <<>>
  BY <1>1, <1>3
<1>6. toClient'[f] = <<>> /\ \A t \in Socket \ {f} : toClient'[t] = toClient[t]
  BY <1>4, <1>5 DEF TypeOK
<1>7. Received(f, n) = <<x>>
  BY <1>1, <1>3 DEF Received
<1> QED BY <1>3, <1>6, <1>7 DEF Drain

LEMMA Wait100Replies ==
  ASSUME RepliesInv, TypeInv', OwnershipInv', NEW h \in Handler,
         NEW n \in 1..Len(toClient[m_fd[h]]), Wait100(h, n)
  PROVE  RepliesInv'
<1>1. pc[h] = "wait100" /\ pc[h] \in InSend /\ "body" \in InSend /\ TypeOK
  BY DEF Wait100, InSend, RepliesInv, TypeInv
<1>2. PICK f \in Socket : f = m_fd[h]
  BY <1>1, InUse
<1>3. PICK first, x : first = First(h) /\ x = Continue(h)
  OBVIOUS
<1>4. Drain(f, n) /\ toClient[f] # <<>>
  BY <1>2 DEF Wait100, Drain
<1>5. /\ kind[h] = "expect" /\ toBackend[f] = <<>> /\ toClient[f] = <<x>>
      /\ peer[f] = "open" => awaits[f] = first
  BY <1>1, <1>2, <1>3, <1>4, OnTheWire DEF WithOpenPeer, WithClosedPeer, Wire
<1>6. /\ n = 1 /\ Received(f, n) = <<x>>
      /\ toClient'[f] = <<>> /\ \A t \in Socket \ {f} : toClient'[t] = toClient[t]
      /\ UNCHANGED <<toBackend, peer, awaits>>
  BY <1>1, <1>4, <1>5, ReadsOne
<1>7. x.code = "100" /\ Len(<<x>>) = 1 /\ <<x>>[1] = x
  BY <1>1, <1>3, UnitsApart
<1>8. ~Malformed(<<x>>) /\ <<x>>[n].code = "100"
  BY <1>6, <1>7 DEF Malformed
<1>9. /\ pc' = [pc EXCEPT ![h] = "body"]
      /\ UNCHANGED <<avail, taken, result, open, m_fd, kind, m_data, unsent, round, sends, tries, got>>
  BY <1>2, <1>6, <1>8 DEF Wait100
<1>10. First(h)' = first /\ pc'[h] = "body" /\ kind'[h] = kind[h]
  BY <1>1, <1>3, <1>9, UnitsStay DEF TypeOK
<1>11. OnlySocket(f)
  BY <1>6, <1>9 DEF OnlySocket, OnlyWire
<1>12. IF peer[f] = "open" THEN WithOpenPeer(h, f)' ELSE WithClosedPeer(h, f)'
  BY <1>5, <1>6, <1>10 DEF WithOpenPeer, WithClosedPeer, Wire
<1> QED BY <1>1, <1>2, <1>6, <1>9, <1>11, <1>12, WithinSend

LEMMA ReadReplyReplies ==
  ASSUME RepliesInv, TypeInv', OwnershipInv', NEW h \in Handler,
         NEW n \in 1..Len(toClient[m_fd[h]]), ReadReply(h, n)
  PROVE  RepliesInv'
<1>1. pc[h] = "read" /\ pc[h] \in InSend /\ TypeOK
  BY DEF ReadReply, InSend, RepliesInv, TypeInv
<1>2. PICK f \in Socket : f = m_fd[h]
  BY <1>1, InUse
<1>3. PICK x : x = Own(h)
  OBVIOUS
<1>4. Drain(f, n) /\ toClient[f] # <<>>
  BY <1>2 DEF ReadReply, Drain
<1>5. /\ toBackend[f] = <<>> /\ toClient[f] = <<x>>
      /\ peer[f] = "open" => awaits[f] = NoUnit
  BY <1>1, <1>2, <1>3, <1>4, OnTheWire DEF WithOpenPeer, WithClosedPeer, Wire
<1>6. /\ n = 1 /\ Received(f, n) = <<x>>
      /\ toClient'[f] = <<>> /\ \A t \in Socket \ {f} : toClient'[t] = toClient[t]
      /\ UNCHANGED <<toBackend, peer, awaits>>
  BY <1>1, <1>4, <1>5, ReadsOne
<1>7. x.code = "final" /\ Len(<<x>>) = 1 /\ <<x>>[1] = x
  BY <1>1, <1>3, UnitsApart
<1>8. ~Malformed(<<x>>)
  BY <1>7 DEF Malformed
<1>9. got[h] = <<>> /\ sends[h] = 0
  BY <1>1, InUse
<1>10. /\ got' = [got EXCEPT ![h] = got[h] \o <<x>>]
       /\ Success(h)
       /\ UNCHANGED <<open, m_fd, kind, m_data, unsent, round, tries>>
  BY <1>2, <1>6, <1>8 DEF ReadReply
<1>11. /\ PutBack(f) /\ pc' = [pc EXCEPT ![h] = "ready"]
       /\ result' = [result EXCEPT ![h] = "ok"]
       /\ sends' = [sends EXCEPT ![h] = sends[h] + 1]
  BY <1>2, <1>10 DEF Success
<1>12. got[h] \o <<x>> = <<x>>
  BY <1>9, Singleton
<1>13. result'[h] = "ok" /\ got'[h] = <<x>> /\ sends'[h] = 1
  BY <1>1, <1>9, <1>10, <1>11, <1>12 DEF TypeOK
<1>14. \A i \in Handler \ {h} : sends'[i] = sends[i] /\ got'[i] = got[i] /\ result'[i] = result[i]
  BY <1>1, <1>10, <1>11 DEF TypeOK
<1>15. OnlyWire(f)
  BY <1>6 DEF OnlyWire
<1>16. toBackend'[f] = <<>> /\ (peer'[f] = "open" => awaits'[f] = NoUnit)
  BY <1>5, <1>6
<1> QED BY <1>1, <1>2, <1>3, <1>6, <1>10, <1>11, <1>13, <1>14, <1>15, <1>16, EndOfSend

LEMMA RequestReplies ==
  ASSUME RepliesInv, TypeInv', OwnershipInv', NEW h \in Handler,
         EndRequest(h) \/ \E k \in Kind : NewRequest(h, k)
  PROVE  RepliesInv'
<1>1. TypeOK
  BY DEF RepliesInv, TypeInv
<1>2. OnlyHandler(h)
  BY <1>1 DEF OnlyHandler, TypeOK, EndRequest, NewRequest
<1>3. OnlySocket(NoFd)
  BY DEF OnlySocket, OnlyWire, EndRequest, NewRequest, poolVars, wireVars
<1>4. \A i \in Handler \ {h} : pc[i] \in InSend => m_fd[i] # NoFd
  BY NoFdAssumption DEF RepliesInv, TypeInv, Bookkeeping
<1>5. /\ \A i \in Handler \ {h} : Exchange(i)' /\ Tally(i)'
      /\ \A t \in Socket \ {NoFd} : AtRest(t)'
  BY <1>2, <1>3, <1>4, OthersKeep
<1>6. Exchange(h)'
  BY <1>1 DEF Exchange, TypeOK, EndRequest, NewRequest, InSend
<1>7. Tally(h)'
  <2>1. CASE EndRequest(h)
    BY <1>1, <2>1 DEF EndRequest, Tally, TypeOK
  <2>2. CASE \E k \in Kind : NewRequest(h, k)
    <3>1. pc[h] = "idle" /\ UNCHANGED <<m_data, sends, tries, got, result>>
      BY <2>2 DEF NewRequest
    <3>2. tries[h] = 0
      BY <3>1 DEF RepliesInv, OwnershipInv, OneSendPerClient
    <3>3. m_data[h] = <<>> /\ result[h] = "none" /\ got[h] = <<>> /\ sends[h] = 0
      BY <3>2 DEF RepliesInv, Tally
    <3> QED BY <3>1, <3>3 DEF Tally
  <2> QED BY <2>1, <2>2
<1>8. \A t \in Socket : AtRest(t)'
  BY <1>5, NoFdAssumption
<1>9. \A i \in Handler : Exchange(i)' /\ Tally(i)'
  BY <1>5, <1>6, <1>7
<1> QED BY <1>8, <1>9 DEF RepliesInv

(* A step of the backend on the socket of a send.                           *)
LEMMA OnOneWire ==
  ASSUME RepliesInv, TypeInv', OwnershipInv', UNCHANGED <<poolVars, clientVars>>,
         NEW h \in Handler, pc[h] \in InSend, NEW s \in Socket, s = m_fd[h], OnlyWire(s),
         IF peer'[s] = "open" THEN WithOpenPeer(h, s)' ELSE WithClosedPeer(h, s)'
  PROVE  RepliesInv'
<1>1. OnlyHandler(h) /\ OnlySocket(s)
  BY DEF OnlyHandler, OnlySocket, clientVars, poolVars
<1>2. \A i \in Handler \ {h} : pc[i] \in InSend => m_fd[i] # s
  BY InUse
<1>3. s \in taken'
  BY InUse DEF poolVars
<1>4. First(h)' = First(h) /\ Own(h)' = Own(h)
  BY UnitsStay DEF clientVars
<1>5. Exchange(h)'
  BY <1>4, OnTheWire DEF Exchange, clientVars
<1>6. Tally(h)'
  BY <1>4 DEF RepliesInv, Tally, clientVars
<1>7. AtRest(s)'
  BY <1>3 DEF AtRest
<1> QED BY <1>1, <1>2, <1>5, <1>6, <1>7, Together

(* Only a socket that is being used has something for the backend.          *)
LEMMA Whose ==
  ASSUME RepliesInv, NEW s \in Socket, toBackend[s] # <<>>
  PROVE  \E h \in Handler : pc[h] \in InSend /\ m_fd[h] = s
<1>1. s \in taken
  BY DEF RepliesInv, AtRest
<1> QED BY <1>1 DEF RepliesInv, OwnershipInv, TakenInUse

LEMMA CloseReplies ==
  ASSUME RepliesInv, TypeInv', OwnershipInv', NEW s \in Socket, Close(s)
  PROVE  RepliesInv'
<1>1. TypeOK
  BY DEF RepliesInv, TypeInv
<1>2. /\ toBackend'[s] = <<>> /\ peer'[s] = "closed" /\ peer[s] = "open" /\ OnlyWire(s)
      /\ UNCHANGED <<poolVars, clientVars, toClient, awaits>>
  BY <1>1 DEF Close, TypeOK, OnlyWire
<1>3. CASE s \in taken
  <2>1. PICK h \in Handler : pc[h] \in InSend /\ m_fd[h] = s
    BY <1>3 DEF RepliesInv, OwnershipInv, TakenInUse
  <2>2. WithOpenPeer(h, s)
    BY <1>2, <2>1, OnTheWire
  <2>3. Own(h)' = Own(h) /\ Continue(h)' = Continue(h)
    BY <1>2, UnitsStay DEF clientVars
  <2>4. \/ toClient[s] = <<>>
        \/ pc[h] = "wait100" /\ kind[h] = "expect" /\ toClient[s] = <<Continue(h)>>
        \/ pc[h] = "read" /\ toClient[s] = <<Own(h)>>
    BY <2>2 DEF WithOpenPeer, Wire
  <2>5. WithClosedPeer(h, s)'
    BY <1>2, <2>3, <2>4 DEF WithClosedPeer, clientVars
  <2> QED BY <1>2, <2>1, <2>5, OnOneWire
<1>4. CASE s \notin taken
  <2>1. AtRest(s)'
    BY <1>2, <1>4 DEF RepliesInv, AtRest
  <2>2. OnlySocket(s) /\ \A h : OnlyHandler(h)
    BY <1>2 DEF OnlySocket, OnlyHandler, poolVars, clientVars
  <2>3. \A i \in Handler : pc[i] \in InSend => m_fd[i] # s
    BY <1>4, InUse
  <2>4. PICK nobody : nobody \notin Handler
    BY Nobody
  <2>5. /\ \A i \in Handler \ {nobody} : Exchange(i)' /\ Tally(i)'
        /\ \A t \in Socket \ {s} : AtRest(t)'
    BY <2>2, <2>3, OthersKeep
  <2> QED BY <2>1, <2>4, <2>5 DEF RepliesInv
<1> QED BY <1>3, <1>4

(* The backend answers the requests in hand, and those only: a head is      *)
(* taken, and asked for the rest if it expects that, and the whole of a     *)
(* request is answered once.                                                *)
LEMMA BackendReplies ==
  ASSUME RepliesInv, TypeInv', OwnershipInv', Modest, NEW s \in Socket, BackendStep(s)
  PROVE  RepliesInv'
<1>1. PICK u \in Units : AnswersWhole(s, u) \/ TakesHead(s, u) \/ TakesRest(s, u)
  BY DEF BackendStep
<1>2. Consume(s, u)
  BY <1>1 DEF AnswersWhole, TakesHead, TakesRest
<1>3. /\ peer[s] = "open" /\ toBackend[s] # <<>> /\ u = Head(toBackend[s])
      /\ toBackend' = [toBackend EXCEPT ![s] = Tail(toBackend[s])]
      /\ UNCHANGED <<poolVars, clientVars, peer>>
  BY <1>2 DEF Consume
<1>4. TypeOK
  BY DEF RepliesInv, TypeInv
<1>5. PICK h \in Handler : pc[h] \in InSend /\ m_fd[h] = s
  BY <1>3, Whose
<1>6. PICK first, rest, own, continue :
        first = First(h) /\ rest = Rest(h) /\ own = Own(h) /\ continue = Continue(h)
  OBVIOUS
<1>7. First(h)' = first /\ Rest(h)' = rest /\ Own(h)' = own /\ Continue(h)' = continue
  BY <1>3, <1>6, UnitsStay DEF clientVars
<1>8. pc'[h] = pc[h] /\ kind'[h] = kind[h]
  BY <1>3 DEF clientVars
<1>9. /\ first.part = "whole" <=> kind[h] = "memory"
      /\ first.part # "rest" /\ first.kind = kind[h] /\ first # NoUnit
      /\ Answer(first, "final") = own /\ Answer(first, "100") = continue
  BY <1>4, <1>6, UnitsApart
<1>10. Answering(first) = {<<own>>}
  BY <1>9 DEF Answering, Modest
<1>11. OnlyWire(s)
  BY <1>1, <1>3, <1>4 DEF OnlyWire, TypeOK, AnswersWhole, TakesHead, TakesRest, Reply
<1>12. toBackend'[s] = Tail(toBackend[s])
  BY <1>3, <1>4 DEF TypeOK
<1>13. ASSUME NEW answers, Reply(s, answers), toClient[s] = <<>>, answers = <<own>> \/ answers = <<continue>>
       PROVE  toClient'[s] = answers
  <2>1. toClient'[s] = toClient[s] \o answers
    BY <1>4, <1>13 DEF TypeOK, Reply
  <2> QED BY <1>13, <2>1, Singleton
<1>14. /\ toClient[s] = <<>>
       /\ \/ pc[h] = "body" /\ kind[h] = "disk" /\ toBackend[s] = <<first>> /\ awaits[s] = NoUnit
          \/ pc[h] = "wait100" /\ kind[h] = "expect" /\ toBackend[s] = <<first>> /\ awaits[s] = NoUnit
          \/ pc[h] = "read" /\ kind[h] = "memory" /\ toBackend[s] = <<first>> /\ awaits[s] = NoUnit
          \/ pc[h] = "read" /\ kind[h] = "disk" /\ toBackend[s] = <<first, rest>> /\ awaits[s] = NoUnit
          \/ pc[h] = "read" /\ kind[h] # "memory" /\ toBackend[s] = <<rest>> /\ awaits[s] = first
  <2>1. WithOpenPeer(h, s)
    BY <1>3, <1>5, OnTheWire
  <2> QED BY <1>3, <1>6, <2>1 DEF WithOpenPeer, Wire
<1>15. ASSUME kind[h] = "memory", toBackend[s] = <<first>>, awaits[s] = NoUnit, pc[h] = "read"
       PROVE  WithOpenPeer(h, s)'
  <2>1. u = first /\ toBackend'[s] = <<>>
    BY <1>3, <1>12, <1>15, Singleton
  <2>2. AnswersWhole(s, u)
    BY <1>1, <1>9, <1>15, <2>1 DEF TakesHead, TakesRest
  <2>3. Reply(s, <<own>>) /\ UNCHANGED awaits
    BY <1>10, <2>1, <2>2 DEF AnswersWhole
  <2>4. toClient'[s] = <<own>>
    BY <1>13, <1>14, <2>3
  <2> QED BY <1>7, <1>8, <1>15, <2>1, <2>3, <2>4 DEF WithOpenPeer, Wire, NoUnit
<1>16. ASSUME kind[h] = "disk" \/ kind[h] = "expect", u = first, awaits[s] = NoUnit
       PROVE  /\ awaits'[s] = first
              /\ kind[h] = "disk" => toClient'[s] = <<>>
              /\ kind[h] = "expect" => toClient'[s] = <<continue>>
  <2>1. TakesHead(s, u)
    BY <1>1, <1>9, <1>16 DEF AnswersWhole, TakesRest
  <2>2. "early" \notin Fault
    BY DEF Modest
  <2>3. awaits' = [awaits EXCEPT ![s] = first]
    BY <1>9, <1>16, <2>1, <2>2 DEF TakesHead
  <2>4. awaits'[s] = first
    BY <1>4, <2>3 DEF TypeOK
  <2>5. ASSUME kind[h] = "disk" PROVE toClient'[s] = <<>>
    BY <1>9, <1>14, <1>16, <2>1, <2>5 DEF TakesHead
  <2>6. ASSUME kind[h] = "expect" PROVE toClient'[s] = <<continue>>
    <3>1. Reply(s, <<continue>>)
      BY <1>9, <1>16, <2>1, <2>2, <2>6 DEF TakesHead
    <3> QED BY <1>13, <1>14, <3>1
  <2> QED BY <2>4, <2>5, <2>6
<1>17. ASSUME pc[h] = "body", kind[h] = "disk", toBackend[s] = <<first>>, awaits[s] = NoUnit
       PROVE  WithOpenPeer(h, s)'
  <2>1. u = first /\ toBackend'[s] = <<>>
    BY <1>3, <1>12, <1>17, Singleton
  <2>2. awaits'[s] = first /\ toClient'[s] = <<>>
    BY <1>16, <1>17, <2>1
  <2> QED BY <1>7, <1>8, <1>17, <2>1, <2>2 DEF WithOpenPeer, Wire, NoUnit
<1>18. ASSUME pc[h] = "wait100", kind[h] = "expect", toBackend[s] = <<first>>, awaits[s] = NoUnit
       PROVE  WithOpenPeer(h, s)'
  <2>1. u = first /\ toBackend'[s] = <<>>
    BY <1>3, <1>12, <1>18, Singleton
  <2>2. awaits'[s] = first /\ toClient'[s] = <<continue>>
    BY <1>16, <1>18, <2>1
  <2> QED BY <1>7, <1>8, <1>18, <2>1, <2>2 DEF WithOpenPeer, Wire, NoUnit
<1>19. ASSUME pc[h] = "read", kind[h] = "disk", toBackend[s] = <<first, rest>>, awaits[s] = NoUnit
       PROVE  WithOpenPeer(h, s)'
  <2>1. u = first /\ toBackend'[s] = <<rest>>
    BY <1>3, <1>12, <1>19, Pair
  <2>2. awaits'[s] = first /\ toClient'[s] = <<>>
    BY <1>16, <1>19, <2>1
  <2> QED BY <1>7, <1>8, <1>19, <2>1, <2>2 DEF WithOpenPeer, Wire, NoUnit
<1>20. ASSUME pc[h] = "read", kind[h] # "memory", toBackend[s] = <<rest>>, awaits[s] = first
       PROVE  WithOpenPeer(h, s)'
  <2>1. toBackend'[s] = <<>>
    BY <1>12, <1>20, Singleton
  <2>2. TakesRest(s, u)
    BY <1>1, <1>9, <1>20 DEF AnswersWhole, TakesHead
  <2>3. awaits' = [awaits EXCEPT ![s] = NoUnit] /\ \E answers \in Answering(awaits[s]) : Reply(s, answers)
    BY <1>9, <1>20, <2>2 DEF TakesRest
  <2>4. \E answers \in Answering(first) : Reply(s, answers)
    BY <1>20, <2>3 DEF Answering, Answer
  <2>5. Reply(s, <<own>>)
    BY <1>10, <2>4
  <2>6. toClient'[s] = <<own>> /\ awaits'[s] = NoUnit
    BY <1>4, <1>13, <1>14, <2>3, <2>5 DEF TypeOK
  <2> QED BY <1>7, <1>8, <1>20, <2>1, <2>6 DEF WithOpenPeer, Wire, NoUnit
<1>21. WithOpenPeer(h, s)'
  BY <1>14, <1>15, <1>17, <1>18, <1>19, <1>20
<1>22. peer'[s] = "open"
  BY <1>3
<1> QED BY <1>3, <1>5, <1>11, <1>21, <1>22, OnOneWire

LEMMA RepliesInitially ==
  ASSUME Init
  PROVE  RepliesInv
<1>1. TypeInv /\ OwnershipInv
  BY TypesInitially, OwnershipInit
<1>2. \A h \in Handler : Exchange(h) /\ Tally(h)
  BY DEF Init, Exchange, Tally, InSend
<1>3. \A s \in Socket : AtRest(s)
  BY DEF Init, AtRest
<1> QED BY <1>1, <1>2, <1>3 DEF RepliesInv

LEMMA RepliesKept ==
  ASSUME RepliesInv, [Next]_vars, Modest
  PROVE  RepliesInv'
<1>1. TypeInv' /\ OwnershipInv'
  BY TypesKept, StepOwnership DEF RepliesInv, Modest
<1>2. CASE UNCHANGED vars
  <2>1. UNCHANGED <<poolVars, clientVars, wireVars>>
    BY <1>2 DEF vars
  <2>2. OnlySocket(NoFd) /\ \A h : OnlyHandler(h)
    BY <2>1 DEF OnlyHandler, OnlySocket, OnlyWire, poolVars, clientVars, wireVars
  <2>3. \A i \in Handler : pc[i] \in InSend => m_fd[i] # NoFd
    BY NoFdAssumption DEF RepliesInv, TypeInv, Bookkeeping
  <2>4. PICK nobody : nobody \notin Handler
    BY Nobody
  <2>5. /\ \A i \in Handler \ {nobody} : Exchange(i)' /\ Tally(i)'
        /\ \A t \in Socket \ {NoFd} : AtRest(t)'
    BY <2>2, <2>3, OthersKeep
  <2> QED BY <1>1, <2>4, <2>5, NoFdAssumption DEF RepliesInv
<1>3. ASSUME NEW h \in Handler, HandlerStep(h) PROVE RepliesInv'
  <2>1. CASE \E f \in Socket : StartSend(h, f)
    BY <1>1, <2>1, StartSendReplies
  <2>2. CASE StartSendFails(h)
    BY <1>1, <2>2, StartSendFailsReplies
  <2>3. CASE WriteFails(h) \/ ReadFails(h)
    BY <1>1, <2>3, FailureReplies
  <2>4. CASE \E n \in 1..MaxSends : Write(h, n)
    BY <1>1, <2>4, WriteReplies
  <2>5. CASE WriteBody(h)
    BY <1>1, <2>5, WriteBodyReplies
  <2>6. CASE \E n \in 1..Len(toClient[m_fd[h]]) : Wait100(h, n)
    <3>1. PICK n \in 1..Len(toClient[m_fd[h]]) : Wait100(h, n)
      BY <2>6
    <3> QED BY <1>1, <3>1, Wait100Replies
  <2>7. CASE \E n \in 1..Len(toClient[m_fd[h]]) : ReadReply(h, n)
    <3>1. PICK n \in 1..Len(toClient[m_fd[h]]) : ReadReply(h, n)
      BY <2>7
    <3> QED BY <1>1, <3>1, ReadReplyReplies
  <2>8. \/ \E f \in Socket : StartSend(h, f)
        \/ StartSendFails(h)
        \/ WriteFails(h) \/ ReadFails(h)
        \/ \E n \in 1..MaxSends : Write(h, n)
        \/ WriteBody(h)
        \/ \E n \in 1..Len(toClient[m_fd[h]]) : Wait100(h, n)
        \/ \E n \in 1..Len(toClient[m_fd[h]]) : ReadReply(h, n)
    BY <1>3, Zenon DEF HandlerStep
  <2> QED BY <2>1, <2>2, <2>3, <2>4, <2>5, <2>6, <2>7, <2>8, Zenon
<1>4. ASSUME NEW h \in Handler, EndRequest(h) \/ \E k \in Kind : NewRequest(h, k) PROVE RepliesInv'
  BY <1>1, <1>4, RequestReplies
<1>5. ASSUME NEW s \in Socket, BackendStep(s) \/ Close(s) PROVE RepliesInv'
  BY <1>1, <1>5, BackendReplies, CloseReplies
<1> QED BY <1>2, <1>3, <1>4, <1>5 DEF Next

(* A send that returned true has read one reply, to its own request,        *)
(* whatever the others do with the same pool, however requests are cut into *)
(* headers and bodies, and whenever the backend closes.  A backend that     *)
(* answers malformed or early leaves things on a socket that goes back to   *)
(* the pool, and a Client that sends twice sends too much: neither is in    *)
(* the statement, as it does not hold of them.                              *)
THEOREM RepliesOwn == ~ReuseClient /\ Fault \subseteq {"close"} => (Spec => []RepliesMatch)
<1> SUFFICES ASSUME Modest
             PROVE  Spec => []RepliesMatch
  BY DEF Modest
<1>1. Init => RepliesInv
  BY RepliesInitially
<1>2. RepliesInv /\ [Next]_vars => RepliesInv'
  BY RepliesKept
<1>3. RepliesInv => RepliesMatch
  <2> SUFFICES ASSUME RepliesInv, NEW h \in Handler, result[h] = "ok"
               PROVE  got[h] = [i \in 1..sends[h] |-> Own(h)]
    BY DEF RepliesMatch
  <2>1. got[h] = <<Own(h)>> /\ sends[h] = 1
    BY DEF RepliesInv, Tally
  <2>2. PICK own : own = Own(h)
    OBVIOUS
  <2>3. <<own>> = [i \in 1..1 |-> own]
    OBVIOUS
  <2> QED BY <2>1, <2>2, <2>3
<1> QED BY <1>1, <1>2, <1>3, PTL DEF Spec
=============================================================================
