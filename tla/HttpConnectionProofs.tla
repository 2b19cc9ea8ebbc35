------------------------ MODULE HttpConnectionProofs ------------------------
(***************************************************************************)
(* Replies on a connection, for any messages, pipelines of any length, and *)
(* reads that cut them anywhere: their order, and whose they are.          *)
(*                                                                         *)
(* The invariant has two halves.  The units that wait to be parsed are in  *)
(* the order of the script, behind those that were parsed (Sorted, Past,   *)
(* Contiguous, AtExpected); and what the Request, the Reply and the error  *)
(* of the parser hold is the current message's alone, but after a reply    *)
(* that could not be sent, which the error or the history tells (Own).     *)
(***************************************************************************)
EXTENDS HttpConnection, TLAPS

Before(u, v) == u[1] < v[1] \/ (u[1] = v[1] /\ u[2] < v[2])

Following(u) == IF u[2] < Parts(u[1]) THEN <<u[1], 2>> ELSE <<u[1] + 1, 1>>

InScript(u) == u[1] <= Len(script) /\ u[2] <= Parts(u[1])

Control ==
  /\ pc \in {"processing", "sending"} <=> current # 0
  /\ current # 0 => partOf = 0 /\ ~dead
  /\ pc = "reading" => buf = <<>>

(* The units that have arrived and are not parsed.                          *)
Waiting == buf \o inbound

(* No unit overtakes another.                                               *)
Sorted ==
  /\ next[2] = 2 => InScript(next)
  /\ \A i \in 1..Len(Waiting) :
       /\ InScript(Waiting[i])
       /\ Before(Waiting[i], next)
       /\ \A j \in 1..Len(Waiting) : i < j => Before(Waiting[i], Waiting[j])

(* Nothing is missing between them.                                         *)
Contiguous ==
  clientOpen =>
    \A i \in 1..Len(Waiting) :
      Following(Waiting[i]) = IF i < Len(Waiting) THEN Waiting[i + 1] ELSE next

(* The head of p has been parsed.                                           *)
Passed(p) ==
  /\ Before(<<p, 1>>, next)
  /\ \A i \in 1..Len(Waiting) : Before(<<p, 1>>, Waiting[i])

Past ==
  /\ Passed(current) /\ Passed(partOf)
  /\ \A i \in 1..Len(delivered) :
       /\ Passed(delivered[i].msg)
       /\ current # 0 => delivered[i].msg < current
       /\ partOf # 0 => delivered[i].msg < partOf
       /\ \A j \in 1..Len(delivered) : j < i => delivered[j].msg < delivered[i].msg

Upcoming == IF Waiting = <<>> THEN next ELSE Waiting[1]

(* What comes next for the parser is what it expects: each message has had  *)
(* its reply before the next is begun.                                      *)
AtExpected ==
  ~Upgrades =>
    /\ \A i \in 1..Len(delivered) : delivered[i].msg = i
    /\ clientOpen /\ ~dead =>
         /\ current # 0 => current = Len(delivered) + 1
         /\ partOf # 0 => partOf = Len(delivered) + 1
         /\ Upcoming = IF partOf # 0 THEN <<partOf, 2>>
                       ELSE IF current # 0 THEN <<current + 1, 1>>
                       ELSE <<Len(delivered) + 1, 1>>

InProgress == {current, partOf} \ {0}

OwnError(features) ==
  IF "large" \in features THEN "BODY_TOO_LARGE"
  ELSE IF "expect" \in features THEN "NEED_100_CONTINUE"
  ELSE IF "long" \in features THEN "URI_TOO_LONG"
  ELSE "OK"

AllComplete == \A i \in 1..Len(delivered) : delivered[i].complete

(* No reply was cut off, or the resets after a later one have taken place.  *)
Own ==
  (clientOpen /\ AllComplete) \/ m_error = "OK" =>
    /\ m_request = InProgress
    /\ m_reply = IF pc = "sending" THEN InProgress ELSE {}
    /\ \A m \in InProgress : m_error = OwnError(script[m]) /\ "malformed" \notin script[m]
    /\ InProgress = {} => m_error = "OK"
    /\ pc = "sending" => status = IF m_error = "OK" THEN 200 ELSE Status(m_error)

(* The version of the next reply, which a request before may have lowered.  *)
Version ==
  clientOpen =>
    http_minor = IF \/ Answered10(Len(delivered))
                    \/ pc = "sending" /\ "http10" \in script[current]
                 THEN 0 ELSE 1

IInv ==
  /\ TypeOK
  /\ Control
  /\ Sorted
  /\ Past
  /\ Contiguous
  /\ AtExpected
  /\ Own
  /\ Version
  /\ Isolated
  /\ StatusIsOwn
  /\ HandlersSeeSound

-----------------------------------------------------------------------------
USE RequestAssumption, MaxPipelineAssumption

LEMMA Scripts ==
  ASSUME TypeOK
  PROVE  script \in Seq(Request) /\ Len(script) \in Messages
<1>1. PICK n \in Messages : script \in [1..n -> Request]
  BY DEF TypeOK, Pipelines
<1> QED
  BY <1>1 DEF Messages

Proper(code, features) ==
  /\ code = 413 <=> "large" \in features
  /\ code = 200 <=> features \cap {"large", "long", "expect"} = {}
  /\ code = 414 => "long" \in features /\ features \cap {"large", "expect"} = {}

LEMMA StatusesProper ==
  /\ StatusIsOwn <=> \A i \in Unbroken : Proper(delivered[i].status, script[delivered[i].msg])
  /\ StatusIsOwn' <=> (\A i \in Unbroken : Proper(delivered[i].status, script[delivered[i].msg]))'
  BY DEF StatusIsOwn, Proper

LEMMA InitIInv == Init => IInv
<1> SUFFICES ASSUME Init PROVE IInv
  OBVIOUS
<1>1. TypeOK
  <2>1. next \in (1..MaxPipeline + 1) \X {1, 2}
    BY DEF Init
  <2>2. inbound \in Seq(Units) /\ buf \in Seq(Units)
    BY DEF Init
  <2>3. /\ delivered \in Seq([msg : Messages, request : SUBSET Messages,
                             reply : SUBSET Messages, status : {200, 400, 413, 414},
                             minor : {0, 1}, complete : BOOLEAN])
        /\ handled \in Seq([msg : Messages, request : SUBSET Messages,
                           reply : SUBSET Messages])
    BY DEF Init
  <2>4. /\ m_request \subseteq Messages /\ m_reply \subseteq Messages
        /\ partOf \in 0..MaxPipeline /\ current \in 0..MaxPipeline
    BY DEF Init
  <2>5. http_minor \in {0, 1}
    BY DEF Init
  <2> QED
    BY <2>1, <2>2, <2>3, <2>4, <2>5 DEF Init, TypeOK
<1>2. Waiting = <<>> /\ delivered = <<>> /\ handled = <<>>
  BY DEF Init, Waiting
<1>3. Control
  BY DEF Init, Control
<1>4. Sorted /\ Contiguous
  BY <1>2 DEF Init, Sorted, Contiguous
<1>5. Past
  BY <1>2 DEF Init, Past, Passed, Before
<1>6. AtExpected
  BY <1>2 DEF Init, AtExpected, Upcoming
<1>7. Own /\ Version
  BY <1>2 DEF Init, Own, InProgress, Version, Answered10
<1>8. Isolated /\ StatusIsOwn /\ HandlersSeeSound
  BY <1>2 DEF Isolated, StatusIsOwn, HandlersSeeSound, Unbroken
<1> QED
  BY <1>1, <1>3, <1>4, <1>5, <1>6, <1>7, <1>8 DEF IInv

-----------------------------------------------------------------------------
LEMMA RepliesUnchanged ==
  ASSUME IInv, UNCHANGED <<script, delivered, handled>>
  PROVE  Isolated' /\ StatusIsOwn' /\ HandlersSeeSound'
<1>1. Unbroken' = Unbroken
  BY DEF Unbroken
<1>2. Isolated'
  BY <1>1 DEF IInv, Isolated, Answered10
<1>3. StatusIsOwn'
  BY <1>1, StatusesProper DEF IInv
<1>4. HandlersSeeSound'
  BY Zenon DEF IInv, HandlersSeeSound
<1> QED
  BY <1>2, <1>3, <1>4

LEMMA VersionKept ==
  ASSUME IInv, UNCHANGED <<script, delivered, http_minor, current>>, clientOpen' => clientOpen,
         pc' = pc \/ (pc' # "sending" /\ pc # "sending")
  PROVE  Version'
BY DEF IInv, Version, Answered10

(* The client's steps and reads only move the units that wait.              *)
LEMMA QuietKeeps ==
  ASSUME IInv, UNCHANGED <<script, delivered, parserVars, messageVars, handled>>,
         pc' = pc \/ (pc' # "sending" /\ pc # "sending"),
         clientOpen' => clientOpen
  PROVE  Own' /\ Version' /\ Isolated' /\ StatusIsOwn' /\ HandlersSeeSound'
<1> USE DEF parserVars, messageVars
<1>1. Own'
  BY DEF IInv, Own, InProgress, AllComplete
<1> QED
  BY <1>1, VersionKept, RepliesUnchanged

-----------------------------------------------------------------------------
(* Whatever a step does to the units that wait, it takes some off the front,*)
(* adds the next at the end, or loses some at the end with the client.      *)
Dropped(n) ==
  /\ n \in 0..Len(Waiting)
  /\ Len(Waiting') = Len(Waiting) - n
  /\ \A i \in 1..Len(Waiting') : Waiting'[i] = Waiting[n + i]
  /\ UNCHANGED <<script, next, clientOpen>>

LEMMA WaitingType ==
  ASSUME TypeOK
  PROVE  /\ Waiting \in Seq(Units)
         /\ next = <<next[1], next[2]>> /\ next[1] \in Nat /\ next[2] \in {1, 2}
         /\ \A i \in 1..Len(Waiting) :
              /\ Waiting[i] = <<Waiting[i][1], Waiting[i][2]>>
              /\ Waiting[i] \in Units
              /\ Waiting[i][1] \in Messages
              /\ Waiting[i][1] \in Nat
              /\ Waiting[i][2] \in {1, 2}
<1>1. buf \in Seq(Units) /\ inbound \in Seq(Units)
  BY DEF TypeOK
<1>2. Waiting \in Seq(Units)
  BY <1>1 DEF Waiting
<1>3. next \in (1..MaxPipeline + 1) \X {1, 2}
  BY DEF TypeOK
<1>4. \A u \in Units : u = <<u[1], u[2]>> /\ u[1] \in Messages /\ u[1] \in Nat /\ u[2] \in {1, 2}
  BY DEF Units, Messages
<1> QED
  BY <1>2, <1>3, <1>4

LEMMA DeliveredType ==
  ASSUME TypeOK
  PROVE  /\ Len(delivered) \in Nat
         /\ \A i \in 1..Len(delivered) : delivered[i].msg \in Nat
<1> DEFINE D == [msg : Messages, request : SUBSET Messages, reply : SUBSET Messages,
                 status : {200, 400, 413, 414}, minor : {0, 1}, complete : BOOLEAN]
<1>1. delivered \in Seq(D)
  BY DEF TypeOK
<1>2. \A d \in D : d.msg \in Nat
  BY DEF Messages
<1> HIDE DEF D
<1> QED
  BY <1>1, <1>2

LEMMA DropKeeps ==
  ASSUME IInv, NEW n \in Nat, Dropped(n)
  PROVE  /\ Sorted' /\ Contiguous'
         /\ \A p : Passed(p) => /\ Before(<<p, 1>>, next')
                                /\ \A i \in 1..Len(Waiting') : Before(<<p, 1>>, Waiting'[i])
<1>1. TypeOK /\ Sorted /\ Contiguous
  BY DEF IInv
<1>2. Len(Waiting) \in Nat /\ Len(Waiting') \in Nat
  BY <1>1, WaitingType DEF Dropped
<1>3. ASSUME NEW i \in 1..Len(Waiting')
      PROVE  n + i \in 1..Len(Waiting) /\ Waiting'[i] = Waiting[n + i]
  BY <1>2 DEF Dropped
<1>4. Sorted'
  <2> SUFFICES ASSUME NEW i \in 1..Len(Waiting')
               PROVE  /\ InScript(Waiting[i])' /\ Before(Waiting'[i], next')
                      /\ \A j \in 1..Len(Waiting') : i < j => Before(Waiting'[i], Waiting'[j])
    BY <1>1 DEF Sorted, Before, InScript, Parts, Dropped
  <2>1. InScript(Waiting[n + i]) /\ Before(Waiting[n + i], next)
    BY <1>1, <1>3 DEF Sorted
  <2>2. InScript(Waiting[i])' /\ Before(Waiting'[i], next')
    BY <1>3, <2>1 DEF InScript, Dropped, Parts
  <2>3. ASSUME NEW j \in 1..Len(Waiting'), i < j
        PROVE  Before(Waiting'[i], Waiting'[j])
    <3>1. n + i < n + j
      BY <1>2, <2>3
    <3> QED
      BY <1>1, <1>3, <3>1 DEF Sorted
  <2> QED
    BY <2>2, <2>3
<1>5. Contiguous'
  <2> SUFFICES ASSUME clientOpen, NEW i \in 1..Len(Waiting')
               PROVE  Following(Waiting[i])' = IF i < Len(Waiting') THEN Waiting'[i + 1] ELSE next'
    BY DEF Contiguous, Dropped, Following, Parts
  <2>1. Following(Waiting[i])' = Following(Waiting[n + i])
    BY <1>3 DEF Following, Parts, Dropped
  <2>2. Following(Waiting[n + i]) = IF n + i < Len(Waiting) THEN Waiting[n + i + 1] ELSE next
    BY <1>1, <1>3 DEF Contiguous
  <2>3. i < Len(Waiting') => Waiting'[i + 1] = Waiting[n + i + 1]
    BY <1>2, <1>3 DEF Dropped
  <2>4. i < Len(Waiting') <=> n + i < Len(Waiting)
    BY <1>2 DEF Dropped
  <2> QED
    BY <2>1, <2>2, <2>3, <2>4 DEF Dropped
<1>6. ASSUME NEW p, Passed(p)
      PROVE  /\ Before(<<p, 1>>, next')
             /\ \A i \in 1..Len(Waiting') : Before(<<p, 1>>, Waiting'[i])
  BY <1>3, <1>6 DEF Passed, Dropped
<1> QED
  BY <1>4, <1>5, <1>6

(* A step that takes nothing but waiting units away changes no more.        *)
LEMMA StillPast ==
  ASSUME IInv, UNCHANGED <<delivered, current, partOf>>,
         \A p : Passed(p) => /\ Before(<<p, 1>>, next')
                             /\ \A i \in 1..Len(Waiting') : Before(<<p, 1>>, Waiting'[i])
  PROVE  Past'
  BY DEF IInv, Past, Passed

LEMMA SendKeeps ==
  ASSUME IInv, Send(next)
  PROVE  IInv'
<1> USE DEF Send, parserVars, messageVars
<1>1. TypeOK /\ Sorted /\ Contiguous
  BY DEF IInv
<1>2. /\ buf \in Seq(Units) /\ inbound \in Seq(Units)
      /\ next = <<next[1], next[2]>> /\ next[1] \in Messages /\ next[2] \in {1, 2}
      /\ next \in Units
  BY <1>1, WaitingType, Scripts DEF TypeOK, Units, Messages
<1>3. inbound' \in Seq(Units)
  BY <1>2
<1>4. next' = Following(next) /\ next' \in (1..MaxPipeline + 1) \X {1, 2}
  BY <1>2 DEF Following, Messages
<1>5. TypeOK' /\ Control'
  BY <1>1, <1>3, <1>4 DEF TypeOK, IInv, Control
<1>6. /\ Len(Waiting) \in Nat
      /\ Len(Waiting') = Len(Waiting) + 1
      /\ \A i \in 1..Len(Waiting) : Waiting'[i] = Waiting[i]
      /\ Waiting'[Len(Waiting) + 1] = next
  BY <1>2 DEF Waiting
<1>7. Before(next, next')
  BY <1>2, <1>4 DEF Following, Before, Messages, Parts
<1>8. \A u : u[1] \in Nat /\ u[2] \in Nat /\ Before(u, next) => Before(u, next')
  BY <1>2, <1>4 DEF Following, Before, Messages
<1>9. Sorted'
  <2> SUFFICES ASSUME NEW i \in 1..Len(Waiting')
               PROVE  /\ InScript(Waiting[i])' /\ Before(Waiting'[i], next')
                      /\ \A j \in 1..Len(Waiting') : i < j => Before(Waiting'[i], Waiting'[j])
    <3>1. (next[2] = 2 => InScript(next))'
      BY <1>2, <1>4 DEF Following, InScript, Parts
    <3> QED
      BY <3>1 DEF Sorted, Before
  <2>1. CASE i \in 1..Len(Waiting)
    <3>1. Waiting'[i] = Waiting[i] /\ Waiting[i][1] \in Nat /\ Waiting[i][2] \in Nat
      BY <1>1, <1>6, <2>1, WaitingType
    <3>2. InScript(Waiting[i])'
      BY <1>1, <2>1, <3>1 DEF Sorted, InScript, Parts
    <3>3. Before(Waiting[i], next) /\ Before(Waiting'[i], next')
      BY <1>1, <1>8, <2>1, <3>1 DEF Sorted
    <3>4. ASSUME NEW j \in 1..Len(Waiting'), i < j PROVE Before(Waiting'[i], Waiting'[j])
      <4>1. j \in 1..Len(Waiting) \/ j = Len(Waiting) + 1
        BY <1>6
      <4> QED
        BY <1>1, <1>6, <2>1, <3>1, <3>3, <3>4, <4>1 DEF Sorted
    <3> QED
      BY <3>2, <3>3, <3>4
  <2>2. CASE i = Len(Waiting) + 1
    <3>1. InScript(next)
      BY <1>1, <1>2 DEF Sorted, InScript, Parts
    <3>2. Waiting'[i] = next /\ \A j \in 1..Len(Waiting') : ~(i < j)
      BY <1>6, <2>2
    <3>3. InScript(Waiting[i])'
      BY <3>1, <3>2 DEF InScript, Parts
    <3> QED
      BY <1>7, <3>2, <3>3
  <2> QED
    BY <1>6, <2>1, <2>2
<1>10. Past'
  <2>1. ASSUME NEW p, Passed(p), p \in Nat
        PROVE  /\ Before(<<p, 1>>, next')
               /\ \A i \in 1..Len(Waiting') : Before(<<p, 1>>, Waiting'[i])
    <3>1. Before(<<p, 1>>, next')
      BY <1>8, <2>1 DEF Passed
    <3>2. ASSUME NEW i \in 1..Len(Waiting') PROVE Before(<<p, 1>>, Waiting'[i])
      <4>1. i \in 1..Len(Waiting) \/ i = Len(Waiting) + 1
        BY <1>6
      <4> QED
        BY <1>6, <2>1, <4>1 DEF Passed
    <3> QED
      BY <3>1, <3>2
  <2>2. current \in Nat /\ partOf \in Nat /\ \A i \in 1..Len(delivered) : delivered[i].msg \in Nat
    BY <1>1, DeliveredType DEF TypeOK
  <2> QED
    BY <2>1, <2>2 DEF IInv, Past, Passed
<1>11. Contiguous'
  <2> SUFFICES ASSUME clientOpen, NEW i \in 1..Len(Waiting')
               PROVE  Following(Waiting[i])' = IF i < Len(Waiting') THEN Waiting'[i + 1] ELSE next'
    BY DEF Contiguous, Following, Parts
  <2>1. i \in 1..Len(Waiting) \/ i = Len(Waiting) + 1
    BY <1>6
  <2>2. Following(Waiting[i])' = Following(Waiting'[i])
    BY DEF Following, Parts
  <2>3. CASE i \in 1..Len(Waiting)
    <3>1. Following(Waiting[i]) = IF i < Len(Waiting) THEN Waiting[i + 1] ELSE next
      BY <1>1, <2>3, SMTT(30) DEF Contiguous
    <3> QED
      BY <1>6, <2>2, <2>3, <3>1, SMTT(30)
  <2>4. CASE i = Len(Waiting) + 1
    BY <1>4, <1>6, <2>2, <2>4, SMTT(30)
  <2> QED
    BY <2>1, <2>3, <2>4
<1>12. AtExpected'
  <2>1. Waiting \in Seq(Units) /\ Waiting' \in Seq(Units)
    BY <1>2, <1>3 DEF Waiting
  <2>2. Upcoming' = Upcoming
    BY <1>6, <2>1 DEF Upcoming
  <2> QED
    BY <2>2 DEF IInv, AtExpected, Upgrades
<1>13. Own' /\ Version' /\ Isolated' /\ StatusIsOwn' /\ HandlersSeeSound'
  BY QuietKeeps
<1> QED
  BY <1>5, <1>9, <1>10, <1>11, <1>12, <1>13 DEF IInv

LEMMA ClosesKeeps ==
  ASSUME IInv, ClientCloses
  PROVE  IInv'
<1> USE DEF parserVars, messageVars
<1>0. /\ inbound' = inbound \/ inbound' = <<>>
      /\ clientOpen' = FALSE
      /\ UNCHANGED <<script, next, delivered, buf, parserVars, messageVars, m_state, pc, handled>>
  BY DEF ClientCloses
<1>1. TypeOK /\ Sorted
  BY DEF IInv
<1>2. buf \in Seq(Units) /\ inbound \in Seq(Units)
  BY <1>1 DEF TypeOK
<1>4. TypeOK' /\ Control'
  <2>1. inbound' \in Seq(Units)
    <3>1. CASE inbound' = inbound
      BY <1>2, <3>1
    <3>2. CASE inbound' = <<>>
      BY <3>2
    <3> QED
      BY <1>0, <3>1, <3>2
  <2>2. clientOpen' \in BOOLEAN
    BY <1>0
  <2>3. UNCHANGED <<script, next, delivered, buf, parserVars, messageVars, m_state, pc, handled>>
    BY <1>0
  <2>4. TypeOK'
    BY <1>1, <2>1, <2>2, <2>3 DEF TypeOK
  <2>5. Control'
    BY <1>0 DEF IInv, Control
  <2> QED
    BY <2>4, <2>5
<1>5. /\ Len(Waiting') \in Nat /\ Len(Waiting') <= Len(Waiting)
      /\ \A i \in 1..Len(Waiting') : i \in 1..Len(Waiting) /\ Waiting'[i] = Waiting[i]
  <2>1. CASE inbound' = inbound
    BY <1>2, <1>0, <2>1 DEF Waiting
  <2>2. CASE inbound' = <<>>
    BY <1>2, <1>0, <2>2 DEF Waiting
  <2> QED
    BY <1>0, <2>1, <2>2
<1>6. Sorted'
  BY <1>0, <1>1, <1>5 DEF Sorted, InScript, Parts, Before
<1>7. Past'
  BY <1>0, <1>5, StillPast DEF Passed
<1>8. Contiguous' /\ AtExpected'
  BY <1>0 DEF IInv, Contiguous, AtExpected, Upgrades
<1>9. Own' /\ Version' /\ Isolated' /\ StatusIsOwn' /\ HandlersSeeSound'
  BY <1>0, QuietKeeps
<1> QED
  BY <1>4, <1>6, <1>7, <1>8, <1>9 DEF IInv

(* A read moves units, and they wait where they did.                        *)
LEMMA ReadKeeps ==
  ASSUME IInv, NEW n \in 1..Len(inbound), Read(n)
  PROVE  IInv'
<1> USE DEF Read, clientVars, parserVars, messageVars
<1>1. TypeOK /\ Control
  BY DEF IInv
<1>2. buf = <<>> /\ inbound \in Seq(Units)
  BY <1>1 DEF Control, TypeOK
<1>3. buf' \in Seq(Units) /\ inbound' \in Seq(Units)
  BY <1>2
<1>4. Waiting' = Waiting
  BY <1>2, <1>3 DEF Waiting
<1>5. TypeOK' /\ Control'
  BY <1>1, <1>3 DEF TypeOK, Control
<1>6. Dropped(0)
  BY <1>1, <1>4, WaitingType DEF Dropped
<1>7. Sorted' /\ Contiguous' /\ Past'
  BY <1>6, DropKeeps, StillPast
<1>8. AtExpected'
  BY <1>4 DEF IInv, AtExpected, Upcoming, Upgrades
<1>9. Own' /\ Version' /\ Isolated' /\ StatusIsOwn' /\ HandlersSeeSound'
  BY QuietKeeps
<1> QED
  BY <1>5, <1>7, <1>8, <1>9 DEF IInv

(* The same for the steps that move none.                                   *)
LEMMA IdleKeeps ==
  ASSUME IInv, UNCHANGED <<clientVars, inbound, delivered, buf, parserVars, messageVars, handled>>,
         pc \in {"reading", "parsing", "halted"}, pc' \in {"reading", "parsing", "halted"},
         m_state' \in {"READY_FOR_DATA", "IO_ERROR", "PARSE_ERROR", "SHOULD_CLOSE"},
         buf = <<>>
  PROVE  IInv'
<1> USE DEF clientVars, parserVars, messageVars
<1>1. TypeOK /\ Control
  BY DEF IInv
<1>2. TypeOK' /\ Control'
  BY <1>1 DEF TypeOK, Control
<1>3. Waiting' = Waiting
  BY DEF Waiting
<1>4. Dropped(0)
  BY <1>1, <1>3, WaitingType DEF Dropped
<1>5. Sorted' /\ Contiguous' /\ Past'
  BY <1>4, DropKeeps, StillPast
<1>6. AtExpected'
  BY <1>3 DEF IInv, AtExpected, Upcoming, Upgrades
<1>7. Own' /\ Version' /\ Isolated' /\ StatusIsOwn' /\ HandlersSeeSound'
  BY QuietKeeps
<1> QED
  BY <1>2, <1>5, <1>6, <1>7 DEF IInv

LEMMA ParseInvalidKeeps ==
  ASSUME IInv, ParseInvalid
  PROVE  IInv'
<1> USE DEF ParseInvalid, clientVars, parserVars, messageVars
<1>1. TypeOK /\ Control
  BY DEF IInv
<1>2. current = 0
  BY <1>1 DEF Control
<1>3. TypeOK' /\ Control'
  BY <1>1, <1>2 DEF TypeOK, Control
<1>4. Dropped(Len(buf))
  BY <1>1 DEF TypeOK, Dropped, Waiting
<1>5. Sorted' /\ Contiguous' /\ Past'
  BY <1>1, <1>4, DropKeeps, StillPast DEF TypeOK
<1>6. AtExpected'
  BY DEF IInv, AtExpected, Upgrades
<1>7. Own' /\ Version'
  <2>1. Own'
    BY DEF IInv, Own, InProgress, AllComplete
  <2> QED
    BY <2>1, VersionKept
<1>8. Isolated' /\ StatusIsOwn' /\ HandlersSeeSound'
  BY RepliesUnchanged
<1> QED
  BY <1>3, <1>5, <1>6, <1>7, <1>8 DEF IInv

-----------------------------------------------------------------------------
(* A unit that is parsed is the first that waits; all that waits after it   *)
(* comes behind it, and the next of them follows it.                        *)
LEMMA FirstTaken ==
  ASSUME IInv, buf # <<>>, NEW n \in 1..Len(buf), buf' = SubSeq(buf, n + 1, Len(buf)),
         UNCHANGED <<script, next, clientOpen, inbound>>
  PROVE  /\ Head(buf) = Waiting[1] /\ Head(buf) \in Units /\ InScript(Head(buf))
         /\ Dropped(n)
         /\ buf' \in Seq(Units)
         /\ Upcoming = Head(buf)
         /\ \A p : Passed(p) => Before(<<p, 1>>, Head(buf))
         /\ Before(Head(buf), next')
         /\ \A i \in 1..Len(Waiting') : Before(Head(buf), Waiting'[i])
         /\ n = 1 /\ clientOpen => Upcoming' = Following(Head(buf))
<1>1. /\ TypeOK /\ Sorted /\ Contiguous
      /\ buf \in Seq(Units) /\ inbound \in Seq(Units) /\ Len(buf) \in Nat /\ Len(buf) > 0
  BY DEF IInv, TypeOK
<1>2. buf' \in Seq(Units)
  BY <1>1
<1>3. /\ Waiting \in Seq(Units) /\ Len(Waiting) = Len(buf) + Len(inbound) /\ Len(Waiting) > 0
      /\ Head(buf) = Waiting[1] /\ Waiting # <<>>
  BY <1>1 DEF Waiting
<1>4. Waiting' \in Seq(Units) /\ Len(Waiting') = Len(Waiting) - n
  BY <1>1, <1>2, <1>3 DEF Waiting
<1>5. ASSUME NEW i \in 1..Len(Waiting')
      PROVE  Waiting'[i] = Waiting[n + i]
  <2>1. CASE i \in 1..Len(buf) - n
    BY <1>1, <1>2, <1>4, <2>1, SMTT(30) DEF Waiting
  <2>2. CASE i > Len(buf) - n
    BY <1>1, <1>2, <1>4, <2>2, SMTT(30) DEF Waiting
  <2> QED
    BY <1>1, <1>4, <2>1, <2>2
<1>6. Dropped(n)
  BY <1>1, <1>3, <1>4, <1>5 DEF Dropped
<1>7. Head(buf) \in Units /\ InScript(Head(buf)) /\ Upcoming = Head(buf)
  BY <1>1, <1>3 DEF Sorted, Upcoming
<1>8. Before(Head(buf), next')
  BY <1>1, <1>3 DEF Sorted
<1>9. ASSUME NEW p, Passed(p) PROVE Before(<<p, 1>>, Head(buf))
  BY <1>3, <1>9, SMTT(30) DEF Passed
<1>10. ASSUME NEW i \in 1..Len(Waiting') PROVE Before(Head(buf), Waiting'[i])
  <2>1. n + i \in 1..Len(Waiting) /\ 1 < n + i
    BY <1>1, <1>3, <1>4
  <2> QED
    BY <1>1, <1>3, <1>5, <2>1 DEF Sorted
<1>11. ASSUME n = 1, clientOpen PROVE Upcoming' = Following(Head(buf))
  <2>1. Following(Waiting[1]) = IF 1 < Len(Waiting) THEN Waiting[2] ELSE next
    BY <1>1, <1>3, <1>11 DEF Contiguous
  <2>2. CASE 1 < Len(Waiting)
    BY <1>3, <1>4, <1>5, <1>11, <2>1, <2>2 DEF Upcoming
  <2>3. CASE ~(1 < Len(Waiting))
    BY <1>3, <1>4, <1>11, <2>1, <2>3 DEF Upcoming
  <2> QED
    BY <2>2, <2>3
<1> QED
  BY <1>2, <1>3, <1>6, <1>7, <1>8, <1>9, <1>10, <1>11

LEMMA ParseHeadKeeps ==
  ASSUME IInv, ParseHead
  PROVE  IInv'
<1> USE DEF clientVars
<1> DEFINE u == Head(buf)
           m == u[1]
           ends == Parts(m) = 1 \/ "upgrade" \in script[m]
<1>1. /\ pc = "parsing" /\ buf # <<>> /\ u[2] = 1 /\ ~Invalid(u)
      /\ m_request' = m_request \cup {m}
      /\ m_error' = HeadError(m)
      /\ partOf' = IF ends THEN 0 ELSE m
      /\ current' = IF ends THEN m ELSE 0
      /\ pc' = IF ends THEN "processing" ELSE "parsing"
      /\ buf' = IF "upgrade" \in script[m] THEN <<>> ELSE Tail(buf)
      /\ UNCHANGED <<script, next, clientOpen, inbound, delivered, dead, m_reply, status, http_minor,
                     m_state, handled>>
  BY DEF ParseHead
<1>2. TypeOK /\ Control /\ buf \in Seq(Units) /\ Len(buf) \in Nat /\ Len(buf) > 0
  BY <1>1 DEF IInv, TypeOK
<1>3. PICK n \in 1..Len(buf) : /\ buf' = SubSeq(buf, n + 1, Len(buf))
                               /\ "upgrade" \notin script[m] => n = 1
  <2>1. CASE "upgrade" \in script[m]
    BY <1>1, <1>2, <2>1
  <2>2. CASE "upgrade" \notin script[m]
    BY <1>1, <1>2, <2>2
  <2> QED
    BY <2>1, <2>2
<1>4. /\ u \in Units /\ InScript(u) /\ Dropped(n) /\ buf' \in Seq(Units) /\ Upcoming = u
      /\ \A p : Passed(p) => Before(<<p, 1>>, u)
      /\ Before(u, next')
      /\ \A i \in 1..Len(Waiting') : Before(u, Waiting'[i])
      /\ n = 1 /\ clientOpen => Upcoming' = Following(u)
  BY <1>1, <1>3, FirstTaken
<1>5. u = <<m, 1>> /\ m \in Messages /\ m \in Nat /\ m # 0
  BY <1>1, <1>4 DEF Units, Messages
<1>6. current = 0 /\ partOf = 0 /\ ~dead /\ "malformed" \notin script[m]
  BY <1>1, <1>2 DEF Control, Invalid
<1> HIDE DEF u, m, ends
<1>7. TypeOK'
  <2>1. m_error' \in {"OK", "NEED_100_CONTINUE", "BODY_TOO_LARGE", "URI_TOO_LONG", "HANDLER_FAILURE"}
    BY <1>1, <1>2 DEF TypeOK, HeadError
  <2>2. /\ partOf' \in 0..MaxPipeline /\ current' \in 0..MaxPipeline /\ m_request' \subseteq Messages
        /\ pc' \in {"reading", "parsing", "processing", "sending", "halted"}
    BY <1>1, <1>2, <1>5 DEF TypeOK, Messages
  <2> QED
    BY <1>1, <1>2, <1>4, <2>1, <2>2 DEF TypeOK
<1>8. Control'
  BY <1>1, <1>2, <1>5, <1>6 DEF Control
<1>9. Sorted' /\ Contiguous'
  BY <1>4, DropKeeps
<1>10. Past'
  <2>1. ASSUME NEW p, Passed(p)
        PROVE  /\ Before(<<p, 1>>, next')
               /\ \A i \in 1..Len(Waiting') : Before(<<p, 1>>, Waiting'[i])
    BY <1>4, <2>1, DropKeeps
  <2>2. Passed(0)
    BY <1>6 DEF IInv, Past
  <2>3. (Passed(current) /\ Passed(partOf))'
    BY <1>1, <1>4, <1>5, <2>1, <2>2 DEF Passed
  <2>4. ASSUME NEW i \in 1..Len(delivered)
        PROVE  Passed(delivered[i].msg) /\ delivered[i].msg < m
    <3>1. Passed(delivered[i].msg)
      BY DEF IInv, Past
    <3>2. Before(<<delivered[i].msg, 1>>, u)
      BY <1>4, <3>1
    <3> QED
      BY <1>2, <1>5, <3>1, <3>2, DeliveredType DEF Before
  <2>5. \A i, j \in 1..Len(delivered) : j < i => delivered[j].msg < delivered[i].msg
    BY DEF IInv, Past
  <2> QED
    BY <1>1, <2>1, <2>3, <2>4, <2>5 DEF Past, Passed
<1>11. AtExpected'
  <2> SUFFICES ASSUME ~Upgrades
               PROVE  /\ \A i \in 1..Len(delivered) : delivered[i].msg = i
                      /\ clientOpen => /\ m = Len(delivered) + 1
                                       /\ Upcoming' = IF ends THEN <<m + 1, 1>> ELSE <<m, 2>>
    BY <1>1, <1>5, <1>6 DEF AtExpected, Upgrades
  <2>1. \A i \in 1..Len(delivered) : delivered[i].msg = i
    BY DEF IInv, AtExpected
  <2>2. clientOpen => u = <<Len(delivered) + 1, 1>>
    BY <1>4, <1>6 DEF IInv, AtExpected
  <2>3. "upgrade" \notin script[m]
    BY <1>4, <1>5 DEF Upgrades, InScript
  <2>4. clientOpen => Upcoming' = Following(<<m, 1>>)
    BY <1>3, <1>4, <1>5, <2>3
  <2>5. Following(<<m, 1>>) = IF ends THEN <<m + 1, 1>> ELSE <<m, 2>>
    BY <2>3 DEF Following, ends, Parts
  <2> QED
    BY <1>5, <2>1, <2>2, <2>4, <2>5
<1>12. Own'
  <2> SUFFICES ASSUME (clientOpen /\ AllComplete) \/ HeadError(m) = "OK"
               PROVE  /\ m_request' = {m} /\ m_reply = {}
                      /\ HeadError(m) = OwnError(script[m])
    BY <1>1, <1>5, <1>6 DEF Own, AllComplete, InProgress
  <2>1. (clientOpen /\ AllComplete) \/ m_error = "OK"
    BY DEF HeadError
  <2>2. m_request = {} /\ m_reply = {} /\ m_error = "OK"
    BY <1>1, <1>6, <2>1 DEF IInv, Own, InProgress
  <2>3. m_request \cup {m} = {m}
    BY <2>2
  <2>4. Large({m}) <=> "large" \in script[m]
    BY <1>5 DEF Large
  <2>5. HeadError(m) = OwnError(script[m])
    BY <2>2, <2>3, <2>4 DEF HeadError, OwnError
  <2> QED
    BY <1>1, <2>2, <2>3, <2>5
<1>13. Isolated' /\ StatusIsOwn' /\ HandlersSeeSound'
  BY <1>1, RepliesUnchanged
<1>14. Version'
  BY <1>1 DEF IInv, Version, Answered10
<1> QED
  BY <1>7, <1>8, <1>9, <1>10, <1>11, <1>12, <1>13, <1>14 DEF IInv

LEMMA ParseRestKeeps ==
  ASSUME IInv, ParseRest
  PROVE  IInv'
<1> USE DEF clientVars, parserVars
<1> DEFINE u == Head(buf)
<1>1. /\ pc = "parsing" /\ buf # <<>> /\ u[2] = 2 /\ ~Invalid(u)
      /\ partOf' = 0 /\ current' = partOf /\ pc' = "processing"
      /\ buf' = Tail(buf)
      /\ UNCHANGED <<script, next, clientOpen, inbound, delivered, dead, m_error,
                     m_request, m_reply, status, http_minor, m_state, handled>>
  BY DEF ParseRest
<1>2. TypeOK /\ Control /\ buf \in Seq(Units) /\ Len(buf) \in Nat /\ Len(buf) > 0
  BY <1>1 DEF IInv, TypeOK
<1>3. 1 \in 1..Len(buf) /\ buf' = SubSeq(buf, 1 + 1, Len(buf))
  BY <1>1, <1>2
<1>4. /\ u \in Units /\ InScript(u) /\ Dropped(1) /\ buf' \in Seq(Units) /\ Upcoming = u
      /\ clientOpen => Upcoming' = Following(u)
  BY <1>1, <1>3, FirstTaken
<1>5. current = 0 /\ ~dead /\ partOf = u[1] /\ partOf # 0 /\ u = <<partOf, 2>>
  BY <1>1, <1>2, <1>4 DEF Control, Invalid, Units, Messages
<1> HIDE DEF u
<1>6. TypeOK'
  BY <1>1, <1>2, <1>4 DEF TypeOK
<1>7. Control'
  BY <1>1, <1>5 DEF Control
<1>8. Sorted' /\ Contiguous'
  BY <1>4, DropKeeps
<1>9. Past'
  <2>1. \A p : Passed(p) => /\ Before(<<p, 1>>, next')
                            /\ \A i \in 1..Len(Waiting') : Before(<<p, 1>>, Waiting'[i])
    BY <1>4, DropKeeps
  <2> QED
    BY <1>1, <1>5, <2>1 DEF IInv, Past, Passed
<1>10. AtExpected'
  <2>1. clientOpen => Upcoming' = <<partOf + 1, 1>>
    BY <1>4, <1>5 DEF Following, Parts
  <2> QED
    BY <1>1, <1>5, <2>1 DEF IInv, AtExpected, Upgrades
<1>11. Own'
  <2>1. InProgress' = InProgress /\ AllComplete' = AllComplete
    BY <1>1, <1>5 DEF InProgress, AllComplete
  <2> QED
    BY <1>1, <2>1 DEF IInv, Own
<1>12. Isolated' /\ StatusIsOwn' /\ HandlersSeeSound'
  BY <1>1, RepliesUnchanged
<1>13. Version'
  BY <1>1 DEF IInv, Version, Answered10
<1> QED
  BY <1>6, <1>7, <1>8, <1>9, <1>10, <1>11, <1>12, <1>13 DEF IInv

-----------------------------------------------------------------------------
(* process, with nothing left over, makes the status and the handler's      *)
(* view those of the current message.                                       *)
LEMMA ProcessKeeps ==
  ASSUME IInv, Process
  PROVE  IInv'
<1> USE DEF clientVars, parserVars
<1> DEFINE call == [msg |-> current, request |-> m_request, reply |-> m_reply']
<1>1. /\ pc = "processing" /\ pc' = "sending"
      /\ m_reply' = m_reply \cup {current}
      /\ http_minor' = IF "http10" \in script[current] THEN 0 ELSE http_minor
      /\ m_error # "OK" => status' = Status(m_error) /\ handled' = handled
      /\ m_error = "OK" => status' = 200 /\ handled' = Append(handled, call)
      /\ UNCHANGED <<script, next, clientOpen, inbound, delivered, buf, partOf, dead, m_error,
                     m_request, current>>
  BY DEF Process
<1>2. TypeOK /\ Control
  BY DEF IInv
<1>3. current # 0 /\ partOf = 0 /\ ~dead /\ current \in Messages /\ InProgress = {current}
  BY <1>1, <1>2 DEF Control, TypeOK, Messages, InProgress
<1>4. TypeOK'
  <2> DEFINE H == [msg : Messages, request : SUBSET Messages, reply : SUBSET Messages]
  <2>1. m_reply' \subseteq Messages
    BY <1>1, <1>2, <1>3 DEF TypeOK
  <2>2. handled \in Seq(H) /\ call \in H
    BY <1>2, <1>3, <2>1 DEF TypeOK
  <2> HIDE DEF H, call
  <2>3. handled' \in Seq(H)
    BY <1>1, <2>2
  <2>4. status' \in {200, 400, 413, 414}
    BY <1>1, <1>2 DEF TypeOK, Status
  <2>5. m_state' \in {"READY_FOR_DATA", "IO_ERROR", "PARSE_ERROR", "SHOULD_CLOSE"}
    BY <1>2 DEF Process, TypeOK
  <2>6. http_minor' \in {0, 1}
    BY <1>1, <1>2 DEF TypeOK
  <2> USE DEF H
  <2> QED
    BY <1>1, <1>2, <2>1, <2>3, <2>4, <2>5, <2>6 DEF TypeOK
<1>5. Control'
  BY <1>1, <1>2 DEF Control
<1>6. Waiting' = Waiting
  BY <1>1 DEF Waiting
<1>7. Sorted' /\ Contiguous' /\ Past'
  <2>1. Dropped(0)
    BY <1>1, <1>2, <1>6, WaitingType DEF Dropped
  <2> QED
    BY <1>1, <2>1, DropKeeps, StillPast
<1>8. AtExpected'
  BY <1>1, <1>6 DEF IInv, AtExpected, Upcoming, Upgrades
<1>9. Own'
  BY <1>1, <1>3 DEF IInv, Own, InProgress, AllComplete
<1>10. Isolated' /\ StatusIsOwn'
  <2>1. Unbroken' = Unbroken
    BY <1>1 DEF Unbroken
  <2>2. Isolated'
    BY <1>1, <2>1 DEF IInv, Isolated, Answered10
  <2> QED
    BY <1>1, <2>1, <2>2, StatusesProper DEF IInv
<1>11. HandlersSeeSound'
  <2> DEFINE Sound(c) == /\ c.request = {c.msg} /\ c.reply = {c.msg}
                         /\ script[c.msg] \cap {"large", "long", "expect", "malformed"} = {}
  <2>1. Len(handled) \in Nat /\ \A i \in 1..Len(handled) : Sound(handled[i])
    <3>1. Len(handled) \in Nat
      BY <1>2 DEF TypeOK
    <3>2. HandlersSeeSound
      BY DEF IInv
    <3> QED
      BY <3>1, <3>2 DEF HandlersSeeSound
  <2>2. CASE m_error # "OK"
    BY <1>1, <2>1, <2>2 DEF HandlersSeeSound
  <2>3. CASE m_error = "OK"
    <3>1. Sound(call)
      <4>1. /\ m_request = {current} /\ m_reply = {}
            /\ m_error = OwnError(script[current]) /\ "malformed" \notin script[current]
        BY <1>1, <1>3, <2>3 DEF IInv, Own
      <4>2. script[current] \cap {"large", "long", "expect", "malformed"} = {}
        BY <2>3, <4>1 DEF OwnError
      <4> QED
        BY <1>1, <4>1, <4>2
    <3>2. handled' = Append(handled, call)
      BY <1>1, <2>3
    <3>3. Len(handled') = Len(handled) + 1
          /\ \A i \in 1..Len(handled') : handled'[i] = IF i = Len(handled) + 1 THEN call ELSE handled[i]
      BY <1>2, <3>2 DEF TypeOK
    <3> HIDE DEF call, Sound
    <3>4. \A i \in 1..Len(handled') : Sound(handled'[i])
      BY <2>1, <3>1, <3>3
    <3> USE DEF Sound
    <3> QED
      BY <1>1, <3>4 DEF HandlersSeeSound
  <2> QED
    BY <2>2, <2>3
<1>12. Version'
  BY <1>1 DEF IInv, Version, Answered10
<1> QED
  BY <1>4, <1>5, <1>7, <1>8, <1>9, <1>10, <1>11, <1>12 DEF IInv

(* A reply that is sent, or cut off, is the next one, behind those that     *)
(* were sent before.                                                        *)
LEMMA DeliverAppends ==
  ASSUME TypeOK, NEW whole \in BOOLEAN, Deliver(whole), current \in Messages
  PROVE  /\ Len(delivered') \in Nat
         /\ \A i \in 1..Len(delivered) : i \in 1..Len(delivered') /\ delivered'[i] = delivered[i]
         /\ \A i \in 1..Len(delivered') :
              \/ i \in 1..Len(delivered)
              \/ /\ i = Len(delivered) + 1
                 /\ clientOpen
                 /\ delivered'[i] = [msg |-> current, request |-> m_request, reply |-> m_reply,
                                     status |-> status, minor |-> http_minor, complete |-> whole]
         /\ Len(delivered') = IF clientOpen THEN Len(delivered) + 1 ELSE Len(delivered)
         /\ delivered' \in Seq([msg : Messages, request : SUBSET Messages, reply : SUBSET Messages,
                                status : {200, 400, 413, 414}, minor : {0, 1}, complete : BOOLEAN])
<1> DEFINE D == [msg : Messages, request : SUBSET Messages, reply : SUBSET Messages,
                 status : {200, 400, 413, 414}, minor : {0, 1}, complete : BOOLEAN]
           d == [msg |-> current, request |-> m_request, reply |-> m_reply,
                 status |-> status, minor |-> http_minor, complete |-> whole]
<1>1. delivered \in Seq(D) /\ d \in D
  BY DEF TypeOK
<1>2. delivered' = IF clientOpen THEN Append(delivered, d) ELSE delivered
  BY DEF Deliver
<1> HIDE DEF D, d
<1>3. delivered' \in Seq(D)
  BY <1>1, <1>2
<1>4. Len(delivered') = IF clientOpen THEN Len(delivered) + 1 ELSE Len(delivered)
  BY <1>1, <1>2
<1>5. \A i \in 1..Len(delivered) : delivered'[i] = delivered[i]
  BY <1>1, <1>2
<1>6. clientOpen => delivered'[Len(delivered) + 1] = d
  BY <1>1, <1>2
<1>7. Len(delivered) \in Nat /\ Len(delivered') \in Nat
  BY <1>1, <1>3
<1>8. ASSUME NEW i \in 1..Len(delivered')
      PROVE  i \in 1..Len(delivered) \/ (i = Len(delivered) + 1 /\ clientOpen /\ delivered'[i] = d)
  BY <1>4, <1>6, <1>7
<1> USE DEF D, d
<1> QED
  BY <1>3, <1>4, <1>5, <1>7, <1>8

LEMMA DeliverKeeps ==
  ASSUME IInv, pc = "sending", NEW whole \in BOOLEAN, Deliver(whole), current' = 0,
         pc' # "sending", UNCHANGED <<script, next, clientOpen, inbound, buf, partOf, http_minor, handled>>
  PROVE  /\ Sorted' /\ Contiguous' /\ Past' /\ AtExpected'
         /\ Version' /\ Isolated' /\ StatusIsOwn' /\ HandlersSeeSound'
<1>1. TypeOK /\ Control
  BY DEF IInv
<1>2. /\ current # 0 /\ partOf = 0 /\ ~dead /\ current \in Messages /\ current \in Nat
      /\ InProgress = {current}
  BY <1>1 DEF Control, TypeOK, Messages, InProgress
<1> DEFINE new == Len(delivered) + 1
           d == [msg |-> current, request |-> m_request, reply |-> m_reply,
                 status |-> status, minor |-> http_minor, complete |-> whole]
<1>3. /\ Len(delivered') \in Nat
      /\ \A i \in 1..Len(delivered) : i \in 1..Len(delivered') /\ delivered'[i] = delivered[i]
      /\ \A i \in 1..Len(delivered') :
           \/ i \in 1..Len(delivered)
           \/ i = new /\ clientOpen /\ delivered'[i] = d
      /\ Len(delivered') = IF clientOpen THEN new ELSE Len(delivered)
  BY <1>1, <1>2, DeliverAppends
<1>4. /\ d.msg = current /\ d.request = m_request /\ d.reply = m_reply /\ d.status = status
      /\ d.minor = http_minor
  OBVIOUS
<1> HIDE DEF d
<1>5. Len(delivered) \in Nat
  BY <1>1, DeliveredType
<1>6. Waiting' = Waiting
  BY DEF Waiting
<1>7. Dropped(0)
  BY <1>1, <1>6, WaitingType DEF Dropped
<1>8. Sorted' /\ Contiguous'
  BY <1>7, DropKeeps
<1>9. Past'
  <2>1. \A p : Passed(p) => /\ Before(<<p, 1>>, next')
                            /\ \A i \in 1..Len(Waiting') : Before(<<p, 1>>, Waiting'[i])
    BY <1>7, DropKeeps
  <2>2. Passed(0) /\ Passed(current) /\ \A i \in 1..Len(delivered) : Passed(delivered[i].msg) /\ delivered[i].msg < current
    BY <1>2 DEF IInv, Past
  <2>3. ASSUME NEW i \in 1..Len(delivered')
        PROVE  /\ Passed(delivered'[i].msg)
               /\ \A j \in 1..Len(delivered') : j < i => delivered'[j].msg < delivered'[i].msg
    <3>1. CASE i \in 1..Len(delivered)
      <4>1. ASSUME NEW j \in 1..Len(delivered'), j < i PROVE delivered'[j].msg < delivered'[i].msg
        <5>1. j \in 1..Len(delivered)
          BY <1>3, <1>5, <3>1, <4>1
        <5> QED
          BY <1>3, <3>1, <4>1, <5>1 DEF IInv, Past
      <4> QED
        BY <1>3, <2>2, <3>1, <4>1
    <3>2. CASE i = new /\ delivered'[i] = d
      <4>1. ASSUME NEW j \in 1..Len(delivered'), j < i PROVE delivered'[j].msg < delivered'[i].msg
        <5>1. j \in 1..Len(delivered)
          BY <1>3, <1>5, <3>2, <4>1
        <5> QED
          BY <1>3, <1>4, <2>2, <3>2, <5>1
      <4> QED
        BY <1>4, <2>2, <3>2, <4>1
    <3> QED
      BY <1>3, <3>1, <3>2
  <2> QED
    BY <1>2, <2>1, <2>2, <2>3 DEF Past, Passed
<1>10. AtExpected'
  <2> SUFFICES ASSUME ~Upgrades
               PROVE  /\ \A i \in 1..Len(delivered') : delivered'[i].msg = i
                      /\ clientOpen => Upcoming' = <<Len(delivered') + 1, 1>>
    BY <1>2 DEF AtExpected, Upgrades
  <2>1. Upcoming' = Upcoming
    BY <1>6 DEF Upcoming
  <2>2. /\ \A i \in 1..Len(delivered) : delivered[i].msg = i
        /\ clientOpen => current = new /\ Upcoming = <<current + 1, 1>>
    BY <1>2 DEF IInv, AtExpected
  <2>3. ASSUME NEW i \in 1..Len(delivered') PROVE delivered'[i].msg = i
    BY <1>3, <1>4, <2>2
  <2> QED
    BY <1>3, <1>5, <2>1, <2>2, <2>3
<1>11. ASSUME NEW i \in Unbroken'
       PROVE  \/ i \in Unbroken /\ delivered'[i] = delivered[i]
              \/ clientOpen /\ AllComplete /\ delivered'[i] = d
  <2>1. i \in 1..Len(delivered') /\ \A j \in 1..i - 1 : delivered'[j].complete
    BY DEF Unbroken
  <2>2. \A j \in 1..i - 1 : j \in 1..Len(delivered) => delivered[j].complete
    BY <1>3, <2>1
  <2>3. CASE i \in 1..Len(delivered)
    BY <1>3, <1>5, <2>2, <2>3 DEF Unbroken
  <2>4. CASE i = new /\ clientOpen /\ delivered'[i] = d
    BY <1>3, <1>5, <2>2, <2>4 DEF AllComplete
  <2> QED
    BY <1>3, <2>1, <2>3, <2>4
<1>12. clientOpen /\ AllComplete =>
         /\ m_request = {current} /\ m_reply = {current}
         /\ m_error = OwnError(script[current])
         /\ status = IF m_error = "OK" THEN 200 ELSE Status(m_error)
  BY <1>2 DEF IInv, Own
<1>13. Version' /\ Isolated'
  <2>1. ASSUME NEW i \in 1..Len(delivered) PROVE Answered10(i)' <=> Answered10(i)
    <3>1. \A j \in 1..i : delivered'[j].msg = delivered[j].msg
      BY <1>3, <1>5
    <3> QED
      BY <3>1 DEF Answered10
  <2>2. PICK n \in Nat : n = new
    BY <1>5
  <2>3. ASSUME clientOpen
        PROVE  Answered10(n)' <=> Answered10(Len(delivered)) \/ "http10" \in script[current]
    <3>1. delivered'[n].msg = current
      BY <1>3, <1>4, <1>5, <2>2, <2>3
    <3>2. 1..n = 1..Len(delivered) \cup {n}
      BY <1>5, <2>2
    <3>3. \A j \in 1..Len(delivered) : delivered'[j].msg = delivered[j].msg
      BY <1>3
    <3> QED
      BY <3>1, <3>2, <3>3 DEF Answered10
  <2>4. clientOpen => http_minor = IF Answered10(n)' THEN 0 ELSE 1
    BY <2>3 DEF IInv, Version
  <2>5. Version'
    BY <1>3, <2>2, <2>4 DEF Version, Answered10
  <2>6. ASSUME NEW i \in Unbroken'
        PROVE  delivered'[i].minor = IF Answered10(i)' THEN 0 ELSE 1
    <3>1. i \in 1..Len(delivered')
      BY DEF Unbroken
    <3>2. CASE i \in 1..Len(delivered)
      <4>1. i \in Unbroken /\ delivered'[i] = delivered[i]
        BY <1>3, <1>5, <3>2 DEF Unbroken
      <4> QED
        BY <2>1, <3>2, <4>1 DEF IInv, Isolated
    <3>3. CASE i = new /\ clientOpen /\ delivered'[i] = d
      BY <1>4, <2>2, <2>4, <3>3
    <3> QED
      BY <1>3, <3>1, <3>2, <3>3
  <2> QED
    BY <1>4, <1>11, <1>12, <2>5, <2>6 DEF IInv, Isolated
<1>14. StatusIsOwn'
  <2>1. clientOpen /\ AllComplete => Proper(status, script[current])
    BY <1>12 DEF Proper, OwnError, Status
  <2>2. ASSUME NEW i \in Unbroken' PROVE Proper(delivered'[i].status, script[delivered'[i].msg])
    BY <1>4, <1>11, <2>1, StatusesProper DEF IInv
  <2> QED
    BY <2>2, StatusesProper
<1>15. HandlersSeeSound'
  BY Zenon DEF IInv, HandlersSeeSound
<1> QED
  BY <1>8, <1>9, <1>10, <1>13, <1>14, <1>15

(* After send and the resets, nothing is left of the message.               *)
LEMMA SendReplyKeeps ==
  ASSUME IInv, SendReply
  PROVE  IInv'
<1> USE DEF clientVars
<1>1. /\ pc = "sending" /\ pc' = "parsing" /\ Deliver(TRUE)
      /\ m_request' = {} /\ m_reply' = {} /\ m_error' = "OK" /\ partOf' = 0 /\ dead' = FALSE
      /\ current' = 0 /\ status' = 200
      /\ UNCHANGED <<script, next, clientOpen, inbound, buf, http_minor, m_state, handled>>
  BY DEF SendReply
<1>2. TypeOK /\ current \in Messages /\ partOf = 0
  BY <1>1 DEF IInv, Control, TypeOK, Messages
<1>3. TypeOK'
  <2>1. delivered' \in Seq([msg : Messages, request : SUBSET Messages, reply : SUBSET Messages,
                            status : {200, 400, 413, 414}, minor : {0, 1}, complete : BOOLEAN])
    BY <1>1, <1>2, DeliverAppends
  <2>2. 0 \in 0..MaxPipeline
    BY MaxPipelineAssumption
  <2> QED BY <1>1, <1>2, <2>1, <2>2 DEF TypeOK
<1>4. Control' /\ Own'
  BY <1>1 DEF Control, Own, InProgress
<1> QED
  BY <1>1, <1>2, <1>3, <1>4, DeliverKeeps DEF IInv

(* Without the resets everything is, but the error or the reply tells.      *)
LEMMA SendFailsKeeps ==
  ASSUME IInv, SendFails
  PROVE  IInv'
<1> USE DEF clientVars
<1>1. /\ pc = "sending" /\ pc' = "parsing" /\ Deliver(FALSE)
      /\ m_error' = "HANDLER_FAILURE" /\ dead' \in BOOLEAN /\ m_state' = "IO_ERROR"
      /\ current' = 0
      /\ UNCHANGED <<script, next, clientOpen, inbound, buf, partOf, m_request, m_reply, status,
                     http_minor, handled>>
  BY DEF SendFails
<1>2. TypeOK /\ current \in Messages /\ partOf = 0
  BY <1>1 DEF IInv, Control, TypeOK, Messages
<1>3. TypeOK'
  <2>1. delivered' \in Seq([msg : Messages, request : SUBSET Messages, reply : SUBSET Messages,
                            status : {200, 400, 413, 414}, minor : {0, 1}, complete : BOOLEAN])
    BY <1>1, <1>2, DeliverAppends
  <2>2. 0 \in 0..MaxPipeline
    BY MaxPipelineAssumption
  <2> QED BY <1>1, <1>2, <2>1, <2>2 DEF TypeOK
<1>4. Control'
  BY <1>1 DEF Control
<1>5. clientOpen' => ~AllComplete'
  <2> SUFFICES ASSUME clientOpen PROVE \E i \in 1..Len(delivered') : ~delivered'[i].complete
    BY <1>1 DEF AllComplete
  <2> DEFINE new == Len(delivered) + 1
  <2>1. new \in 1..Len(delivered') /\ new \notin 1..Len(delivered)
    <3>1. Len(delivered) \in Nat /\ Len(delivered') = new
      BY <1>1, <1>2, DeliverAppends, DeliveredType
    <3> QED
      BY <3>1
  <2>2. delivered'[new] = [msg |-> current, request |-> m_request, reply |-> m_reply,
                           status |-> status, minor |-> http_minor, complete |-> FALSE]
    BY <1>1, <1>2, <2>1, DeliverAppends
  <2>3. ~delivered'[new].complete
    BY <2>2
  <2> QED
    BY <2>1, <2>3
<1>6. Own'
  BY <1>1, <1>5 DEF Own
<1> QED
  BY <1>1, <1>2, <1>3, <1>4, <1>6, DeliverKeeps DEF IInv

-----------------------------------------------------------------------------
LEMMA NextKeeps == IInv /\ [Next]_vars => IInv'
<1> SUFFICES ASSUME IInv, [Next]_vars
             PROVE  IInv'
  OBVIOUS
<1>1. CASE ClientSends \/ ClientSendsUnasked
  BY <1>1, SendKeeps DEF ClientSends, ClientSendsUnasked
<1>2. CASE ClientCloses
  BY <1>2, ClosesKeeps
<1>3. ASSUME NEW n \in 1..Len(inbound), Read(n) PROVE IInv'
  BY <1>3, ReadKeeps
<1>4. CASE ReadFails
  BY <1>4, IdleKeeps DEF ReadFails, IInv, Control
<1>5. CASE ParseInvalid
  BY <1>5, ParseInvalidKeeps
<1>6. CASE ParseHead
  BY <1>6, ParseHeadKeeps
<1>7. CASE ParseRest
  BY <1>7, ParseRestKeeps
<1>8. CASE Process
  BY <1>8, ProcessKeeps
<1>9. CASE SendReply
  BY <1>9, SendReplyKeeps
<1>10. CASE SendFails
  BY <1>10, SendFailsKeeps
<1>11. CASE AfterAdd
  BY <1>11, IdleKeeps DEF AfterAdd, IInv, TypeOK
<1>12. CASE UNCHANGED vars
  <2>1. TypeOK' /\ Control'
    BY <1>12 DEF vars, clientVars, parserVars, messageVars, IInv, TypeOK, Control
  <2>2. Waiting' = Waiting
    BY <1>12 DEF vars, Waiting
  <2>3. Dropped(0)
    BY <1>12, <2>2, WaitingType DEF vars, clientVars, Dropped, IInv
  <2>4. Sorted' /\ Contiguous' /\ Past'
    BY <1>12, <2>3, DropKeeps, StillPast DEF vars, parserVars, messageVars
  <2>5. AtExpected'
    BY <1>12, <2>2 DEF vars, clientVars, parserVars, messageVars, IInv, AtExpected, Upcoming, Upgrades
  <2>6. Own' /\ Version' /\ Isolated' /\ StatusIsOwn' /\ HandlersSeeSound'
    BY <1>12, QuietKeeps DEF vars, clientVars
  <2> QED
    BY <2>1, <2>4, <2>5, <2>6 DEF IInv
<1> QED
  BY <1>1, <1>2, <1>3, <1>4, <1>5, <1>6, <1>7, <1>8, <1>9, <1>10, <1>11, <1>12 DEF Next, ServerStep

LEMMA Invariance == Spec => []IInv
<1>1. Init => IInv
  BY InitIInv
<1>2. IInv /\ [Next]_vars => IInv'
  BY NextKeeps
<1> QED
  BY <1>1, <1>2, PTL DEF Spec

(* The state of a connection and what it has sent and called keep their     *)
(* types.                                                                   *)
THEOREM TypeCorrect == Spec => []TypeOK
<1>1. IInv => TypeOK
  BY DEF IInv
<1> QED
  BY <1>1, Invariance, PTL

(* Connection::exec answers pipelined requests one by one and in order,     *)
(* wherever reads cut them; with an Upgrade it may skip some, but it never  *)
(* swaps or repeats any.                                                    *)
THEOREM RepliesInOrder == Spec => []InOrder
<1>1. IInv => InOrder
  <2> SUFFICES ASSUME IInv, NEW i \in 1..Len(delivered)
               PROVE  IF Upgrades
                        THEN \A j \in 1..i-1 : delivered[j].msg < delivered[i].msg
                        ELSE delivered[i].msg = i
    BY DEF InOrder
  <2>1. CASE Upgrades
    BY <2>1, DeliveredType DEF IInv, Past
  <2>2. CASE ~Upgrades
    BY <2>2 DEF IInv, AtExpected
  <2> QED
    BY <2>1, <2>2
<1> QED
  BY <1>1, Invariance, PTL

(* Connection::process and the resets behind it: the Request and the Reply  *)
(* of one message hold nothing of another, but for the HTTP version, which  *)
(* is 1.0 from the first HTTP/1.0 request on.                               *)
THEOREM RepliesIsolated == Spec => []Isolated
<1>1. IInv => Isolated
  BY DEF IInv
<1> QED
  BY <1>1, Invariance, PTL

(* The status of a reply is decided by what is wrong with its own request.  *)
THEOREM StatusesOwn == Spec => []StatusIsOwn
<1>1. IInv => StatusIsOwn
  BY DEF IInv
<1> QED
  BY <1>1, Invariance, PTL

(* process calls a handler with a request that is whole, without error and  *)
(* by itself, and a Reply without headers, body or status of another, even  *)
(* after a reply that was cut off.                                          *)
THEOREM HandlersSound == Spec => []HandlersSeeSound
<1>1. IInv => HandlersSeeSound
  BY DEF IInv
<1> QED
  BY <1>1, Invariance, PTL
=============================================================================
