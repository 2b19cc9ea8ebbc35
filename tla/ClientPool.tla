----------------------------- MODULE ClientPool -----------------------------
(***************************************************************************)
(* Request handlers that call Client::send (client.cpp) through one        *)
(* SocketPool.  Each handler runs in its Connection's coroutine, so a step *)
(* here is what happens between two yields: every safe_* call is a yield,  *)
(* pool.get and pool.put are not.  The backend is external.                *)
(*                                                                         *)
(* A request on the wire is one unit when its body is in memory ("whole"), *)
(* else a "head" and a "rest": the disk-backed body sent with sendfile, or *)
(* the body that follows a 100-continue.                                   *)
(***************************************************************************)
EXTENDS SocketPool, Sequences

CONSTANTS
  Handler,     \* coroutines that run request handlers
  NoFd,        \* the -1 a new Client's m_fd has
  Kind,        \* the kinds of request in use, among "memory", "disk", "expect"
  Fault,       \* what the backend may do: "close", "malformed", "early"
  ReuseClient, \* handlers may send the same Request by the same Client again
  MaxRounds,   \* bound: handler invocations per coroutine
  MaxSends     \* bound: sends per invocation, when ReuseClient

ASSUME NoFdAssumption == NoFd \notin Socket
ASSUME KindAssumption == Kind # {} /\ Kind \subseteq {"memory", "disk", "expect"}
ASSUME ReuseAssumption == ReuseClient \in BOOLEAN
ASSUME BoundsAssumption == MaxRounds \in Nat /\ MaxSends \in Nat \ {0}

VARIABLES
  pc,      \* where in Client::send the handler is suspended
  m_fd,    \* Client::m_fd
  kind,    \* the kind of its Request
  m_data,  \* Request::m_data, which prepare() appends to
  unsent,  \* the part send_raw has still to write
  round,   \* handler invocations so far
  sends,   \* how many sends of this invocation returned true
  tries,   \* how many were begun
  got,     \* replies parsed into the Reply object of this invocation
  result,  \* what the last send returned
  toBackend, toClient,   \* per socket, units in flight each way
  peer,    \* per socket, whether the backend has it open
  awaits   \* per socket, the head whose rest the backend waits for

clientVars == <<pc, m_fd, kind, m_data, unsent, round, sends, tries, got, result>>
wireVars == <<toBackend, toClient, peer, awaits>>
vars == <<poolVars, clientVars, wireVars>>

InSend == {"write", "wait100", "body", "read"}

Unit(h, part) == [who |-> h, round |-> round[h], part |-> part, kind |-> kind[h]]
Answer(u, code) == [who |-> u.who, round |-> u.round, code |-> code]
NoUnit == [who |-> NoFd, round |-> 0, part |-> "none", kind |-> "memory"]

Units == [who : Handler, round : 0..MaxRounds, part : {"whole", "head", "rest"}, kind : Kind]
Answers == [who : Handler, round : 0..MaxRounds, code : {"100", "final", "bad"}]

TypeOK ==
  /\ PoolTypeOK
  /\ pc \in [Handler -> {"idle", "ready"} \cup InSend]
  /\ m_fd \in [Handler -> Socket \cup {NoFd}]
  /\ kind \in [Handler -> Kind]
  /\ m_data \in [Handler -> Seq(Units)]
  /\ unsent \in [Handler -> Seq(Units)]
  /\ round \in [Handler -> 0..MaxRounds]
  /\ sends \in [Handler -> 0..MaxSends]
  /\ tries \in [Handler -> 0..MaxSends]
  /\ got \in [Handler -> Seq(Answers)]
  /\ result \in [Handler -> {"none", "ok", "failed"}]
  /\ toBackend \in [Socket -> Seq(Units)]
  /\ toClient \in [Socket -> Seq(Answers)]
  /\ peer \in [Socket -> {"open", "closed"}]
  /\ awaits \in [Socket -> Units \cup {NoUnit}]

Init ==
  /\ PoolInit
  /\ pc = [h \in Handler |-> "idle"]
  /\ m_fd = [h \in Handler |-> NoFd]
  /\ kind = [h \in Handler |-> CHOOSE k \in Kind : TRUE]
  /\ m_data = [h \in Handler |-> <<>>]
  /\ unsent = [h \in Handler |-> <<>>]
  /\ round = [h \in Handler |-> 0]
  /\ sends = [h \in Handler |-> 0]
  /\ tries = [h \in Handler |-> 0]
  /\ got = [h \in Handler |-> <<>>]
  /\ result = [h \in Handler |-> "none"]
  /\ toBackend = [s \in Socket |-> <<>>]
  /\ toClient = [s \in Socket |-> <<>>]
  /\ peer = [s \in Socket |-> "open"]
  /\ awaits = [s \in Socket |-> NoUnit]

-----------------------------------------------------------------------------
(* A handler starts, with a fresh Request, Reply and Client; it ends.       *)
NewRequest(h, k) ==
  /\ pc[h] = "idle"
  /\ round[h] < MaxRounds
  /\ round' = [round EXCEPT ![h] = @ + 1]
  /\ kind' = [kind EXCEPT ![h] = k]
  /\ pc' = [pc EXCEPT ![h] = "ready"]
  /\ UNCHANGED <<poolVars, m_fd, m_data, unsent, sends, tries, got, result, wireVars>>

EndRequest(h) ==
  /\ pc[h] = "ready"
  /\ tries[h] > 0
  /\ pc' = [pc EXCEPT ![h] = "idle"]
  /\ m_fd' = [m_fd EXCEPT ![h] = NoFd]
  /\ m_data' = [m_data EXCEPT ![h] = <<>>]
  /\ sends' = [sends EXCEPT ![h] = 0]
  /\ tries' = [tries EXCEPT ![h] = 0]
  /\ got' = [got EXCEPT ![h] = <<>>]
  /\ result' = [result EXCEPT ![h] = "none"]
  /\ UNCHANGED <<poolVars, kind, unsent, round, wireVars>>

MaySend(h) ==
  /\ pc[h] = "ready"
  /\ tries[h] < IF ReuseClient THEN MaxSends ELSE 1

(* Request::prepare appends headers, and a body that needs no 100-continue, *)
(* to m_data, which only reset() clears.                                    *)
Prepared(h) ==
  Append(m_data[h], Unit(h, IF kind[h] = "memory" THEN "whole" ELSE "head"))

(* Client::send up to the first yield: prepare, connect, and the safe_write *)
(* of send_headers.                                                         *)
StartSend(h, f) ==
  /\ MaySend(h)
  /\ GetAvail(f) \/ GetConnected(f)
  /\ m_fd' = [m_fd EXCEPT ![h] = f]
  /\ m_data' = [m_data EXCEPT ![h] = Prepared(h)]
  /\ unsent' = [unsent EXCEPT ![h] = Prepared(h)]
  /\ tries' = [tries EXCEPT ![h] = @ + 1]
  /\ pc' = [pc EXCEPT ![h] = "write"]
  /\ result' = [result EXCEPT ![h] = "none"]
  /\ UNCHANGED <<kind, round, sends, got, wireVars>>

(* Fault: failure() leaves the socket with the Client.                      *)
Failure_Keeps(h) ==
  /\ UNCHANGED <<taken, avail>>
  /\ pc' = [pc EXCEPT ![h] = "ready"]
  /\ result' = [result EXCEPT ![h] = "failed"]

(* failure: release_socket puts back whatever m_fd is, and send is false.   *)
Failure(h) ==
  /\ PutBack(m_fd[h])
  /\ pc' = [pc EXCEPT ![h] = "ready"]
  /\ result' = [result EXCEPT ![h] = "failed"]

(* Client::send when connect fails: CONNECTION_ERROR.  m_fd is still that   *)
(* of an earlier send, or -1.                                               *)
StartSendFails(h) ==
  /\ MaySend(h)
  /\ GetRefused
  /\ m_data' = [m_data EXCEPT ![h] = Prepared(h)]
  /\ tries' = [tries EXCEPT ![h] = @ + 1]
  /\ Failure(h)
  /\ UNCHANGED <<m_fd, kind, unsent, round, sends, got, wireVars>>

(* One of safe_write or safe_sendfile fails: WRITE_ERROR.                   *)
WriteFails(h) ==
  /\ pc[h] \in {"write", "body"}
  /\ peer[m_fd[h]] = "closed"
  /\ Failure(h)
  /\ UNCHANGED <<open, m_fd, kind, m_data, unsent, round, sends, tries, got, wireVars>>

(* n units of data reach the backend, or nobody if it has closed.           *)
Transmit(f, units) ==
  IF peer[f] = "open"
    THEN toBackend' = [toBackend EXCEPT ![f] = @ \o units]
    ELSE UNCHANGED toBackend

(* Fault: a body on disk is not sent.                                       *)
AfterHeaders_SkipsBody(h) == IF kind[h] = "expect" THEN "wait100" ELSE "read"

(* After send_headers, send waits for the 100, yields in send_body's        *)
(* sendfile, or, with nothing left to send, reads the reply.                *)
AfterHeaders(h) ==
  CASE kind[h] = "memory" -> "read"
    [] kind[h] = "disk" -> "body"
    [] kind[h] = "expect" -> "wait100"

(* send_raw of m_data: each safe_write takes some of what is left.          *)
Write(h, n) ==
  /\ pc[h] = "write"
  /\ n \in 1..Len(unsent[h])
  /\ Transmit(m_fd[h], SubSeq(unsent[h], 1, n))
  /\ unsent' = [unsent EXCEPT ![h] = SubSeq(@, n + 1, Len(@))]
  /\ pc' = [pc EXCEPT ![h] = IF n < Len(unsent[h]) THEN "write" ELSE AfterHeaders(h)]
  /\ UNCHANGED <<poolVars, m_fd, kind, m_data, round, sends, tries, got, result,
                 toClient, peer, awaits>>

(* send_body.                                                               *)
WriteBody(h) ==
  /\ pc[h] = "body"
  /\ Transmit(m_fd[h], <<Unit(h, "rest")>>)
  /\ pc' = [pc EXCEPT ![h] = "read"]
  /\ UNCHANGED <<poolVars, m_fd, kind, m_data, unsent, round, sends, tries, got,
                 result, toClient, peer, awaits>>

-----------------------------------------------------------------------------
(* A safe_read and the Parser::add of what it returned: some prefix of what *)
(* the socket holds.  The parser goes on after the end of a message, and    *)
(* stops at a malformed one.                                                *)
Received(f, n) == SubSeq(toClient[f], 1, n)

Malformed(answers) == \E i \in 1..Len(answers) : answers[i].code = "bad"

BeforeMalformed(answers) ==
  LET first == CHOOSE i \in 1..Len(answers) :
                 /\ answers[i].code = "bad"
                 /\ \A j \in 1..i-1 : answers[j].code # "bad"
  IN  SubSeq(answers, 1, first - 1)

Drain(f, n) ==
  /\ n \in 1..Len(toClient[f])
  /\ toClient' = [toClient EXCEPT ![f] = SubSeq(@, n + 1, Len(@))]
  /\ UNCHANGED <<toBackend, peer, awaits>>

(* read_reply into a temporary Reply; its code is that of the last message. *)
Wait100(h, n) ==
  /\ pc[h] = "wait100"
  /\ Drain(m_fd[h], n)
  /\ LET answers == Received(m_fd[h], n)
     IN  IF ~Malformed(answers) /\ answers[n].code = "100"
           THEN pc' = [pc EXCEPT ![h] = "body"] /\ UNCHANGED <<avail, taken, result>>
           ELSE Failure(h)
  /\ UNCHANGED <<open, m_fd, kind, m_data, unsent, round, sends, tries, got>>

(* Fault: the socket is freed but not taken out of m_taken.                 *)
Success_StillTaken(h) ==
  /\ avail' = avail \cup {m_fd[h]}
  /\ UNCHANGED taken
  /\ pc' = [pc EXCEPT ![h] = "ready"]
  /\ result' = [result EXCEPT ![h] = "ok"]
  /\ sends' = [sends EXCEPT ![h] = @ + 1]

Success(h) ==
  /\ PutBack(m_fd[h])
  /\ pc' = [pc EXCEPT ![h] = "ready"]
  /\ result' = [result EXCEPT ![h] = "ok"]
  /\ sends' = [sends EXCEPT ![h] = @ + 1]

(* read_reply into the handler's Reply, then release_socket.                *)
ReadReply(h, n) ==
  /\ pc[h] = "read"
  /\ Drain(m_fd[h], n)
  /\ LET answers == Received(m_fd[h], n)
     IN  IF Malformed(answers)
           THEN /\ got' = [got EXCEPT ![h] = @ \o BeforeMalformed(answers)]
                /\ Failure(h)
                /\ UNCHANGED sends
           ELSE /\ got' = [got EXCEPT ![h] = @ \o answers]
                /\ Success(h)
  /\ UNCHANGED <<open, m_fd, kind, m_data, unsent, round, tries>>

(* End of file: READ_ERROR, even for a reply that would end with it.        *)
ReadFails(h) ==
  /\ pc[h] \in {"wait100", "read"}
  /\ toClient[m_fd[h]] = <<>>
  /\ peer[m_fd[h]] = "closed"
  /\ Failure(h)
  /\ UNCHANGED <<open, m_fd, kind, m_data, unsent, round, sends, tries, got, wireVars>>

-----------------------------------------------------------------------------
(* The backend, one action per thing it may do with the next unit it reads. *)
Reply(s, answers) == toClient' = [toClient EXCEPT ![s] = @ \o answers]

(* The parser rejects a malformed answer where it goes wrong; what follows  *)
(* of it, if it has not been read by then, stays in the socket.             *)
Answering(u) ==
  {<<Answer(u, "final")>>} \cup
  (IF "malformed" \in Fault
     THEN {<<Answer(u, "bad")>>, <<Answer(u, "bad"), Answer(u, "bad")>>}
     ELSE {})

Consume(s, u) ==
  /\ peer[s] = "open"
  /\ toBackend[s] # <<>>
  /\ u = Head(toBackend[s])
  /\ toBackend' = [toBackend EXCEPT ![s] = Tail(@)]
  /\ UNCHANGED <<poolVars, clientVars, peer>>

AnswersWhole(s, u) ==
  /\ Consume(s, u)
  /\ awaits[s] = NoUnit
  /\ u.part = "whole"
  /\ \E answers \in Answering(u) : Reply(s, answers)
  /\ UNCHANGED awaits

(* A head: the backend asks for the rest if it is expected to, or, "early", *)
(* answers without having seen it, and skips it.                            *)
TakesHead(s, u) ==
  /\ Consume(s, u)
  /\ awaits[s] = NoUnit
  /\ u.part # "whole"
  /\ IF u.kind = "expect"
       THEN \/ /\ Reply(s, <<Answer(u, "100")>>)
               /\ awaits' = [awaits EXCEPT ![s] = u]
            \/ /\ "early" \in Fault
               /\ Reply(s, <<Answer(u, "final")>>)
               /\ awaits' = [awaits EXCEPT ![s] = [u EXCEPT !.part = "rest"]]
       ELSE UNCHANGED toClient /\ awaits' = [awaits EXCEPT ![s] = u]

(* Whatever comes next is the rest of that request.                         *)
TakesRest(s, u) ==
  /\ Consume(s, u)
  /\ awaits[s] # NoUnit
  /\ IF awaits[s].part = "rest"
       THEN UNCHANGED toClient
       ELSE \E answers \in Answering(awaits[s]) : Reply(s, answers)
  /\ awaits' = [awaits EXCEPT ![s] = NoUnit]

Close(s) ==
  /\ "close" \in Fault
  /\ s \in open
  /\ peer[s] = "open"
  /\ peer' = [peer EXCEPT ![s] = "closed"]
  /\ toBackend' = [toBackend EXCEPT ![s] = <<>>]
  /\ UNCHANGED <<poolVars, clientVars, toClient, awaits>>

-----------------------------------------------------------------------------
HandlerStep(h) ==
  \/ \E f \in Socket : StartSend(h, f)
  \/ StartSendFails(h)
  \/ WriteFails(h)
  \/ \E n \in 1..MaxSends : Write(h, n)
  \/ WriteBody(h)
  \/ pc[h] = "wait100" /\ \E n \in 1..Len(toClient[m_fd[h]]) : Wait100(h, n)
  \/ pc[h] = "read" /\ \E n \in 1..Len(toClient[m_fd[h]]) : ReadReply(h, n)
  \/ ReadFails(h)

BackendStep(s) ==
  \E u \in Units : AnswersWhole(s, u) \/ TakesHead(s, u) \/ TakesRest(s, u)

Next ==
  \/ \E h \in Handler : HandlerStep(h) \/ EndRequest(h)
  \/ \E h \in Handler, k \in Kind : NewRequest(h, k)
  \/ \E s \in Socket : BackendStep(s) \/ Close(s)

Spec == Init /\ [][Next]_vars

(* Handlers run when their descriptor is ready (EventLoop), and the backend *)
(* answers what it has read or closes the connection.                       *)
FairSpec ==
  /\ Spec
  /\ \A h \in Handler : WF_vars(HandlerStep(h))
  /\ \A s \in Socket : WF_vars(BackendStep(s))

-----------------------------------------------------------------------------
Own(h) == [who |-> h, round |-> round[h], code |-> "final"]

(* No two handlers are sending on the same socket.                          *)
Exclusive ==
  \A h, i \in Handler :
    pc[h] \in InSend /\ pc[i] \in InSend /\ m_fd[h] = m_fd[i] => h = i

(* m_taken is the sockets of the sends in progress: every path out of       *)
(* Client::send returns its socket, and nothing returns another's.          *)
TakenInUse == taken = {m_fd[h] : h \in {i \in Handler : pc[i] \in InSend}}

(* A send that returned true has read the answer to its own request, once.  *)
RepliesMatch ==
  \A h \in Handler :
    result[h] = "ok" => got[h] = [i \in 1..sends[h] |-> Own(h)]

(* A backend that answers or closes lets every send finish.                 *)
SendsEnd == \A h \in Handler : (pc[h] \in InSend) ~> (pc[h] \notin InSend)

(* Client::send uses the pool only as get and put allow.                    *)
RefinesPool == PoolSpec
=============================================================================
