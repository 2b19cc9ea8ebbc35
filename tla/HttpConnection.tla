--------------------------- MODULE HttpConnection ---------------------------
(***************************************************************************)
(* One HTTP connection: Connection::exec and process (connection.cpp)      *)
(* around Parser (parser.cpp).  The client pipelines the messages of a     *)
(* script; a message is one unit, its head, or two, a head and the rest of *)
(* its body.  Each read returns any prefix of what has arrived, so message *)
(* boundaries and read boundaries are unrelated.                           *)
(*                                                                         *)
(* What a message is like is a set of features: "body", "close" (a header  *)
(* Connection: Close), "http10", "long" (its URI), "large" (its            *)
(* Content-Length), "expect" (100-continue), "upgrade", "malformed".       *)
(***************************************************************************)
EXTENDS Naturals, Sequences

CONSTANTS
  Request,      \* the feature sets messages are made of
  MaxPipeline   \* bound: messages per connection

ASSUME RequestAssumption ==
  Request \subseteq SUBSET {"body", "close", "http10", "long", "large",
                            "expect", "upgrade", "malformed"}
ASSUME MaxPipelineAssumption == MaxPipeline \in Nat \ {0}

VARIABLES
  script,     \* the messages the client sends
  next,       \* the next message and part of it that the client sends
  clientOpen, \* the client has its end open
  inbound,    \* units that have arrived and are not yet read
  delivered,  \* replies the client has got
  buf,        \* what is left to parse of the last read
  partOf,     \* the message whose rest http_parser expects, or 0
  dead,       \* http_parser is in its error state, for good
  m_error,    \* Parser::m_error
  m_request,  \* the messages whose data m_request holds
  m_reply,    \* the messages whose replies m_reply has been filled with
  current,    \* the message being processed, or 0
  status,     \* the status of m_reply
  http_minor, \* m_reply's m_http_minor; the major version is always 1
  m_state,    \* Connection::m_state
  pc,         \* where exec is
  handled     \* history: the calls of request handlers

clientVars == <<script, next, clientOpen>>
parserVars == <<partOf, dead, m_error>>
messageVars == <<m_request, m_reply, current, status, http_minor>>
vars == <<clientVars, inbound, delivered, buf, parserVars, messageVars,
          m_state, pc, handled>>

Messages == 1..MaxPipeline
Units == Messages \X {1, 2}

Pipelines == UNION {[1..n -> Request] : n \in Messages}

TypeOK ==
  /\ script \in Pipelines
  /\ next \in (1..MaxPipeline + 1) \X {1, 2}
  /\ clientOpen \in BOOLEAN
  /\ inbound \in Seq(Units)
  /\ delivered \in Seq([msg : Messages, request : SUBSET Messages,
                        reply : SUBSET Messages, status : {200, 400, 413, 414},
                        minor : {0, 1}, complete : BOOLEAN])
  /\ buf \in Seq(Units)
  /\ partOf \in 0..MaxPipeline
  /\ dead \in BOOLEAN
  /\ m_error \in {"OK", "NEED_100_CONTINUE", "BODY_TOO_LARGE", "URI_TOO_LONG",
                  "HANDLER_FAILURE"}
  /\ m_request \subseteq Messages
  /\ m_reply \subseteq Messages
  /\ current \in 0..MaxPipeline
  /\ status \in {200, 400, 413, 414}
  /\ http_minor \in {0, 1}
  /\ m_state \in {"READY_FOR_DATA", "IO_ERROR", "PARSE_ERROR", "SHOULD_CLOSE"}
  /\ pc \in {"reading", "parsing", "processing", "sending", "halted"}
  /\ handled \in Seq([msg : Messages, request : SUBSET Messages,
                      reply : SUBSET Messages])

Init ==
  /\ script \in Pipelines
  /\ next = <<1, 1>>
  /\ clientOpen = TRUE
  /\ inbound = <<>>
  /\ delivered = <<>>
  /\ buf = <<>>
  /\ partOf = 0
  /\ dead = FALSE
  /\ m_error = "OK"
  /\ m_request = {}
  /\ m_reply = {}
  /\ current = 0
  /\ status = 200
  /\ http_minor = 1
  /\ m_state = "READY_FOR_DATA"
  /\ pc = "reading"
  /\ handled = <<>>

-----------------------------------------------------------------------------
(* The client.  One that expects a 100 before it sends the body may also    *)
(* lose patience; nothing makes it.                                         *)
Parts(m) == IF "body" \in script[m] THEN 2 ELSE 1

Withheld(u) ==
  /\ u[2] = 2
  /\ "expect" \in script[u[1]]
  /\ ~\E i \in 1..Len(delivered) : delivered[i].msg = u[1]

Send(u) ==
  /\ clientOpen
  /\ u[1] <= Len(script)
  /\ inbound' = Append(inbound, u)
  /\ next' = IF u[2] < Parts(u[1]) THEN <<u[1], 2>> ELSE <<u[1] + 1, 1>>
  /\ UNCHANGED <<script, clientOpen, delivered, buf, parserVars, messageVars,
                 m_state, pc, handled>>

ClientSends == ~Withheld(next) /\ Send(next)
ClientSendsUnasked == Withheld(next) /\ Send(next)

(* A client that goes away may take with it what has not been read.         *)
ClientCloses ==
  /\ clientOpen
  /\ clientOpen' = FALSE
  /\ inbound' \in {inbound, <<>>}
  /\ UNCHANGED <<script, next, delivered, buf, parserVars, messageVars,
                 m_state, pc, handled>>

-----------------------------------------------------------------------------
(* exec: a safe_read that returns data, or nothing any more.                *)
Read(n) ==
  /\ pc = "reading"
  /\ n \in 1..Len(inbound)
  /\ buf' = SubSeq(inbound, 1, n)
  /\ inbound' = SubSeq(inbound, n + 1, Len(inbound))
  /\ pc' = "parsing"
  /\ UNCHANGED <<clientVars, delivered, parserVars, messageVars, m_state, handled>>

ReadFails ==
  /\ pc = "reading"
  /\ inbound = <<>>
  /\ ~clientOpen
  /\ m_state' = "IO_ERROR"
  /\ pc' = "halted"
  /\ UNCHANGED <<clientVars, inbound, delivered, buf, parserVars, messageVars, handled>>

(* The unit at the head of buf is not what http_parser can take: it stops,  *)
(* and refuses everything from then on.  exec ignores add's PARSE_FAILURE.  *)
Invalid(u) ==
  \/ dead
  \/ "malformed" \in script[u[1]]
  \/ partOf # IF u[2] = 1 THEN 0 ELSE u[1]

ParseInvalid ==
  /\ pc = "parsing"
  /\ buf # <<>>
  /\ Invalid(Head(buf))
  /\ dead' = TRUE
  /\ buf' = <<>>
  /\ UNCHANGED <<clientVars, inbound, delivered, partOf, m_error, messageVars,
                 m_state, pc, handled>>

(* Headers of m and of what m_request holds already (after a reply that     *)
(* could not be sent) are one map, in which a later value replaces an       *)
(* earlier one.  Short URIs are taken to be short together.                 *)
Large(msgs) ==
  \E l \in msgs :
    /\ "large" \in script[l]
    /\ \A k \in msgs : script[k] \cap {"body", "large"} # {} => k <= l

(* Fault: only one of the two limits is remembered.                         *)
HeadError_Lost(m) ==
  IF \E l \in m_request \cup {m} : "expect" \in script[l] THEN "NEED_100_CONTINUE"
  ELSE IF "long" \in script[m] THEN "URI_TOO_LONG"
  ELSE m_error

(* add_url_fragment, then save_last_header for each header and at the end:  *)
(* a later error replaces an earlier one.                                   *)
HeadError(m) ==
  IF Large(m_request \cup {m}) THEN "BODY_TOO_LARGE"
  ELSE IF \E l \in m_request \cup {m} : "expect" \in script[l] THEN "NEED_100_CONTINUE"
  ELSE IF "long" \in script[m] THEN "URI_TOO_LONG"
  ELSE m_error

(* A head.  With an Upgrade header the message ends here, and the rest of   *)
(* the buffer is left unparsed.                                             *)
ParseHead ==
  /\ pc = "parsing"
  /\ buf # <<>>
  /\ LET u == Head(buf)  m == u[1]
         ends == Parts(m) = 1 \/ "upgrade" \in script[m]
     IN  /\ u[2] = 1
         /\ ~Invalid(u)
         /\ m_request' = m_request \cup {m}
         /\ m_error' = HeadError(m)
         /\ partOf' = IF ends THEN 0 ELSE m
         /\ current' = IF ends THEN m ELSE 0
         /\ pc' = IF ends THEN "processing" ELSE "parsing"
         /\ buf' = IF "upgrade" \in script[m] THEN <<>> ELSE Tail(buf)
  /\ UNCHANGED <<clientVars, inbound, delivered, dead, m_reply, status,
                 http_minor, m_state, handled>>

(* Fault: http_parser is stopped behind a message, and what followed it in  *)
(* the buffer is not parsed.                                                *)
ParseRest_DropsRest ==
  /\ pc = "parsing"
  /\ buf # <<>>
  /\ Head(buf)[2] = 2
  /\ ~Invalid(Head(buf))
  /\ partOf' = 0
  /\ current' = partOf
  /\ pc' = "processing"
  /\ buf' = <<>>
  /\ UNCHANGED <<clientVars, inbound, delivered, dead, m_error, m_request,
                 m_reply, status, http_minor, m_state, handled>>

(* The rest of a body.                                                      *)
ParseRest ==
  /\ pc = "parsing"
  /\ buf # <<>>
  /\ Head(buf)[2] = 2
  /\ ~Invalid(Head(buf))
  /\ partOf' = 0
  /\ current' = partOf
  /\ pc' = "processing"
  /\ buf' = Tail(buf)
  /\ UNCHANGED <<clientVars, inbound, delivered, dead, m_error, m_request,
                 m_reply, status, http_minor, m_state, handled>>

-----------------------------------------------------------------------------
Status(error) ==
  CASE error = "BODY_TOO_LARGE" -> 413
    [] error = "URI_TOO_LONG" -> 414
    [] error \in {"NEED_100_CONTINUE", "HANDLER_FAILURE"} -> 400

(* The http version is the parser's, of the current message; the header is  *)
(* m_request's.                                                             *)
ShouldClose ==
  \/ "http10" \in script[current]
  \/ \E m \in m_request : "close" \in script[m]


(* process, up to its first yield: the error reply or the handler's, the    *)
(* version of a reply to an HTTP/1.0 request, and whether the connection    *)
(* ends.                                                                    *)
Process ==
  /\ pc = "processing"
  /\ m_reply' = m_reply \cup {current}
  /\ http_minor' = IF "http10" \in script[current] THEN 0 ELSE http_minor
  /\ IF m_error # "OK"
       THEN status' = Status(m_error) /\ UNCHANGED handled
       ELSE /\ status' = 200
            /\ handled' = Append(handled, [msg |-> current, request |-> m_request,
                                           reply |-> m_reply'])
  /\ m_state' = IF ShouldClose THEN "SHOULD_CLOSE"
                ELSE IF m_error # "OK" THEN "PARSE_ERROR" ELSE m_state
  /\ pc' = "sending"
  /\ UNCHANGED <<clientVars, inbound, delivered, buf, parserVars, m_request, current>>

Deliver(whole) ==
  delivered' =
    IF clientOpen
      THEN Append(delivered, [msg |-> current, request |-> m_request,
                              reply |-> m_reply, status |-> status,
                              minor |-> http_minor, complete |-> whole])
      ELSE delivered

(* Fault: m_reply is not reset.                                             *)
SendReply_KeepsReply ==
  /\ pc = "sending"
  /\ Deliver(TRUE)
  /\ m_request' = {}
  /\ m_error' = "OK"
  /\ partOf' = 0
  /\ dead' = FALSE
  /\ current' = 0
  /\ pc' = "parsing"
  /\ UNCHANGED <<clientVars, inbound, buf, m_reply, status, http_minor, m_state, handled>>

(* Fault: m_parser is not reset.                                            *)
SendReply_KeepsError ==
  /\ pc = "sending"
  /\ Deliver(TRUE)
  /\ m_request' = {}
  /\ m_reply' = {}
  /\ current' = 0
  /\ pc' = "parsing"
  /\ UNCHANGED <<clientVars, inbound, buf, parserVars, status, http_minor, m_state, handled>>

(* Fault: m_request is not reset.                                           *)
SendReply_KeepsRequest ==
  /\ pc = "sending"
  /\ Deliver(TRUE)
  /\ m_reply' = {}
  /\ m_error' = "OK"
  /\ partOf' = 0
  /\ dead' = FALSE
  /\ current' = 0
  /\ pc' = "parsing"
  /\ UNCHANGED <<clientVars, inbound, buf, m_request, status, http_minor, m_state, handled>>

(* send and the resets after it; parsing goes on behind the message.  The   *)
(* headers, body and status of m_reply are reset, its version is not.  What *)
(* is written to a closed client may go nowhere without an error.           *)
SendReply ==
  /\ pc = "sending"
  /\ Deliver(TRUE)
  /\ m_request' = {}
  /\ m_reply' = {}
  /\ m_error' = "OK"
  /\ partOf' = 0
  /\ dead' = FALSE
  /\ current' = 0
  /\ status' = 200
  /\ pc' = "parsing"
  /\ UNCHANGED <<clientVars, inbound, buf, http_minor, m_state, handled>>

(* Fault: the state is stored as the parser's error.                        *)
SendFails_WrongField ==
  /\ pc = "sending"
  /\ Deliver(FALSE)
  /\ m_error' = "IO_ERROR"
  /\ dead' = (script[current] \cap {"close", "http10"} # {})
  /\ current' = 0
  /\ pc' = "parsing"
  /\ UNCHANGED <<clientVars, inbound, buf, partOf, m_request, m_reply, status,
                 http_minor, m_state, handled>>

(* send fails, because the client's end is closed or a file of the reply is *)
(* not sent whole: nothing is reset, and http_parser takes no further       *)
(* message if this one was to be the last.                                  *)
SendFails ==
  /\ pc = "sending"
  /\ Deliver(FALSE)
  /\ m_state' = "IO_ERROR"
  /\ m_error' = "HANDLER_FAILURE"
  /\ dead' = (script[current] \cap {"close", "http10"} # {})
  /\ current' = 0
  /\ pc' = "parsing"
  /\ UNCHANGED <<clientVars, inbound, buf, partOf, m_request, m_reply, status,
                 http_minor, handled>>

(* add has returned: exec reads again, or returns HALT and the Connection   *)
(* is deleted.                                                              *)
AfterAdd ==
  /\ pc = "parsing"
  /\ buf = <<>>
  /\ pc' = IF m_state = "READY_FOR_DATA" THEN "reading" ELSE "halted"
  /\ UNCHANGED <<clientVars, inbound, delivered, buf, parserVars, messageVars,
                 m_state, handled>>

-----------------------------------------------------------------------------
ServerStep ==
  \/ \E n \in 1..Len(inbound) : Read(n)
  \/ ReadFails
  \/ ParseInvalid
  \/ ParseHead
  \/ ParseRest
  \/ Process
  \/ SendReply
  \/ SendFails
  \/ AfterAdd

Next == ClientSends \/ ClientSendsUnasked \/ ClientCloses \/ ServerStep

Spec == Init /\ [][Next]_vars

(* The event loop resumes a coroutine whose socket is ready (EventLoop),    *)
(* and the client sends what it has to send.                                *)
FairSpec == Spec /\ WF_vars(ServerStep) /\ WF_vars(ClientSends)

-----------------------------------------------------------------------------
(* After a reply that was cut off the connection is about to end; until the *)
(* end of the buffer what follows is made of what was left over.            *)
Unbroken == {i \in 1..Len(delivered) : \A j \in 1..i - 1 : delivered[j].complete}

(* Replies come in the order of the requests, one for each, however the     *)
(* requests were cut up by the reads.  Only what shares a buffer with an    *)
(* Upgrade may be skipped.                                                  *)
Upgrades == \E m \in 1..Len(script) : "upgrade" \in script[m]

InOrder ==
  \A i \in 1..Len(delivered) :
    IF Upgrades
      THEN \A j \in 1..i-1 : delivered[j].msg < delivered[i].msg
      ELSE delivered[i].msg = i

(* A reply is made of one request, its own: its headers, body and status of *)
(* no other.  Its HTTP version is made of all up to that one: although      *)
(* process says "reset objects for next request", it is 1.0 for good once   *)
(* an HTTP/1.0 request has been answered.                                   *)
Answered10(i) == \E j \in 1..i : "http10" \in script[delivered[j].msg]

Isolated ==
  \A i \in Unbroken :
    /\ delivered[i].request = {delivered[i].msg}
    /\ delivered[i].reply = {delivered[i].msg}
    /\ delivered[i].minor = IF Answered10(i) THEN 0 ELSE 1

(* An error belongs to the request that has it: it decides that request's   *)
(* status, and the requests before and after go to their handlers.          *)
StatusIsOwn ==
  \A i \in Unbroken :
    LET features == script[delivered[i].msg]
    IN  /\ delivered[i].status = 413 <=> "large" \in features
        /\ delivered[i].status = 200 <=> features \cap {"large", "long", "expect"} = {}
        /\ delivered[i].status = 414 =>
             "long" \in features /\ features \cap {"large", "expect"} = {}

(* A handler is given a whole request, without error, that is its own, and  *)
(* a Reply with headers, a body and a status of no other; only the version, *)
(* which a handler cannot read, may be left of one (Isolated).              *)
HandlersSeeSound ==
  \A i \in 1..Len(handled) :
    /\ handled[i].request = {handled[i].msg}
    /\ handled[i].reply = {handled[i].msg}
    /\ script[handled[i].msg] \cap {"large", "long", "expect", "malformed"} = {}


Sent(m) == m <= Len(script) /\ next[1] > m

AnsweredOrEnded(m) ==
  \/ \E i \in 1..Len(delivered) : delivered[i].msg = m
  \/ pc = "halted"
  \/ ~clientOpen

(* A request that was sent is answered, or the connection ends, unless      *)
(* something malformed or an Upgrade was sent before it.                    *)
AllAnswered ==
  \A m \in Messages :
    (Sent(m) /\ \A l \in 1..m : script[l] \cap {"malformed", "upgrade"} = {})
      ~> AnsweredOrEnded(m)

(* A client that expects a 100-continue is asked for its body.              *)
ExpectIsMet ==
  \A m \in Messages :
    (Sent(m - 1) \/ m = 1) /\ next = <<m, 2>> /\ Withheld(next)
      ~> (~Withheld(next) \/ pc = "halted" \/ ~clientOpen)
=============================================================================
