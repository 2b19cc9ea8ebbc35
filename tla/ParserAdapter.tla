--------------------------- MODULE ParserAdapter ----------------------------
(***************************************************************************)
(* http::Parser (parser.cpp) on top of HttpParser: the callbacks put the   *)
(* fragments of a message together in m_request or m_reply, and callback   *)
(* hands the message on.                                                   *)
(***************************************************************************)
EXTENDS HttpParser, SequencesExt

CONSTANTS
  MaxUri,    \* MAX_URI_LENGTH
  MaxUpload  \* MAX_UPLOAD_SIZE

ASSUME MaxUriAssumption == MaxUri \in Nat
ASSUME MaxUploadAssumption == MaxUpload \in Nat

VARIABLES
  msg,       \* Parser's m_header_*, m_error, and the message being put together
  delivered  \* history: the messages callback has handed on

adapterVars == <<parserVars, msg, delivered>>

NoHeaders == [name \in {} |-> <<>>]
Fresh == [key |-> <<>>, val |-> <<>>, gotval |-> FALSE, error |-> "OK",
          url |-> <<>>, headers |-> NoHeaders, body |-> <<>>]

AdapterInit(type) ==
  /\ Init(type)
  /\ msg = Fresh
  /\ delivered = <<>>

-----------------------------------------------------------------------------
Header(headers, name) == IF name \in DOMAIN headers THEN headers[name] ELSE <<>>
ContentLengthName == <<"Content-", "Length">>

(* atol: the number the value begins with.                                  *)
Atol(value) ==
  LET n == CHOOSE n \in 0..Len(value) :
             /\ \A i \in 1..n : value[i] \in Digit
             /\ n < Len(value) => value[n + 1] \notin Digit
      number[i \in 0..n] == IF i = 0 THEN 0 ELSE number[i - 1] * 10 + NumeralValue[value[i]]
  IN  number[n]

(* Fault: the value is not cleared when the header has been saved.          *)
Saved_KeepsValue(m) ==
  IF ~m.gotval THEN m
  ELSE [m EXCEPT !.headers = [n \in DOMAIN @ \cup {m.key} |-> IF n = m.key THEN m.val ELSE @[n]],
                 !.gotval = FALSE, !.key = <<>>]

(* add_header for what there is of a header: a later one of the same name   *)
(* replaces an earlier one.                                                 *)
Saved(m) ==
  IF ~m.gotval THEN m
  ELSE [m EXCEPT !.headers = [n \in DOMAIN @ \cup {m.key} |-> IF n = m.key THEN m.val ELSE @[n]],
                 !.gotval = FALSE, !.key = <<>>, !.val = <<>>]

(* save_last_header: then, for a request, the limit and the 100-continue.   *)
(* No byte is a sign, which http_parser refuses in a Content-Length.        *)
TooLarge(sz) == sz < 0 \/ sz > MaxUpload

SaveLastHeader(mode, m) ==
  LET saved == Saved(m)
  IN  IF mode = "RESPONSE" THEN saved
      ELSE IF TooLarge(Atol(Header(saved.headers, ContentLengthName)))
        THEN [saved EXCEPT !.error = "BODY_TOO_LARGE"]
      ELSE IF Header(saved.headers, <<"Expect">>) = <<"100-continue">>
        THEN [saved EXCEPT !.error = "NEED_100_CONTINUE"]
      ELSE saved

AddUrlFragment(mode, m, data) ==
  IF mode = "RESPONSE" \/ m.error = "URI_TOO_LONG" THEN m
  ELSE IF Len(m.url) + Len(data) > MaxUri THEN [m EXCEPT !.error = "URI_TOO_LONG"]
  ELSE [m EXCEPT !.url = @ \o data]

AddBodyFragment(m, data) ==
  IF m.error = "BODY_TOO_LARGE" THEN m ELSE [m EXCEPT !.body = @ \o data]

(* The data callbacks, and on_headers_complete.                             *)
Gather(mode, m, call) ==
  CASE call[1] = "url" -> AddUrlFragment(mode, m, call[2])
    [] call[1] = "header_field" ->
         LET s == SaveLastHeader(mode, m) IN [s EXCEPT !.key = @ \o call[2]]
    [] call[1] = "header_value" -> [m EXCEPT !.val = @ \o call[2], !.gotval = TRUE]
    [] call[1] = "body" -> AddBodyFragment(m, call[2])
    [] call[1] = "headers_complete" -> SaveLastHeader(mode, m)
    [] call[1] = "message_complete" -> m

(* And what a list of calls makes of a message.                             *)
Gathered(mode, m, list) == FoldLeft(LAMBDA n, call : Gather(mode, n, call), m, list)

(* callback.  Of the methods with no Verb the verb stays as reset left it.  *)
Handed(m, p) ==
  [url |-> m.url, headers |-> m.headers, body |-> m.body, error |-> m.error,
   verb |-> IF p.method = "POST" THEN "POST" ELSE "GET",
   status |-> p.status_code]

(* The callbacks of one byte or one end of a buffer, in their order.  When  *)
(* a request is answered (ok), everything is reset for the next; when not,  *)
(* that is an error.  A reply stays in its Reply.                           *)
Adapt(ok) ==
  LET m == Gathered(parser.type, msg, calls')
      complete == \E i \in 1..Len(calls') : calls'[i] = MessageComplete
  IN  /\ delivered' = IF complete THEN Append(delivered, Handed(m, parser)) ELSE delivered
      /\ msg' = IF ~complete \/ parser.type = "RESPONSE" THEN m
                ELSE IF ok THEN Fresh
                ELSE [m EXCEPT !.error = "HANDLER_FAILURE"]

(* Parser::add, one byte at a time.                                         *)
AddByte(b, ok) == (Execute(b, ok) \/ Ignore) /\ Adapt(ok)
EndAdd == NextBuffer /\ Adapt(TRUE)

(* What the message is with the bytes that are still behind a mark.         *)
Flushed ==
  IF DOMAIN marks = {} THEN msg
  ELSE LET k == CHOOSE k \in DOMAIN marks : TRUE IN Gather(parser.type, msg, <<k, marks[k]>>)
=============================================================================
