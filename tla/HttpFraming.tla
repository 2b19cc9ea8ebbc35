---------------------------- MODULE HttpFraming -----------------------------
(***************************************************************************)
(* A byte stream through http::Parser, twice: once cut into buffers at     *)
(* arbitrary places, as the reads of Connection::exec and of               *)
(* Client::read_reply cut it, and once in a single buffer.                 *)
(***************************************************************************)
EXTENDS ParserAdapter

CONSTANT
  Input  \* records of a type, the bytes, and the messages they are made of,
         \* or no messages where the bytes are not those of whole messages

ASSUME InputAssumption ==
  \A s \in Input : s.type \in {"REQUEST", "RESPONSE"} /\ s.bytes \in Seq(Byte)

VARIABLES
  input,    \* the stream
  pos,      \* bytes of it that have been parsed
  wholeParser, wholeMarks, wholeRunning, wholeCalls, wholeMsg, wholeDelivered

Whole == INSTANCE ParserAdapter
  WITH parser <- wholeParser, marks <- wholeMarks, running <- wholeRunning,
       calls <- wholeCalls, msg <- wholeMsg, delivered <- wholeDelivered

wholeVars == <<wholeParser, wholeMarks, wholeRunning, wholeCalls, wholeMsg, wholeDelivered>>
vars == <<adapterVars, input, pos, wholeVars>>

StreamInit ==
  /\ input \in Input
  /\ pos = 0
  /\ AdapterInit(input.type)
  /\ Whole!AdapterInit(input.type)

Parse ==
  /\ pos < Len(input.bytes)
  /\ pos' = pos + 1
  /\ AddByte(input.bytes[pos'], TRUE)
  /\ Whole!AddByte(input.bytes[pos'], TRUE)
  /\ UNCHANGED input

(* The end of a read, anywhere; and of the last one, at the end.            *)
EndRead == EndAdd /\ UNCHANGED <<input, pos, wholeVars>>

StreamNext == Parse \/ EndRead

StreamSpec == StreamInit /\ [][StreamNext]_vars /\ WF_vars(Parse)

-----------------------------------------------------------------------------
(* How the stream is cut into reads makes no difference: what has been      *)
(* handed on and what is there of the next message are the same as in one   *)
(* buffer, for any stream up to the byte where execute stops, if it does.   *)
(* Of a message with an error only the error counts: how much there is of a *)
(* long URL does depend on the reads.  Behind an Upgrade they may differ:   *)
(* what is in the same buffer is lost, what comes in the next is parsed.    *)
Seen(m) == IF m.error = "OK" THEN m ELSE [m EXCEPT !.url = <<>>]

UpgradeSeen == \E i \in 1..Len(input.bytes) : input.bytes[i] \in {"grade", "CONNECT"}

CutsDoNotMatter ==
  UpgradeSeen \/
    /\ parser = wholeParser
    /\ Len(delivered) = Len(wholeDelivered)
    /\ \A i \in 1..Len(delivered) : Seen(delivered[i]) = Seen(wholeDelivered[i])
    /\ parser.http_errno = "OK" => Seen(Flushed) = Seen(Whole!Flushed)

(* What is handed on is what was sent, message by message: the verb, URL,   *)
(* headers, body and status of each, nothing of one in another.             *)
RoundTrip ==
  input.messages # <<>> => IsPrefix(delivered, input.messages)

(* The length that http_parser frames a body by and the Content-Length that *)
(* save_last_header compares with its limit and handlers see are read from  *)
(* the same header by two pieces of code.  A value that is not refused is   *)
(* digits and spaces; http_parser frames the body by all of the digits, as  *)
(* it skips the spaces, and atol stops at the first space.  So unless there *)
(* is a space between two digits both read the same number, and no request  *)
(* has a body over the limit; where there is one, they do not: of "1 2"     *)
(* http_parser makes 12 and atol 1.  Left out are a value that is folded,   *)
(* of which http_parser takes the last line and atol the first digits,      *)
(* numbers that 64 bits do not hold, an empty value, and any message with   *)
(* a Transfer-Encoding.  This is said of the streams of a run only, in      *)
(* which each line of a header has a colon: of Content- on a line without   *)
(* one, and Length on the next, Parser makes a name that http_parser has    *)
(* not seen, as on_header_field only appends.                               *)
Folded ==
  \E i \in 1..Len(input.bytes) - 1 :
    input.bytes[i] = "LF" /\ input.bytes[i + 1] \in Blank

Spaced(value) ==
  \E i, j, k \in 1..Len(value) :
    i < j /\ j < k /\ value[i] \in Digit /\ value[j] = "SP" /\ value[k] \in Digit

OneLength(m) ==
  LET written == Header(m.headers, ContentLengthName)
      digits == SelectSeq(written, LAMBDA b : b # "SP")
  IN  /\ m.error = "OK"
      /\ written # <<>>
      /\ <<"Transfer-", "Encoding">> \notin DOMAIN m.headers
      /\ Atol(digits) < Width
      => /\ \A i \in 1..Len(digits) : digits[i] \in Digit
         /\ Len(m.body) = Atol(digits)
         /\ ~Spaced(written) => Len(m.body) = Atol(written)
         /\ ~Spaced(written) /\ input.type = "REQUEST" => Len(m.body) <= MaxUpload

LengthAsWritten ==
  UpgradeSeen \/ Folded \/ \A i \in 1..Len(delivered) : OneLength(delivered[i])

(* Every message that was sent whole is handed on.                          *)
AllDelivered ==
  input.messages # <<>> ~> delivered = input.messages
=============================================================================
