----------------------------- MODULE HttpParser -----------------------------
(***************************************************************************)
(* http_parser_execute (http_parser.c): one action per state, or group of  *)
(* states, of its switch, for one byte of a buffer.  Bytes are classes of  *)
(* characters; header names and values that the parser knows are two       *)
(* bytes, so that a buffer may end inside them, and a method is one.  The  *)
(* length arithmetic wraps at Width, for 2^64.  Body bytes are taken one   *)
(* at a time.  All errors are one.                                         *)
(***************************************************************************)
EXTENDS Integers, Sequences, FiniteSets

CONSTANTS
  Width,     \* content_length is a number modulo Width
  MaxHeader  \* HTTP_MAX_HEADER_SIZE

ASSUME WidthAssumption == Width \in Nat /\ Width > 17
ASSUME MaxHeaderAssumption == MaxHeader \in Nat \ {0}

VARIABLES
  parser,  \* the http_parser struct
  marks,   \* for each mark that is set, the bytes since
  running, \* execute has not returned before the end of the buffer
  calls    \* the callbacks that the last byte caused, with their data

parserVars == <<parser, marks, running, calls>>

Kinds == {"url", "header_field", "header_value", "body"}

Numeral == <<"0", "1", "2", "3", "4", "5", "6", "7", "8", "9", "a">>
Digit == {Numeral[i] : i \in 1..10}
NumeralValue == [d \in Digit \cup {"a"} |-> (CHOOSE i \in 1..11 : Numeral[i] = d) - 1]

Method == {"GET", "POST", "CONNECT"}
Alpha == Method \cup {"H", "T", "P", "a", "Conn", "ection", "Length", "Encoding",
                      "Up", "grade", "chun", "ked", "alive", "cl", "ose", "Expect"}
Token == Alpha \cup Digit \cup {"Content-", "Transfer-", "keep-", "100-continue", "#", "*", "."}
UrlByte == (Token \ {"#"}) \cup {"/", ":", "@", ";"}
UserInfo == UrlByte \ {"/", "@"}
Eol == {"CR", "LF"}
Blank == {"SP", "TAB"}
Byte == UrlByte \cup Eol \cup Blank \cup {"#", "?", "NUL", "HIGH"}

(* unhex has 128 entries for 256 characters: the high ones are zeros.       *)
Hex == [d \in Digit \cup {"a", "HIGH"} |-> IF d = "HIGH" THEN 0 ELSE NumeralValue[d]]

(* parse_url_char: from a state, with one of these bytes, to a state.       *)
Server == {"server_start", "server", "server_with_at"}
UrlMoves ==
  {<<"spaces_before_url", {"/", "*"}, "path">>,
   <<"spaces_before_url", Alpha, "schema">>,
   <<"schema", Alpha, "schema">>,
   <<"schema", {":"}, "schema_slash">>,
   <<"schema_slash", {"/"}, "schema_slash_slash">>,
   <<"schema_slash_slash", {"/"}, "server_start">>,
   <<"server_start", {"@"}, "server_with_at">>,
   <<"server", {"@"}, "server_with_at">>,
   <<"path", UrlByte, "path">>,
   <<"path", {"?"}, "query_string_start">>,
   <<"path", {"#"}, "fragment_start">>,
   <<"fragment_start", UrlByte \cup {"?"}, "fragment">>,
   <<"fragment_start", {"#"}, "fragment_start">>,
   <<"fragment", UrlByte \cup {"?", "#"}, "fragment">>}
  \cup {<<s, {"/"}, "path">> : s \in Server}
  \cup {<<s, {"?"}, "query_string_start">> : s \in Server}
  \cup {<<s, UserInfo, "server">> : s \in Server}
  \cup {<<s, UrlByte \cup {"?"}, "query_string">> : s \in {"query_string_start", "query_string"}}
  \cup {<<s, {"#"}, "fragment_start">> : s \in {"query_string_start", "query_string"}}

(* What else only moves: the literal HTTP/, the text of a status, the end   *)
(* of the first line, chunk parameters, and what follows a last message.    *)
LineMoves ==
  {<<"dead", Eol, "dead">>,
   <<"http_start", {"SP"}, "http_start">>,
   <<"http_start", {"H"}, "H">>,
   <<"H", {"T"}, "HT">>,
   <<"HT", {"T"}, "HTT">>,
   <<"HTT", {"P"}, "HTTP">>,
   <<"HTTP", {"/"}, "first_http_major">>,
   <<"status", Byte \ Eol, "status">>,
   <<"status", {"CR"}, "line_almost_done">>,
   <<"status", {"LF"}, "header_field_start">>,
   <<"line_almost_done", {"LF"}, "header_field_start">>,
   <<"chunk_parameters", Byte \ {"CR"}, "chunk_parameters">>,
   <<"chunk_parameters", {"CR"}, "chunk_size_almost_done">>}

EndableUrl == {"server", "server_with_at", "path", "query_string_start",
               "query_string", "fragment_start", "fragment"}
UrlStates == EndableUrl \cup {"schema", "schema_slash", "schema_slash_slash", "server_start"}
LineStates == {"dead", "http_start", "H", "HT", "HTT", "HTTP", "status",
               "line_almost_done", "chunk_parameters"}
BodyStates == {"chunk_data", "chunk_data_almost_done", "chunk_data_done",
               "body_identity", "body_identity_eof"}
ChunkStates == {"chunk_size_start", "chunk_size", "chunk_parameters",
                "chunk_size_almost_done", "chunk_data", "chunk_data_almost_done",
                "chunk_data_done"}
States == UrlStates \cup LineStates \cup BodyStates \cup ChunkStates \cup
  {"start", "method", "spaces_before_url", "first_http_major", "http_major",
   "first_http_minor", "http_minor", "first_status_code", "status_code",
   "header_field_start", "header_field", "header_value_start", "header_value",
   "header_value_lws", "header_almost_done", "headers_almost_done"}

(* header_state: what is being matched, and whether it is matched whole.    *)
KnownNames == {"connection", "content_length", "transfer_encoding", "upgrade"}
KnownValues == {"chunked", "keep_alive", "close"}
Parts == [connection |-> <<"Conn", "ection">>, content_length |-> <<"Content-", "Length">>,
          transfer_encoding |-> <<"Transfer-", "Encoding">>, upgrade |-> <<"Up", "grade">>,
          chunked |-> <<"chun", "ked">>, keep_alive |-> <<"keep-", "alive">>,
          close |-> <<"cl", "ose">>]
ValueOf == [chunked |-> "transfer_encoding", keep_alive |-> "connection", close |-> "connection"]
HeaderStates == {"general"} \cup KnownNames \cup KnownValues
General == <<"general", TRUE>>

(* struct http_parser.                                                      *)
Parsers ==
  [type : {"REQUEST", "RESPONSE"}, state : States,
   header_state : HeaderStates \X BOOLEAN,
   flags : SUBSET {"CHUNKED", "KEEP_ALIVE", "CLOSE", "TRAILING", "UPGRADE"},
   content_length : 0..Width - 1, nread : Nat, major : 0..999, minor : 0..999,
   status_code : 0..999, method : Method \cup {"none", "H", "P", "T"},
   http_errno : {"OK", "ERROR"}]

-----------------------------------------------------------------------------
(* http_parser_init.  A type is "REQUEST" or "RESPONSE".                    *)
Initial(type) ==
  [type |-> type, state |-> "start", header_state |-> General, flags |-> {},
   content_length |-> 0, nread |-> 0, major |-> 0, minor |-> 0,
   status_code |-> 0, method |-> "none", http_errno |-> "OK"]

NoMarks == [k \in {} |-> <<>>]

Init(type) ==
  /\ parser = Initial(type)
  /\ marks = NoMarks
  /\ running = TRUE
  /\ calls = <<>>

(* The struct as a state's code sees it: the byte is counted.               *)
Now ==
  [parser EXCEPT !.nread = IF parser.state \in BodyStates THEN @ ELSE @ + 1]

(* One byte: the struct, MARK for the kinds in mark, CALLBACK_DATA for the  *)
(* kind in tell.  The byte belongs to the marks that stay.                  *)
Step(b, p, mark, tell) ==
  LET marked == [k \in DOMAIN marks \cup mark |->
                   IF k \in DOMAIN marks THEN marks[k] ELSE <<>>]
  IN  /\ parser' = p
      /\ marks' = [k \in DOMAIN marked \ tell |-> Append(marked[k], b)]
      /\ calls' = IF tell \cap DOMAIN marked = {} THEN <<>>
                  ELSE LET k == CHOOSE k \in tell : TRUE IN <<<<k, marked[k]>>>>
      /\ UNCHANGED running

To(b, s) == Step(b, [Now EXCEPT !.state = s], {}, {})
Tell(b, s, k) == Step(b, [Now EXCEPT !.state = s], {}, {k})

Fail ==
  /\ parser' = [Now EXCEPT !.http_errno = "ERROR"]
  /\ marks' = NoMarks
  /\ calls' = <<>>
  /\ running' = FALSE

(* Number c with a digit d appended, as 64 bit arithmetic has it, and the   *)
(* test for an overflow.                                                    *)
Shifted(c, base, d) == (c * base + d) % Width
Overflow(c, base, d) == Shifted(c, base, d) < c \/ Shifted(c, base, d) = Width - 1

-----------------------------------------------------------------------------
(* http_message_needs_eof and http_should_keep_alive.                       *)
NeedsEof(p) ==
  /\ p.type = "RESPONSE"
  /\ p.status_code \div 100 # 1
  /\ p.status_code \notin {204, 304}
  /\ "CHUNKED" \notin p.flags
  /\ p.content_length = Width - 1

(* Fault: HTTP/1.1 is taken for an older version.                           *)
KeepAlive_Old(p) == "KEEP_ALIVE" \in p.flags /\ ~NeedsEof(p)

KeepAlive(p) ==
  /\ IF p.major > 0 /\ p.minor > 0 THEN "CLOSE" \notin p.flags
                                   ELSE "KEEP_ALIVE" \in p.flags
  /\ ~NeedsEof(p)

(* A message is complete: NEW_MESSAGE, then the callback, in which a        *)
(* connection that could send its reply (ok) initialises the parser.        *)
Completed(p, ok) ==
  IF ok /\ p.type = "REQUEST" THEN Initial("REQUEST")
  ELSE [p EXCEPT !.state = IF KeepAlive(p) THEN "start" ELSE "dead"]

MessageComplete == <<"message_complete", <<>>>>
HeadersComplete == <<"headers_complete", <<>>>>

-----------------------------------------------------------------------------
(* start_req and start_res.                                                 *)
StartMessage(b) ==
  /\ parser.state = "start"
  /\ LET p == [Now EXCEPT !.flags = {}, !.content_length = Width - 1]
     IN  IF parser.type = "REQUEST"
           THEN \/ b \in Eol /\ To(b, "start")
                \/ /\ b \in Method \cup {"H", "P", "T"}
                   /\ Step(b, [p EXCEPT !.state = "method", !.method = b], {}, {})
                \/ b \notin Eol \cup Method \cup {"H", "P", "T"} /\ Fail
           ELSE \/ b \in Eol /\ Step(b, p, {}, {})
                \/ b = "H" /\ Step(b, [p EXCEPT !.state = "H"], {}, {})
                \/ b \notin Eol \cup {"H"} /\ Fail

(* Of a single letter no method comes.                                      *)
MatchMethod(b) ==
  /\ parser.state = "method"
  /\ IF b = "SP" /\ parser.method \in Method THEN To(b, "spaces_before_url") ELSE Fail

Move(b, moves) ==
  \/ \E m \in moves : m[1] = parser.state /\ b \in m[2] /\ To(b, m[3])
  \/ (\A m \in moves : m[1] = parser.state => b \notin m[2]) /\ Fail

MoveLine(b) == parser.state \in LineStates /\ Move(b, LineMoves)

BeginUrl(b) ==
  /\ parser.state = "spaces_before_url"
  /\ LET from == IF parser.method = "CONNECT" THEN "server_start" ELSE "spaces_before_url"
         moves == {m \in UrlMoves : m[1] = from /\ b \in m[2]}
     IN  \/ b = "SP" /\ To(b, "spaces_before_url")
         \/ b # "SP" /\ moves = {} /\ Fail
         \/ \E m \in moves : Step(b, [Now EXCEPT !.state = m[3]], {"url"}, {})

(* A URL at the end of the line is HTTP/0.9.                                *)
MoveUrl(b) ==
  /\ parser.state \in UrlStates
  /\ IF b \notin Eol \cup {"SP"} \/ parser.state \notin EndableUrl THEN Move(b, UrlMoves)
     ELSE IF b = "SP" THEN Tell(b, "http_start", "url")
     ELSE Step(b, [Now EXCEPT !.major = 0, !.minor = 9,
                              !.state = IF b = "CR" THEN "line_almost_done"
                                        ELSE "header_field_start"], {}, {"url"})

(* The version and the status code are numbers of up to three digits.  The  *)
(* states s_req_* and s_res_* are told apart by the type.                   *)
Version(b) ==
  LET first(field, s) ==
        Step(b, [Now EXCEPT ![field] = NumeralValue[b], !.state = s], {}, {})
      further(field) ==
        LET v == parser[field] * 10 + NumeralValue[b]
        IN  IF v > 999 THEN Fail ELSE Step(b, [Now EXCEPT ![field] = v], {}, {})
  IN \/ /\ parser.state = "first_http_major"
        /\ IF b \in Digit /\ (parser.type = "REQUEST" => b # "0")
             THEN first("major", "http_major") ELSE Fail
     \/ /\ parser.state = "http_major"
        /\ IF b = "." THEN To(b, "first_http_minor")
           ELSE IF b \in Digit THEN further("major")
           ELSE Fail
     \/ /\ parser.state = "first_http_minor"
        /\ IF b \in Digit THEN first("minor", "http_minor") ELSE Fail
     \/ /\ parser.state = "http_minor"
        /\ IF parser.type = "REQUEST" /\ b = "CR" THEN To(b, "line_almost_done")
           ELSE IF parser.type = "REQUEST" /\ b = "LF" THEN To(b, "header_field_start")
           ELSE IF parser.type = "RESPONSE" /\ b = "SP" THEN To(b, "first_status_code")
           ELSE IF b \in Digit THEN further("minor")
           ELSE Fail
     \/ /\ parser.state = "first_status_code"
        /\ IF b = "SP" THEN To(b, "first_status_code")
           ELSE IF b \in Digit THEN first("status_code", "status_code")
           ELSE Fail
     \/ /\ parser.state = "status_code"
        /\ IF b = "SP" THEN To(b, "status")
           ELSE IF b = "CR" THEN To(b, "line_almost_done")
           ELSE IF b = "LF" THEN To(b, "header_field_start")
           ELSE IF b \in Digit THEN further("status_code")
           ELSE Fail

-----------------------------------------------------------------------------
(* The end of a line's value is the place where flags are set.  A byte that *)
(* is no blank ends the lines of a value, and begins the next header.       *)
FlagsOf(h) ==
  CASE h = <<"chunked", TRUE>> -> {"CHUNKED"}
    [] h = <<"keep_alive", TRUE>> -> {"KEEP_ALIVE"}
    [] h = <<"close", TRUE>> -> {"CLOSE"}
    [] OTHER -> {}

EndLine == [Now EXCEPT !.state = "header_value_lws", !.flags = @ \cup FlagsOf(Now.header_state)]

HeaderAlmostDone(b) ==
  /\ parser.state = "header_almost_done"
  /\ IF b = "LF" THEN Step(b, EndLine, {}, {}) ELSE Fail

Fold(b) ==
  /\ parser.state = "header_value_lws"
  /\ b \in Blank
  /\ To(b, "header_value_start")

AtFieldStart(b) ==
  \/ parser.state = "header_field_start"
  \/ parser.state = "header_value_lws" /\ b \notin Blank

FieldStart(b) ==
  /\ AtFieldStart(b)
  /\ \/ b = "CR" /\ To(b, "headers_almost_done")
     \/ /\ b \in Token
        /\ \E h \in HeaderStates :
             /\ IF h \in KnownNames THEN Parts[h][1] = b
                ELSE h = "general" /\ \A n \in KnownNames : Parts[n][1] # b
             /\ Step(b, [Now EXCEPT !.state = "header_field",
                                    !.header_state = <<h, h = "general">>],
                     {"header_field"}, {})
     \/ b \notin Token \cup Eol /\ Fail

(* What is being matched goes on with b, or it is not what was looked for.  *)
Matched(b) ==
  LET h == parser.header_state
  IN  IF ~h[2] /\ b = Parts[h[1]][2] THEN <<h[1], TRUE>> ELSE General

(* Fault: the line that ends without a colon keeps its mark.                *)
Field_KeepsMark(b) ==
  /\ parser.state = "header_field"
  /\ \/ b \in Token /\ Step(b, [Now EXCEPT !.header_state = Matched(b)], {}, {})
     \/ b = ":" /\ Tell(b, "header_value_start", "header_field")
     \/ b = "CR" /\ To(b, "header_almost_done")
     \/ b = "LF" /\ Tell(b, "header_field_start", "header_field")
     \/ b \notin Token \cup Eol \cup {":"} /\ Fail

Field(b) ==
  /\ parser.state = "header_field"
  /\ \/ b \in Token /\ Step(b, [Now EXCEPT !.header_state = Matched(b)], {}, {})
     \/ b = ":" /\ Tell(b, "header_value_start", "header_field")
     \/ b = "CR" /\ Tell(b, "header_almost_done", "header_field")
     \/ b = "LF" /\ Tell(b, "header_field_start", "header_field")
     \/ b \notin Token \cup Eol \cup {":"} /\ Fail

(* The first byte of a value decides what is looked for in the rest.        *)
ValueStart(b) ==
  /\ parser.state = "header_value_start"
  /\ LET h == parser.header_state
         value(p) == Step(b, [p EXCEPT !.state = "header_value"], {"header_value"}, {})
         looking == {v \in KnownValues : h = <<ValueOf[v], TRUE>> /\ Parts[v][1] = b}
     IN  \/ b \in Blank /\ To(b, "header_value_start")
         \/ /\ b = "CR"
            /\ Step(b, [Now EXCEPT !.state = "header_almost_done", !.header_state = General],
                    {"header_value"}, {"header_value"})
         \/ /\ b = "LF"
            /\ Step(b, [Now EXCEPT !.state = "header_field_start"],
                    {"header_value"}, {"header_value"})
         \/ /\ b \notin Blank \cup Eol
            /\ CASE h = <<"content_length", TRUE>> ->
                      IF b \in Digit
                        THEN value([Now EXCEPT !.content_length = NumeralValue[b]])
                        ELSE Fail
                 [] h = <<"upgrade", TRUE>> ->
                      value([Now EXCEPT !.flags = @ \cup {"UPGRADE"}, !.header_state = General])
                 [] looking # {} ->
                      \E v \in looking : value([Now EXCEPT !.header_state = <<v, FALSE>>])
                 [] OTHER -> value([Now EXCEPT !.header_state = General])

(* The digits of a Content-Length, blanks between them skipped.             *)
ContentLength(b) ==
  IF b = "SP" THEN Step(b, Now, {}, {})
  ELSE IF b \notin Digit THEN Fail
  ELSE IF Overflow(parser.content_length, 10, NumeralValue[b]) THEN Fail
  ELSE Step(b, [Now EXCEPT !.content_length = Shifted(@, 10, NumeralValue[b])], {}, {})

Value(b) ==
  /\ parser.state = "header_value"
  /\ \/ b = "CR" /\ Tell(b, "header_almost_done", "header_value")
     \/ b = "LF" /\ Step(b, EndLine, {}, {"header_value"})
     \/ /\ b \notin Eol
        /\ IF parser.header_state = <<"content_length", TRUE>> THEN ContentLength(b)
           ELSE Step(b, [Now EXCEPT !.header_state =
                           IF b = "SP" /\ @[2] THEN @ ELSE Matched(b)], {}, {})

-----------------------------------------------------------------------------
(* headers_almost_done and headers_done, on one LF.  After trailers the     *)
(* message is complete; else its headers are, and they say what follows.    *)
(* With an Upgrade, or CONNECT, execute returns behind the headers.         *)
Ends(p) ==
  \/ "CHUNKED" \notin p.flags /\ p.content_length = 0
  \/ "CHUNKED" \notin p.flags /\ p.content_length = Width - 1 /\ ~NeedsEof(p)

EndOfHeaders(b, ok) ==
  /\ parser.state = "headers_almost_done" \/ (AtFieldStart(b) /\ b = "LF")
  /\ LET p == [Now EXCEPT !.nread = 0]
         notify(q, events) == /\ parser' = q
                              /\ calls' = events
                              /\ UNCHANGED marks
     IN  \/ b # "LF" /\ Fail
         \/ /\ b = "LF"
            /\ CASE "TRAILING" \in p.flags ->
                      notify(Completed(Now, ok), <<MessageComplete>>) /\ UNCHANGED running
                 [] "TRAILING" \notin p.flags /\ ("UPGRADE" \in p.flags \/ p.method = "CONNECT") ->
                      /\ notify(Completed(p, ok), <<HeadersComplete, MessageComplete>>)
                      /\ running' = FALSE
                 [] OTHER ->
                      /\ IF Ends(p)
                           THEN notify(Completed(p, ok), <<HeadersComplete, MessageComplete>>)
                           ELSE notify([p EXCEPT !.state =
                                          IF "CHUNKED" \in p.flags THEN "chunk_size_start"
                                          ELSE IF NeedsEof(p) THEN "body_identity_eof"
                                          ELSE "body_identity"],
                                       <<HeadersComplete>>)
                      /\ UNCHANGED running

-----------------------------------------------------------------------------
(* Fault: the last byte is not part of what is handed to the callback.      *)
BodyIdentity_DropsLast(b, ok) ==
  /\ parser.state = "body_identity"
  /\ LET p == [Now EXCEPT !.content_length = @ - 1]
         body == IF "body" \in DOMAIN marks THEN marks["body"] ELSE <<>>
     IN  IF p.content_length > 0 THEN Step(b, p, {"body"}, {})
         ELSE /\ parser' = Completed(p, ok)
              /\ marks' = [k \in DOMAIN marks \ {"body"} |-> Append(marks[k], b)]
              /\ calls' = <<<<"body", body>>, MessageComplete>>
              /\ UNCHANGED running

(* Fault: the message is not complete with the last byte, but after it.     *)
BodyIdentity_OffByOne(b, ok) ==
  /\ parser.state = "body_identity"
  /\ LET p == [Now EXCEPT !.content_length = @ - 1]
     IN  IF p.content_length >= 0 THEN Step(b, p, {"body"}, {})
         ELSE /\ parser' = Completed(p, ok)
              /\ marks' = [k \in DOMAIN marks \ {"body"} |-> Append(marks[k], b)]
              /\ calls' = <<MessageComplete>>
              /\ UNCHANGED running

(* A body byte with Content-Length.  With the last one the message is       *)
(* complete (body_identity and message_done).                               *)
BodyIdentity(b, ok) ==
  /\ parser.state = "body_identity"
  /\ LET p == [Now EXCEPT !.content_length = @ - 1]
         body == IF "body" \in DOMAIN marks THEN Append(marks["body"], b) ELSE <<b>>
     IN  IF p.content_length > 0 THEN Step(b, p, {"body"}, {})
         ELSE /\ parser' = Completed(p, ok)
              /\ marks' = [k \in DOMAIN marks \ {"body"} |-> Append(marks[k], b)]
              /\ calls' = <<<<"body", body>>, MessageComplete>>
              /\ UNCHANGED running

BodyIdentityEof(b) ==
  /\ parser.state = "body_identity_eof"
  /\ Step(b, Now, {"body"}, {})

(* A chunk: its size, a line end, its data, a line end.  After a chunk of   *)
(* size 0 come trailers.                                                    *)
ChunkSize(b) ==
  \/ /\ parser.state = "chunk_size_start"
     /\ IF b \in DOMAIN Hex
          THEN Step(b, [Now EXCEPT !.state = "chunk_size", !.content_length = Hex[b]], {}, {})
          ELSE Fail
  \/ /\ parser.state = "chunk_size"
     /\ IF b = "CR" THEN To(b, "chunk_size_almost_done")
        ELSE IF b \in {";", "SP"} THEN To(b, "chunk_parameters")
        ELSE IF b \notin DOMAIN Hex THEN Fail
        ELSE IF Overflow(parser.content_length, 16, Hex[b]) THEN Fail
        ELSE Step(b, [Now EXCEPT !.content_length = Shifted(@, 16, Hex[b])], {}, {})

(* Fault: the last chunk, of size 0, is taken for one with data.            *)
ChunkSizeAlmostDone_Data(b) ==
  /\ parser.state = "chunk_size_almost_done"
  /\ IF b = "LF" THEN Step(b, [Now EXCEPT !.nread = 0, !.state = "chunk_data"], {}, {}) ELSE Fail

ChunkSizeAlmostDone(b) ==
  /\ parser.state = "chunk_size_almost_done"
  /\ LET p == [Now EXCEPT !.nread = 0]
     IN  IF b # "LF" THEN Fail
         ELSE IF p.content_length > 0
           THEN Step(b, [p EXCEPT !.state = "chunk_data"], {}, {})
         ELSE Step(b, [p EXCEPT !.state = "header_field_start", !.flags = @ \cup {"TRAILING"}],
                   {}, {})

ChunkData(b) ==
  \/ /\ parser.state = "chunk_data"
     /\ LET left == parser.content_length - 1
        IN  Step(b, [Now EXCEPT !.state = IF left = 0 THEN "chunk_data_almost_done" ELSE @,
                                !.content_length = left],
                 {"body"}, {})
  \/ /\ parser.state = "chunk_data_almost_done"
     /\ IF b = "CR" THEN Tell(b, "chunk_data_done", "body") ELSE Fail
  \/ /\ parser.state = "chunk_data_done"
     /\ IF b = "LF" THEN Step(b, [Now EXCEPT !.nread = 0, !.state = "chunk_size_start"], {}, {})
        ELSE Fail

-----------------------------------------------------------------------------
(* One pass of execute's loop.                                              *)
Execute(b, ok) ==
  /\ running
  /\ \/ Now.nread > MaxHeader /\ Fail
     \/ /\ Now.nread <= MaxHeader
        /\ \/ StartMessage(b)
           \/ MatchMethod(b)
           \/ BeginUrl(b)
           \/ MoveUrl(b)
           \/ MoveLine(b)
           \/ Version(b)
           \/ FieldStart(b)
           \/ Field(b)
           \/ ValueStart(b)
           \/ Value(b)
           \/ HeaderAlmostDone(b)
           \/ Fold(b)
           \/ EndOfHeaders(b, ok)
           \/ BodyIdentity(b, ok)
           \/ BodyIdentityEof(b)
           \/ ChunkSize(b)
           \/ ChunkSizeAlmostDone(b)
           \/ ChunkData(b)

(* Where execute has returned, the rest of the buffer is not looked at.     *)
Ignore == ~running /\ calls' = <<>> /\ UNCHANGED <<parser, marks, running>>

(* Fault: a URL that goes on in the next buffer has no mark there.          *)
ResumedMark_NoUrl ==
  CASE parser.state = "header_field" -> {"header_field"}
    [] parser.state = "header_value" -> {"header_value"}
    [] OTHER -> {}

(* The end of a buffer: callbacks for the marks that are left.  Then the    *)
(* beginning of the next, where the state says which mark there is.         *)
ResumedMark ==
  CASE parser.state = "header_field" -> {"header_field"}
    [] parser.state = "header_value" -> {"header_value"}
    [] parser.state \in UrlStates -> {"url"}
    [] OTHER -> {}

NextBuffer ==
  /\ calls' = IF DOMAIN marks = {} THEN <<>>
              ELSE LET k == CHOOSE k \in DOMAIN marks : TRUE IN <<<<k, marks[k]>>>>
  /\ running' = (parser.http_errno = "OK")
  /\ marks' = IF running' THEN [k \in ResumedMark |-> <<>>] ELSE NoMarks
  /\ UNCHANGED parser

Next == (\E b \in Byte, ok \in BOOLEAN : Execute(b, ok)) \/ Ignore \/ NextBuffer

Spec == (\E type \in {"REQUEST", "RESPONSE"} : Init(type)) /\ [][Next]_parserVars

-----------------------------------------------------------------------------
TypeOK ==
  /\ parser \in Parsers
  /\ DOMAIN marks \subseteq Kinds
  /\ \A k \in DOMAIN marks : marks[k] \in Seq(Byte)
  /\ running \in BOOLEAN
  /\ calls \in Seq((Kinds \cup {"headers_complete", "message_complete"}) \X Seq(Byte))

(* What the assert()s of http_parser_execute say of the states they are in: *)
(* the count is fresh where a chunk begins, a body has a length, a header   *)
(* value is not left half recognised.  Broken by a header that sets flags   *)
(* or a length in the middle of a body, or a count that is not reset.       *)
Asserts ==
  running =>
    /\ parser.state = "chunk_size_start" => parser.nread = 0
    /\ parser.state \in ChunkStates => "CHUNKED" \in parser.flags
    /\ parser.state \in {"body_identity", "chunk_data"} =>
         parser.content_length \notin {0, Width - 1}
    /\ parser.state = "chunk_data_almost_done" => parser.content_length = 0
    /\ parser.state = "header_value" =>
         parser.header_state[1] \notin {"connection", "transfer_encoding"}
    /\ parser.state = "header_field" => parser.header_state[1] \notin KnownValues

(* What the parser is in the middle of, as a mark.                          *)
MarksOf(state) ==
  CASE state = "header_field" -> {"header_field"}
    [] state = "header_value" -> {"header_value"}
    [] state \in UrlStates -> {"url"}
    [] state \in BodyStates -> {"body"}
    [] OTHER -> {}

(* The assert() behind the loop: at the end of a buffer at most one mark is *)
(* set, and it is of what the parser is in the middle of; no callback is    *)
(* lost or given the bytes of another part of the message.                  *)
MarkFits == DOMAIN marks \subseteq MarksOf(parser.state)
=============================================================================
