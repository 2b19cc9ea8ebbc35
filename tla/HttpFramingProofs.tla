------------------------- MODULE HttpFramingProofs --------------------------
(***************************************************************************)
(* Streams of bytes through http::Parser.  The assertions of               *)
(* http_parser_execute hold for each of them; and how a stream is cut into *)
(* reads makes no difference to the messages handed on, for any stream     *)
(* without an Upgrade, any cuts, and any Width, MaxHeader, MaxUri and      *)
(* MaxUpload.  The argument is a simulation, Sim, between the parser whose *)
(* stream is cut and the one that has it in a single buffer: they are in   *)
(* the same state, and what the first has told of the message, with what   *)
(* is still behind its mark, is what the second has told, with what is     *)
(* behind its own.  It rests on two facts: each state of http_parser does  *)
(* the same on both sides (the lemmas named ...Same), and a callback of    *)
(* Parser may be given its data in two pieces (GatherSplit).               *)
(***************************************************************************)
EXTENDS HttpFraming, HttpParserProofs, SequenceTheorems

-----------------------------------------------------------------------------
(* A stream's bytes are given to the parser one after the other, between    *)
(* ends of reads.                                                           *)
InStream == pos \in Nat /\ input \in Input

LEMMA StreamIsParsed ==
  /\ StreamInit => InStream /\ \E type \in {"REQUEST", "RESPONSE"} : Init(type)
  /\ InStream /\ [StreamNext]_vars => InStream' /\ [Next]_parserVars
<1> USE DEF InStream
<1>1. StreamInit => InStream /\ \E type \in {"REQUEST", "RESPONSE"} : Init(type)
  BY InputAssumption DEF StreamInit, AdapterInit
<1>2. ASSUME InStream, [StreamNext]_vars
      PROVE  InStream' /\ [Next]_parserVars
  <2>1. CASE Parse
    <3>1. pos' \in 1..Len(input.bytes) /\ input' = input
      <4>1. Len(input.bytes) \in Nat
        BY <1>2, InputAssumption
      <4> QED
        BY <1>2, <2>1, <4>1 DEF Parse
    <3>2. input.bytes[pos'] \in Byte
      BY <1>2, <3>1, InputAssumption
    <3>3. Execute(input.bytes[pos'], TRUE) \/ Ignore
      BY <2>1 DEF Parse, AddByte
    <3>4. PICK b \in Byte : Execute(b, TRUE) \/ Ignore
      BY <3>2, <3>3
    <3>5. Next
      BY <3>4 DEF Next
    <3> QED
      BY <1>2, <3>1, <3>5
  <2>2. CASE EndRead
    BY <1>2, <2>2 DEF EndRead, EndAdd, Next
  <2>3. CASE UNCHANGED vars
    BY <1>2, <2>3 DEF vars, adapterVars, parserVars
  <2> QED
    BY <1>2, <2>1, <2>2, <2>3 DEF StreamNext
<1> QED
  BY <1>1, <1>2

(* So the assertions hold too while http::Parser is given a connection's    *)
(* stream, read by read.                                                    *)
THEOREM StreamsSafe == StreamSpec => [](TypeOK /\ Asserts /\ MarkFits)
<1>1. StreamInit => IInv /\ InStream
  BY InitSound, StreamIsParsed
<1>2. IInv /\ InStream /\ [StreamNext]_vars => IInv' /\ InStream'
  BY StreamIsParsed, StepSound
<1>3. IInv => TypeOK /\ Asserts /\ MarkFits
  BY DEF IInv, Sound, Asserts, KnownValues, KnownNames, Marked, MarksIn, MarkFits
<1> QED
  BY <1>1, <1>2, <1>3, PTL DEF StreamSpec

LEMMA WholeConstants ==
  /\ Whole!Eol = Eol
  /\ Whole!Blank = Blank
  /\ Whole!Digit = Digit
  /\ Whole!Method = Method
  /\ Whole!Token = Token
  /\ Whole!Byte = Byte
  /\ Whole!UrlMoves = UrlMoves
  /\ Whole!LineMoves = LineMoves
  /\ Whole!UrlStates = UrlStates
  /\ Whole!EndableUrl = EndableUrl
  /\ Whole!LineStates = LineStates
  /\ Whole!BodyStates = BodyStates
  /\ Whole!NumeralValue = NumeralValue
  /\ Whole!Hex = Hex
  /\ Whole!HeaderStates = HeaderStates
  /\ Whole!KnownNames = KnownNames
  /\ Whole!KnownValues = KnownValues
  /\ Whole!Parts = Parts
  /\ Whole!ValueOf = ValueOf
  /\ Whole!General = General
  /\ Whole!HeadersComplete = HeadersComplete
  /\ Whole!MessageComplete = MessageComplete
  /\ Whole!NoMarks = NoMarks
  /\ Whole!Fresh = Fresh
<1>1. Whole!Eol = Eol /\ Whole!Blank = Blank /\ Whole!Method = Method
  BY DEF Whole!Eol, Eol, Whole!Blank, Blank, Whole!Method, Method
<1>2. Whole!Digit = Digit
  BY DEF Whole!Digit, Digit, Whole!Numeral, Numeral
<1>3. Whole!Token = Token
  BY <1>1, <1>2 DEF Whole!Token, Token, Whole!Alpha, Alpha
<1>4. Whole!UrlByte = UrlByte /\ Whole!UserInfo = UserInfo /\ Whole!Alpha = Alpha
  BY <1>1, <1>3, Zenon DEF Whole!UrlByte, UrlByte, Whole!UserInfo, UserInfo, Whole!Alpha, Alpha
<1>5. Whole!Byte = Byte
  BY <1>1, <1>4, Zenon DEF Whole!Byte, Byte
<1>6. Whole!UrlMoves = UrlMoves
  BY <1>4, ZenonT(60) DEF Whole!UrlMoves, UrlMoves, Whole!Server, Server
<1>7. Whole!LineMoves = LineMoves
  BY <1>1, <1>5, Zenon DEF Whole!LineMoves, LineMoves
<1>8. Whole!UrlStates = UrlStates /\ Whole!EndableUrl = EndableUrl /\ Whole!LineStates = LineStates
      /\ Whole!BodyStates = BodyStates
  BY Zenon DEF Whole!UrlStates, UrlStates, Whole!EndableUrl, EndableUrl, Whole!LineStates,
     LineStates, Whole!BodyStates, BodyStates
<1>9. Whole!NumeralValue = NumeralValue
  BY <1>2, Zenon DEF Whole!NumeralValue, NumeralValue, Whole!Numeral, Numeral
<1>10. Whole!Hex = Hex
  BY <1>2, <1>9, Zenon DEF Whole!Hex, Hex
<1>11. Whole!HeaderStates = HeaderStates /\ Whole!KnownNames = KnownNames /\ Whole!KnownValues = KnownValues
  BY Zenon DEF Whole!HeaderStates, HeaderStates, Whole!KnownNames, KnownNames,
     Whole!KnownValues, KnownValues
<1>12. Whole!Parts = Parts /\ Whole!ValueOf = ValueOf /\ Whole!General = General
  BY Zenon DEF Whole!Parts, Parts, Whole!ValueOf, ValueOf, Whole!General, General
<1>13. Whole!HeadersComplete = HeadersComplete /\ Whole!MessageComplete = MessageComplete
       /\ Whole!NoMarks = NoMarks /\ Whole!Fresh = Fresh
  BY Zenon DEF Whole!HeadersComplete, HeadersComplete, Whole!MessageComplete, MessageComplete,
     Whole!NoMarks, NoMarks,
     Whole!Fresh, Fresh, Whole!NoHeaders, NoHeaders
<1> QED
  BY <1>1, <1>2, <1>3, <1>4, <1>5, <1>6, <1>7, <1>8, <1>9, <1>10, <1>11, <1>12, <1>13

LEMMA WholeOps ==
  /\ \A c, base, d : Whole!Shifted(c, base, d) = Shifted(c, base, d)
  /\ \A c, base, d : Whole!Overflow(c, base, d) = Overflow(c, base, d)
  /\ \A p : Whole!NeedsEof(p) = NeedsEof(p)
  /\ \A p : Whole!KeepAlive(p) = KeepAlive(p)
  /\ \A p, ok : Whole!Completed(p, ok) = Completed(p, ok)
  /\ \A p : Whole!Ends(p) = Ends(p)
  /\ \A h : Whole!FlagsOf(h) = FlagsOf(h)
<1>1. /\ \A c, base, d : Whole!Shifted(c, base, d) = Shifted(c, base, d)
  BY Zenon DEF Whole!Shifted, Shifted
<1>2. \A c, base, d : Whole!Overflow(c, base, d) = Overflow(c, base, d)
  BY <1>1, Zenon DEF Whole!Overflow, Overflow
<1>3. \A p : Whole!NeedsEof(p) = NeedsEof(p)
  BY Zenon DEF Whole!NeedsEof, NeedsEof
<1>4. \A p : Whole!KeepAlive(p) = KeepAlive(p)
  BY <1>3, Zenon DEF Whole!KeepAlive, KeepAlive
<1>5. \A p, ok : Whole!Completed(p, ok) = Completed(p, ok)
  BY <1>4, WholeConstants, Zenon DEF Whole!Completed, Completed, Whole!Initial, Initial
<1>6. \A p : Whole!Ends(p) = Ends(p)
  BY <1>3, Zenon DEF Whole!Ends, Ends
<1>7. \A h : Whole!FlagsOf(h) = FlagsOf(h)
  BY Zenon DEF Whole!FlagsOf, FlagsOf
<1> QED
  BY <1>1, <1>2, <1>3, <1>4, <1>5, <1>6, <1>7, Zenon

LEMMA WholeAdapter ==
  /\ \A v : Whole!Atol(v) = Atol(v)
  /\ \A m : Whole!Saved(m) = Saved(m)
  /\ \A mode, m : Whole!SaveLastHeader(mode, m) = SaveLastHeader(mode, m)
  /\ \A mode, m, c : Whole!Gather(mode, m, c) = Gather(mode, m, c)
  /\ \A m, p : Whole!Handed(m, p) = Handed(m, p)
  /\ \A mode, m, list : Whole!Gathered(mode, m, list) = Gathered(mode, m, list)
<1>1. \A v : Whole!Atol(v) = Atol(v)
  BY WholeConstants, ZenonT(60) DEF Whole!Atol, Atol
<1>2. \A m : Whole!Saved(m) = Saved(m)
  BY Zenon DEF Whole!Saved, Saved
<1>3. \A h, n : Whole!Header(h, n) = Header(h, n)
  BY Zenon DEF Whole!Header, Header
<1>4. \A mode, m : Whole!SaveLastHeader(mode, m) = SaveLastHeader(mode, m)
  BY <1>1, <1>2, <1>3, WholeConstants, Zenon DEF Whole!SaveLastHeader, Whole!TooLarge, TooLarge, SaveLastHeader, Whole!ContentLengthName,
     ContentLengthName
<1>5. \A mode, m, c : Whole!Gather(mode, m, c) = Gather(mode, m, c)
  <2>1. \A mode, m, d : Whole!AddUrlFragment(mode, m, d) = AddUrlFragment(mode, m, d)
    BY Zenon DEF Whole!AddUrlFragment, AddUrlFragment
  <2>2. \A m, d : Whole!AddBodyFragment(m, d) = AddBodyFragment(m, d)
    BY Zenon DEF Whole!AddBodyFragment, AddBodyFragment
  <2> QED
    BY <1>4, <2>1, <2>2, ZenonT(60) DEF Whole!Gather, Gather
<1>6. \A m, p : Whole!Handed(m, p) = Handed(m, p)
  BY Zenon DEF Whole!Handed, Handed
<1>7. \A mode, m, list : Whole!Gathered(mode, m, list) = Gathered(mode, m, list)
  BY <1>5, Zenon DEF Whole!Gathered, Gathered, Whole!FoldLeft, FoldLeft, Whole!MapThenFoldSet,
     MapThenFoldSet, Whole!Max, Max
<1> QED
  BY <1>1, <1>2, <1>4, <1>5, <1>6, <1>7, Zenon

-----------------------------------------------------------------------------
(* A step of both on the same byte of a stream without an Upgrade.          *)
NoUpgrade(p) ==
  "UPGRADE" \notin p.flags /\ p.method # "CONNECT" /\ p.header_state # <<"upgrade", TRUE>>

Plainly == Byte \ {"grade", "CONNECT"}

(* The states before a message's headers; those in which a mark may or may  *)
(* not be set; the marks that are set in the others.                        *)
Early == {"start", "method", "spaces_before_url"} \cup UrlStates
Filled == BodyStates \ {"chunk_data_done"}
Held(s) == IF s \in BodyStates THEN {} ELSE MarksIn(s)

Same == IInv /\ running /\ parser = wholeParser /\ NoUpgrade(parser)

Fits(p, mark, tell) ==
  /\ p.type = parser.type
  /\ p.state \in Early => parser.state \in Early /\ tell = {}
  /\ NoUpgrade(p)
  /\ \E k \in Kinds :
       /\ k = "url" => parser.state \in Early
       /\ mark \cup tell \cup Held(parser.state) \subseteq {k}
       /\ parser.state \notin Filled => (Held(parser.state) \cup mark) \ tell = Held(p.state)
       /\ parser.state \in Filled =>
            /\ k = "body"
            /\ \/ mark = {"body"} /\ tell = {} /\ p.state \in Filled
               \/ mark = {} /\ tell = {"body"} /\ Held(p.state) = {} /\ p.state \notin Filled

Both(b) ==
  \/ Fail /\ Whole!Fail
  \/ \E p, mark, tell :
       Step(b, p, mark, tell) /\ Whole!Step(b, p, mark, tell) /\ Fits(p, mark, tell)

LEMMA HeldAre ==
  /\ \A s \in Bare : Held(s) = {} /\ s \notin Filled
  /\ \A s \in UrlStates : Held(s) = {"url"} /\ s \notin Filled
  /\ \A s \in BodyStates : Held(s) = {}
  /\ Held("header_field") = {"header_field"} /\ "header_field" \notin Filled
  /\ Held("header_value") = {"header_value"} /\ "header_value" \notin Filled
<1>1. \A s \in UrlStates \cup {"header_field", "header_value"} : s \notin BodyStates
  BY DEF UrlStates, EndableUrl, BodyStates
<1>2. \A s \in Bare : s \notin Filled
  BY DEF Bare, Filled
<1> QED
  BY <1>1, <1>2, MarksAre DEF Held, Filled

(* The states of the first line, the headers and the chunks' sizes.         *)
LEMMA BareAre ==
  {"start", "method", "spaces_before_url", "http_start", "first_http_major", "http_major",
   "first_http_minor", "http_minor", "first_status_code", "status_code",
   "header_field_start", "header_value_start", "header_value_lws", "header_almost_done",
   "headers_almost_done", "chunk_size_start", "chunk_size", "chunk_size_almost_done",
   "chunk_data_done"} \cup LineStates \subseteq Bare
  BY DEF Bare, States, LineStates, ChunkStates, UrlStates, EndableUrl, BodyStates

LEMMA NowSame ==
  ASSUME Same
  PROVE  /\ Whole!Now = Now /\ wholeParser = parser
         /\ Now \in Parsers
         /\ Now.type = parser.type /\ Now.state = parser.state /\ Now.method = parser.method
         /\ Now.flags = parser.flags /\ Now.header_state = parser.header_state
         /\ Now.content_length = parser.content_length
<1>1. wholeParser = parser /\ parser \in Parsers
  BY DEF Same, IInv, TypeOK
<1>2. Whole!Now = Now
  BY <1>1, WholeConstants, Zenon DEF Now, Whole!Now
<1>3. PICK n : Now = [parser EXCEPT !.nread = n]
  BY <1>1, NowFacts
<1> QED
  BY <1>1, <1>2, <1>3, NowFacts, ParsersAre

(* What becomes of the struct where only its state changes.                 *)
LEMMA Moved ==
  ASSUME Same, NEW s
  PROVE  LET p == [Now EXCEPT !.state = s]
         IN  p.type = parser.type /\ p.state = s /\ NoUpgrade(p)
  BY NowSame, ParsersAre DEF NoUpgrade, Same

LEMMA ToSame ==
  ASSUME Same, NEW b, NEW s, To(b, s), Whole!To(b, s),
         s \in Early => parser.state \in Early,
         parser.state \notin Filled, Held(parser.state) = Held(s),
         Held(s) \subseteq {"url"}, Held(s) # {} => s \in Early
  PROVE  Both(b)
<1> DEFINE p == [Now EXCEPT !.state = s]
<1>1. Step(b, p, {}, {}) /\ Whole!Step(b, p, {}, {})
  BY NowSame, Zenon DEF To, Whole!To
<1>2. p.type = parser.type /\ p.state = s /\ NoUpgrade(p)
  BY Moved
<1> HIDE DEF p
<1>3. PICK k \in Kinds : (k = "url" => parser.state \in Early) /\ Held(s) \subseteq {k}
  <2>1. CASE Held(s) = {}
    BY <2>1 DEF Kinds
  <2>2. CASE Held(s) # {}
    BY <2>2 DEF Kinds
  <2> QED BY <2>1, <2>2
<1>4. Fits(p, {}, {})
  BY <1>2, <1>3 DEF Fits
<1> QED
  BY <1>1, <1>4 DEF Both

LEMMA TellSame ==
  ASSUME Same, NEW b, NEW s \in Bare \ Early, NEW k \in Kinds, Tell(b, s, k), Whole!Tell(b, s, k),
         parser.state \notin Filled, Held(parser.state) = {k}, k = "url" => parser.state \in Early
  PROVE  Both(b)
<1> DEFINE p == [Now EXCEPT !.state = s]
<1>1. Step(b, p, {}, {k}) /\ Whole!Step(b, p, {}, {k})
  BY NowSame, Zenon DEF Tell, Whole!Tell
<1>2. p.type = parser.type /\ p.state = s /\ NoUpgrade(p)
  BY Moved
<1> HIDE DEF p
<1>3. Fits(p, {}, {k})
  BY <1>2, HeldAre DEF Fits
<1> QED
  BY <1>1, <1>3 DEF Both

LEMMA StartMessageSame ==
  ASSUME Same, NEW b \in Plainly, StartMessage(b), Whole!StartMessage(b)
  PROVE  Both(b)
<1> DEFINE p == [Now EXCEPT !.flags = {}, !.content_length = Width - 1]
           q == [p EXCEPT !.state = "method", !.method = b]
           r == [p EXCEPT !.state = "H"]
           s == [Now EXCEPT !.state = "start"]
<1>1. {"start", "method", "H"} \subseteq Bare
  BY BareAre DEF LineStates
<1>2. parser.state = "start" /\ "H" \notin Early
  BY DEF StartMessage, Early, UrlStates, EndableUrl
<1>3. Fits(p, {}, {}) /\ Fits(q, {}, {}) /\ Fits(r, {}, {}) /\ Fits(s, {}, {})
  <2>1. NoUpgrade(parser) /\ b # "CONNECT" /\ "url" \in Kinds
    BY DEF Same, Plainly, Kinds
  <2>2. /\ p.type = parser.type /\ p.state = "start" /\ NoUpgrade(p)
        /\ q.type = parser.type /\ q.state = "method" /\ NoUpgrade(q)
        /\ r.type = parser.type /\ r.state = "H" /\ NoUpgrade(r)
        /\ s.type = parser.type /\ s.state = "start" /\ NoUpgrade(s)
    BY <1>2, <2>1, NowSame, ParsersAre DEF NoUpgrade
  <2> HIDE DEF p, q, r, s
  <2> QED
    BY <1>1, <1>2, <2>1, <2>2, HeldAre DEF Fits, Early
<1>4. \/ Step(b, s, {}, {}) /\ Whole!Step(b, s, {}, {})
      \/ Step(b, q, {}, {}) /\ Whole!Step(b, q, {}, {})
      \/ Step(b, p, {}, {}) /\ Whole!Step(b, p, {}, {})
      \/ Step(b, r, {}, {}) /\ Whole!Step(b, r, {}, {})
      \/ Fail /\ Whole!Fail
  BY NowSame, WholeConstants, Zenon DEF StartMessage, Whole!StartMessage, To, Whole!To, Eol, Method
<1> HIDE DEF p, q, r, s
<1> QED
  BY <1>3, <1>4 DEF Both

LEMMA MatchMethodSame ==
  ASSUME Same, NEW b \in Plainly, MatchMethod(b), Whole!MatchMethod(b)
  PROVE  Both(b)
<1>1. {"method", "spaces_before_url"} \subseteq Bare \cap Early
  BY BareAre DEF Early
<1>2. parser.state = "method"
  BY DEF MatchMethod
<1>3. \/ To(b, "spaces_before_url") /\ Whole!To(b, "spaces_before_url")
      \/ Fail /\ Whole!Fail
  BY NowSame, WholeConstants, Zenon DEF MatchMethod, Whole!MatchMethod
<1> QED
  BY <1>1, <1>2, <1>3, HeldAre, ToSame DEF Both

(* The tables of moves are functions.                                       *)
Followed(s, b) ==
  CASE s \in Server ->
         IF b = "/" THEN "path" ELSE IF b = "?" THEN "query_string_start"
         ELSE IF b = "@" THEN "server_with_at" ELSE "server"
    [] s = "spaces_before_url" -> IF b \in {"/", "*"} THEN "path" ELSE "schema"
    [] s = "schema" -> IF b = ":" THEN "schema_slash" ELSE "schema"
    [] s = "schema_slash" -> "schema_slash_slash"
    [] s = "schema_slash_slash" -> "server_start"
    [] s = "path" ->
         IF b = "?" THEN "query_string_start" ELSE IF b = "#" THEN "fragment_start" ELSE "path"
    [] s \in {"query_string_start", "query_string"} ->
         IF b = "#" THEN "fragment_start" ELSE "query_string"
    [] s = "fragment_start" -> IF b = "#" THEN "fragment_start" ELSE "fragment"
    [] OTHER -> "fragment"

LEMMA UrlMovesAgree ==
  ASSUME NEW m \in UrlMoves, NEW n \in UrlMoves, m[1] = n[1], NEW b, b \in m[2], b \in n[2]
  PROVE  m[3] = n[3]
<1>1. /\ ":" \notin Alpha /\ "/" \notin Alpha /\ "*" \notin Alpha
      /\ "?" \notin UrlByte /\ "#" \notin UrlByte
      /\ "?" \notin UserInfo /\ "/" \notin UserInfo /\ "@" \notin UserInfo
  BY DEF Alpha, Method, UrlByte, UserInfo, Token, Digit, Numeral
<1>2. ASSUME NEW l \in UrlMoves, b \in l[2]
      PROVE  l[3] = Followed(l[1], b)
  BY <1>1, <1>2 DEF UrlMoves, Followed, Server
<1> QED
  BY <1>2

LEMMA NoBlankInUrl == \A m \in UrlMoves : "SP" \notin m[2]
<1>1. "SP" \notin UrlByte /\ "SP" \notin Alpha /\ "SP" \notin UserInfo
  BY DEF Alpha, Method, UrlByte, UserInfo, Token, Digit, Numeral
<1> QED
  BY <1>1 DEF UrlMoves

LEMMA BeginUrlSame ==
  ASSUME Same, NEW b \in Plainly, BeginUrl(b), Whole!BeginUrl(b)
  PROVE  Both(b)
<1>1. "spaces_before_url" \in Bare \cap Early /\ UrlStates \subseteq Early
  BY BareAre DEF Early
<1>2. parser.state = "spaces_before_url" /\ "url" \in Kinds
  BY DEF BeginUrl, Kinds
<1>3. \/ To(b, "spaces_before_url") /\ Whole!To(b, "spaces_before_url")
      \/ Fail /\ Whole!Fail
      \/ \E m, n \in UrlMoves :
           /\ m[1] = n[1] /\ b \in m[2] /\ b \in n[2]
           /\ Step(b, [Now EXCEPT !.state = m[3]], {"url"}, {})
           /\ Whole!Step(b, [Now EXCEPT !.state = n[3]], {"url"}, {})
  <2>1. CASE b = "SP"
    BY <2>1, NoBlankInUrl, NowSame, WholeConstants, Zenon DEF BeginUrl, Whole!BeginUrl
  <2>2. CASE b # "SP"
    <3>1. CASE parser.method = "CONNECT"
      BY <2>2, <3>1, NowSame, WholeConstants, Zenon DEF BeginUrl, Whole!BeginUrl
    <3>2. CASE parser.method # "CONNECT"
      BY <2>2, <3>2, NowSame, WholeConstants, Zenon DEF BeginUrl, Whole!BeginUrl
    <3> QED
      BY <3>1, <3>2
  <2> QED
    BY <2>1, <2>2
<1>4. ASSUME NEW m \in UrlMoves, NEW n \in UrlMoves,
             m[1] = n[1], b \in m[2], b \in n[2],
             Step(b, [Now EXCEPT !.state = m[3]], {"url"}, {}),
             Whole!Step(b, [Now EXCEPT !.state = n[3]], {"url"}, {})
      PROVE  Both(b)
  <2> DEFINE p == [Now EXCEPT !.state = m[3]]
  <2>1. m[3] = n[3] /\ m[3] \in UrlStates
    BY <1>4, UrlMovesAgree, UrlMovesEnd
  <2>2. Step(b, p, {"url"}, {}) /\ Whole!Step(b, p, {"url"}, {})
    BY <1>4, <2>1
  <2>3. p.type = parser.type /\ p.state = m[3] /\ NoUpgrade(p)
    BY Moved
  <2> HIDE DEF p
  <2>4. Fits(p, {"url"}, {})
    BY <1>1, <1>2, <2>1, <2>3, HeldAre DEF Fits
  <2> QED
    BY <2>2, <2>4 DEF Both
<1> QED
  BY <1>1, <1>2, <1>3, <1>4, HeldAre, ToSame DEF Both

LEMMA MoveUrlSame ==
  ASSUME Same, NEW b \in Plainly, MoveUrl(b), Whole!MoveUrl(b)
  PROVE  Both(b)
<1>1. {"http_start", "line_almost_done", "header_field_start"} \subseteq Bare \ Early
  BY BareAre DEF Early, UrlStates, EndableUrl, LineStates
<1>2. parser.state \in UrlStates /\ UrlStates \subseteq Early /\ "url" \in Kinds
  BY DEF MoveUrl, Early, Kinds
<1>3. Held(parser.state) = {"url"} /\ parser.state \notin Filled
  BY <1>2, HeldAre
<1>4. \/ Move(b, UrlMoves) /\ Whole!Move(b, UrlMoves)
      \/ Tell(b, "http_start", "url") /\ Whole!Tell(b, "http_start", "url")
      \/ \E s \in {"line_almost_done", "header_field_start"} :
           LET p == [Now EXCEPT !.major = 0, !.minor = 9, !.state = s]
           IN  Step(b, p, {}, {"url"}) /\ Whole!Step(b, p, {}, {"url"})
  <2>1. CASE b \notin Eol \cup {"SP"} \/ parser.state \notin EndableUrl
    BY <2>1, NowSame, WholeConstants, Zenon DEF MoveUrl, Whole!MoveUrl
  <2>2. CASE b \in Eol \cup {"SP"} /\ parser.state \in EndableUrl /\ b = "SP"
    BY <2>2, NowSame, WholeConstants, Zenon DEF MoveUrl, Whole!MoveUrl
  <2>3. CASE b \in Eol \cup {"SP"} /\ parser.state \in EndableUrl /\ b # "SP"
    <3> DEFINE s == IF b = "CR" THEN "line_almost_done" ELSE "header_field_start"
               p == [Now EXCEPT !.major = 0, !.minor = 9, !.state = s]
    <3>1. Step(b, p, {}, {"url"}) /\ Whole!Step(b, p, {}, {"url"})
      BY <2>3, NowSame, WholeConstants, Zenon DEF MoveUrl, Whole!MoveUrl
    <3>2. s \in {"line_almost_done", "header_field_start"}
      OBVIOUS
    <3> QED
      BY <3>1, <3>2, Zenon
  <2> QED
    BY <2>1, <2>2, <2>3
<1>5. CASE Move(b, UrlMoves) /\ Whole!Move(b, UrlMoves)
  <2>1. \/ Fail /\ Whole!Fail
        \/ \E m, n \in UrlMoves : /\ m[1] = n[1] /\ b \in m[2] /\ b \in n[2]
                                  /\ To(b, m[3]) /\ Whole!To(b, n[3])
    BY <1>5, NowSame, Zenon DEF Move, Whole!Move
  <2>2. ASSUME NEW m \in UrlMoves, NEW n \in UrlMoves, m[1] = n[1], b \in m[2], b \in n[2],
               To(b, m[3]), Whole!To(b, n[3])
        PROVE  Both(b)
    <3>1. m[3] = n[3] /\ m[3] \in UrlStates
      BY <2>2, UrlMovesAgree, UrlMovesEnd
    <3> QED
      BY <1>2, <1>3, <2>2, <3>1, HeldAre, ToSame
  <2> QED
    BY <2>1, <2>2 DEF Both
<1>6. ASSUME NEW s \in {"line_almost_done", "header_field_start"}, NEW p,
             p = [Now EXCEPT !.major = 0, !.minor = 9, !.state = s],
             Step(b, p, {}, {"url"}), Whole!Step(b, p, {}, {"url"})
      PROVE  Both(b)
  <2>1. p.type = parser.type /\ p.state = s /\ NoUpgrade(p)
    BY <1>6, NowSame, ParsersAre DEF NoUpgrade, Same
  <2>2. Fits(p, {}, {"url"})
    BY <1>1, <1>2, <1>3, <2>1, HeldAre DEF Fits
  <2> QED
    BY <1>6, <2>2 DEF Both
<1> QED
  BY <1>1, <1>2, <1>3, <1>4, <1>5, <1>6, TellSame

LEMMA LineMovesAgree ==
  ASSUME NEW m \in LineMoves, NEW n \in LineMoves, m[1] = n[1], NEW b, b \in m[2], b \in n[2]
  PROVE  m[3] = n[3]
<1> DEFINE next(s) ==
      CASE s = "http_start" -> IF b = "H" THEN "H" ELSE "http_start"
        [] s = "status" -> IF b = "CR" THEN "line_almost_done"
                           ELSE IF b = "LF" THEN "header_field_start" ELSE "status"
        [] s = "chunk_parameters" -> IF b = "CR" THEN "chunk_size_almost_done" ELSE "chunk_parameters"
        [] s = "H" -> "HT"
        [] s = "HT" -> "HTT"
        [] s = "HTT" -> "HTTP"
        [] s = "HTTP" -> "first_http_major"
        [] s = "line_almost_done" -> "header_field_start"
        [] OTHER -> "dead"
<1>1. ASSUME NEW l \in LineMoves, b \in l[2]
      PROVE  l[3] = next(l[1])
  BY <1>1 DEF LineMoves, Eol
<1> HIDE DEF next
<1> QED
  BY <1>1

LEMMA MoveLineSame ==
  ASSUME Same, NEW b \in Plainly, MoveLine(b), Whole!MoveLine(b)
  PROVE  Both(b)
<1>1. parser.state \in LineStates /\ LineStates \subseteq Bare
  BY BareAre DEF MoveLine
<1>2. \/ Fail /\ Whole!Fail
      \/ \E m, n \in LineMoves : /\ m[1] = n[1] /\ b \in m[2] /\ b \in n[2]
                                 /\ To(b, m[3]) /\ Whole!To(b, n[3])
  BY NowSame, WholeConstants, Zenon DEF MoveLine, Whole!MoveLine, Move, Whole!Move
<1>3. ASSUME NEW m \in LineMoves, NEW n \in LineMoves, m[1] = n[1], b \in m[2], b \in n[2],
             To(b, m[3]), Whole!To(b, n[3])
      PROVE  Both(b)
  <2>1. m[3] = n[3]
    BY <1>3, LineMovesAgree
  <2>2. m[3] \in Bare \ Early
    <3>1. m[3] \in LineStates \cup {"first_http_major", "header_field_start", "chunk_size_almost_done"}
      BY DEF LineMoves, LineStates
    <3>2. LineStates \cap Early = {}
      BY DEF LineStates, Early, UrlStates, EndableUrl
    <3>3. {"first_http_major", "header_field_start", "chunk_size_almost_done"} \cap Early = {}
      BY DEF Early, UrlStates, EndableUrl
    <3> QED
      BY <3>1, <3>2, <3>3, BareAre
  <2> QED
    BY <1>1, <1>3, <2>1, <2>2, HeldAre, ToSame
<1> QED
  BY <1>2, <1>3 DEF Both

(* The numbers of the first line, by state.                                 *)
First(b, field, s) == Step(b, [Now EXCEPT ![field] = NumeralValue[b], !.state = s], {}, {})
Further(b, field) ==
  LET v == parser[field] * 10 + NumeralValue[b]
  IN  IF v > 999 THEN Fail ELSE Step(b, [Now EXCEPT ![field] = v], {}, {})

WholeFirst(b, field, s) == Whole!Step(b, [Whole!Now EXCEPT ![field] = Whole!NumeralValue[b], !.state = s], {}, {})
WholeFurther(b, field) ==
  LET v == wholeParser[field] * 10 + Whole!NumeralValue[b]
  IN  IF v > 999 THEN Whole!Fail ELSE Whole!Step(b, [Whole!Now EXCEPT ![field] = v], {}, {})

LEMMA VersionIs ==
  ASSUME NEW b, Version(b)
  PROVE  /\ parser.state = "first_http_major" =>
            IF b \in Digit /\ (parser.type = "REQUEST" => b # "0") THEN First(b, "major", "http_major") ELSE Fail
         /\ parser.state = "http_major" =>
            IF b = "." THEN To(b, "first_http_minor")
            ELSE IF b \in Digit THEN Further(b, "major") ELSE Fail
         /\ parser.state = "first_http_minor" =>
            IF b \in Digit THEN First(b, "minor", "http_minor") ELSE Fail
         /\ parser.state = "http_minor" =>
            IF parser.type = "REQUEST" /\ b = "CR" THEN To(b, "line_almost_done")
            ELSE IF parser.type = "REQUEST" /\ b = "LF" THEN To(b, "header_field_start")
            ELSE IF parser.type = "RESPONSE" /\ b = "SP" THEN To(b, "first_status_code")
            ELSE IF b \in Digit THEN Further(b, "minor") ELSE Fail
         /\ parser.state = "first_status_code" =>
            IF b = "SP" THEN To(b, "first_status_code")
            ELSE IF b \in Digit THEN First(b, "status_code", "status_code") ELSE Fail
         /\ parser.state = "status_code" =>
            IF b = "SP" THEN To(b, "status")
            ELSE IF b = "CR" THEN To(b, "line_almost_done")
            ELSE IF b = "LF" THEN To(b, "header_field_start")
            ELSE IF b \in Digit THEN Further(b, "status_code") ELSE Fail
  BY ZenonT(60) DEF Version, First, Further

LEMMA WholeVersionIs ==
  ASSUME NEW b, Whole!Version(b)
  PROVE  /\ wholeParser.state = "first_http_major" =>
            IF b \in Whole!Digit /\ (wholeParser.type = "REQUEST" => b # "0") THEN WholeFirst(b, "major", "http_major") ELSE Whole!Fail
         /\ wholeParser.state = "http_major" =>
            IF b = "." THEN Whole!To(b, "first_http_minor")
            ELSE IF b \in Whole!Digit THEN WholeFurther(b, "major") ELSE Whole!Fail
         /\ wholeParser.state = "first_http_minor" =>
            IF b \in Whole!Digit THEN WholeFirst(b, "minor", "http_minor") ELSE Whole!Fail
         /\ wholeParser.state = "http_minor" =>
            IF wholeParser.type = "REQUEST" /\ b = "CR" THEN Whole!To(b, "line_almost_done")
            ELSE IF wholeParser.type = "REQUEST" /\ b = "LF" THEN Whole!To(b, "header_field_start")
            ELSE IF wholeParser.type = "RESPONSE" /\ b = "SP" THEN Whole!To(b, "first_status_code")
            ELSE IF b \in Whole!Digit THEN WholeFurther(b, "minor") ELSE Whole!Fail
         /\ wholeParser.state = "first_status_code" =>
            IF b = "SP" THEN Whole!To(b, "first_status_code")
            ELSE IF b \in Whole!Digit THEN WholeFirst(b, "status_code", "status_code") ELSE Whole!Fail
         /\ wholeParser.state = "status_code" =>
            IF b = "SP" THEN Whole!To(b, "status")
            ELSE IF b = "CR" THEN Whole!To(b, "line_almost_done")
            ELSE IF b = "LF" THEN Whole!To(b, "header_field_start")
            ELSE IF b \in Whole!Digit THEN WholeFurther(b, "status_code") ELSE Whole!Fail
  BY ZenonT(60) DEF Whole!Version, WholeFirst, WholeFurther

LEMMA VersionSame ==
  ASSUME Same, NEW b \in Plainly, Version(b), Whole!Version(b)
  PROVE  Both(b)
<1> DEFINE After == VersionState \cup {"line_almost_done", "header_field_start", "status"}
           first(field, s) == [Now EXCEPT ![field] = NumeralValue[b], !.state = s]
           further(field) == [Now EXCEPT ![field] = parser[field] * 10 + NumeralValue[b]]
<1>1. After \subseteq Bare \ Early
  <2>1. After \subseteq Bare
    BY BareAre DEF VersionState, LineStates
  <2>2. After \cap Early = {}
    BY DEF VersionState, Early, UrlStates, EndableUrl
  <2> QED
    BY <2>1, <2>2
<1>2. parser.state \in VersionState
  BY DEF Version, VersionState
<1>3. \/ Fail /\ Whole!Fail
      \/ \E s \in After : To(b, s) /\ Whole!To(b, s)
      \/ \E field \in Number, s \in After :
           Step(b, first(field, s), {}, {}) /\ Whole!Step(b, first(field, s), {}, {})
      \/ \E field \in Number :
           Step(b, further(field), {}, {}) /\ Whole!Step(b, further(field), {}, {})
  <2>1. Version(b) /\ Whole!Version(b) /\ wholeParser = parser /\ Whole!Now = Now
        /\ Whole!Digit = Digit /\ Whole!NumeralValue = NumeralValue
    BY NowSame, WholeConstants
  <2>2. parser.type \in {"REQUEST", "RESPONSE"}
    BY ParsersAre DEF Same, IInv, TypeOK, Types
  <2>3. \/ Fail /\ Whole!Fail
        \/ \E s \in After : To(b, s) /\ Whole!To(b, s)
        \/ \E field \in Number, s \in After : First(b, field, s) /\ WholeFirst(b, field, s)
        \/ \E field \in Number : Further(b, field) /\ WholeFurther(b, field)
    <3>1. CASE parser.state = "first_http_major"
      BY <2>1, <2>2, <3>1, VersionIs, WholeVersionIs, Zenon DEF Number, VersionState
    <3>2. CASE parser.state = "http_major"
      BY <2>1, <2>2, <3>2, VersionIs, WholeVersionIs, Zenon DEF Number, VersionState
    <3>3. CASE parser.state = "first_http_minor"
      BY <2>1, <2>2, <3>3, VersionIs, WholeVersionIs, Zenon DEF Number, VersionState
    <3>4. CASE parser.state = "http_minor"
      BY <2>1, <2>2, <3>4, VersionIs, WholeVersionIs, Zenon DEF Number, VersionState
    <3>5. CASE parser.state = "first_status_code"
      BY <2>1, <2>2, <3>5, VersionIs, WholeVersionIs, Zenon DEF Number, VersionState
    <3>6. CASE parser.state = "status_code"
      BY <2>1, <2>2, <3>6, VersionIs, WholeVersionIs, Zenon DEF Number, VersionState
    <3> QED
      BY <1>2, <3>1, <3>2, <3>3, <3>4, <3>5, <3>6 DEF VersionState
  <2>4. \A field, s : First(b, field, s) /\ WholeFirst(b, field, s) =>
          Step(b, first(field, s), {}, {}) /\ Whole!Step(b, first(field, s), {}, {})
    BY <2>1, Zenon DEF First, WholeFirst
  <2>5. \A field : Further(b, field) /\ WholeFurther(b, field) =>
          \/ Fail /\ Whole!Fail
          \/ Step(b, further(field), {}, {}) /\ Whole!Step(b, further(field), {}, {})
    BY <2>1, SMT DEF Further, WholeFurther
  <2> HIDE DEF After, first, further
  <2> QED
    BY <2>3, <2>4, <2>5, Zenon
<1>4. ASSUME NEW p, p.type = parser.type, p.state \in After, NoUpgrade(p)
      PROVE  Fits(p, {}, {})
  <2>1. Held(p.state) = {} /\ Held(parser.state) = {} /\ parser.state \notin Filled
    BY <1>1, <1>2, <1>4, HeldAre
  <2>2. "body" \in Kinds
    BY DEF Kinds
  <2> QED
    BY <1>1, <1>4, <2>1, <2>2 DEF Fits
<1>5. ASSUME NEW field \in Number, NEW n
      PROVE  LET p == [Now EXCEPT ![field] = n]
             IN  p.type = parser.type /\ p.state = parser.state /\ NoUpgrade(p)
  <2>1. field \in {"major", "minor", "status_code"}
    BY DEF Number
  <2> QED
    BY <2>1, NowSame, ParsersAre DEF NoUpgrade, Same
<1>6. ASSUME NEW field \in Number, NEW s \in After, NEW n
      PROVE  LET p == [Now EXCEPT ![field] = n, !.state = s]
             IN  p.type = parser.type /\ p.state = s /\ NoUpgrade(p)
  <2>1. field \in {"major", "minor", "status_code"}
    BY DEF Number
  <2> QED
    BY <2>1, NowSame, ParsersAre DEF NoUpgrade, Same
<1>7. ASSUME NEW field \in Number, NEW s \in After
      PROVE  Fits(first(field, s), {}, {})
  <2>1. /\ first(field, s).type = parser.type /\ first(field, s).state = s
        /\ NoUpgrade(first(field, s))
    BY <1>6
  <2> QED
    BY <1>4, <2>1
<1>8. \A field \in Number : Fits(further(field), {}, {})
  BY <1>2, <1>4, <1>5
<1>9. \A s \in After : To(b, s) /\ Whole!To(b, s) => Both(b)
  BY <1>1, <1>2, HeldAre, ToSame
<1> HIDE DEF After, first, further
<1> QED
  BY <1>3, <1>7, <1>8, <1>9, Zenon DEF Both

LEMMA EndLineSame ==
  ASSUME Same
  PROVE  /\ Whole!EndLine = EndLine
         /\ EndLine.type = parser.type /\ EndLine.state = "header_value_lws" /\ NoUpgrade(EndLine)
<1>1. Whole!EndLine = EndLine
  BY NowSame, WholeOps, Zenon DEF EndLine, Whole!EndLine
<1>2. "UPGRADE" \notin FlagsOf(Now.header_state)
  BY DEF FlagsOf
<1>3. PICK f : f = Now.flags \cup FlagsOf(Now.header_state)
  OBVIOUS
<1>4. EndLine = [Now EXCEPT !.state = "header_value_lws", !.flags = f]
  BY <1>3, NowSame, ParsersAre DEF EndLine
<1>5. NoUpgrade(parser) /\ "UPGRADE" \notin f
  BY <1>2, <1>3, NowSame DEF Same, NoUpgrade
<1> QED
  BY <1>1, <1>4, <1>5, NowSame, ParsersAre DEF NoUpgrade

(* Where no mark is set and none is touched.                                *)
LEMMA BareStepSame ==
  ASSUME Same, NEW b, NEW p, Step(b, p, {}, {}), Whole!Step(b, p, {}, {}),
         p.type = parser.type, NoUpgrade(p), Held(p.state) = {}, p.state \notin Early,
         Held(parser.state) = {}, parser.state \notin Filled
  PROVE  Both(b)
<1>1. "body" \in Kinds
  BY DEF Kinds
<1>2. Fits(p, {}, {})
  BY <1>1 DEF Fits
<1> QED
  BY <1>2 DEF Both

LEMMA HeaderAlmostDoneSame ==
  ASSUME Same, NEW b \in Plainly, HeaderAlmostDone(b), Whole!HeaderAlmostDone(b)
  PROVE  Both(b)
<1>1. \/ Step(b, EndLine, {}, {}) /\ Whole!Step(b, EndLine, {}, {})
      \/ Fail /\ Whole!Fail
  BY EndLineSame, Zenon DEF HeaderAlmostDone, Whole!HeaderAlmostDone
<1>2. parser.state = "header_almost_done" /\ "header_value_lws" \notin Early
  BY DEF HeaderAlmostDone, Early, UrlStates, EndableUrl
<1>3. {"header_almost_done", "header_value_lws"} \subseteq Bare
  BY BareAre
<1> QED
  BY <1>1, <1>2, <1>3, EndLineSame, HeldAre, BareStepSame DEF Both

LEMMA FoldSame ==
  ASSUME Same, NEW b \in Plainly, Fold(b), Whole!Fold(b)
  PROVE  Both(b)
<1>1. {"header_value_lws", "header_value_start"} \subseteq Bare
  BY BareAre
<1>2. "header_value_start" \notin Early
  BY DEF Early, UrlStates, EndableUrl
<1> QED
  BY <1>1, <1>2, HeldAre, ToSame DEF Fold, Whole!Fold

LEMMA FieldStartSame ==
  ASSUME Same, NEW b \in Plainly, FieldStart(b), Whole!FieldStart(b)
  PROVE  Both(b)
<1>1. {"header_field_start", "header_value_lws", "headers_almost_done"} \subseteq Bare
  BY BareAre
<1>2. "header_field" \notin Early /\ "headers_almost_done" \notin Early
      /\ "header_field" \in Kinds /\ "CR" \notin Token
  BY DEF Early, UrlStates, EndableUrl, Kinds, Token, Alpha, Method, Digit, Numeral
<1>3. parser.state \in {"header_field_start", "header_value_lws"}
  BY DEF FieldStart, AtFieldStart
<1> DEFINE p(h) == [Now EXCEPT !.state = "header_field", !.header_state = <<h, h = "general">>]
           matches(h) == IF h \in KnownNames THEN Parts[h][1] = b
                         ELSE h = "general" /\ \A n \in KnownNames : Parts[n][1] # b
<1>4. \/ To(b, "headers_almost_done") /\ Whole!To(b, "headers_almost_done")
      \/ Fail /\ Whole!Fail
      \/ \E h, i \in HeaderStates :
           /\ matches(h) /\ matches(i)
           /\ Step(b, p(h), {"header_field"}, {}) /\ Whole!Step(b, p(i), {"header_field"}, {})
  <2>1. CASE b = "CR"
    BY <1>2, <2>1, NowSame, WholeConstants, Zenon DEF FieldStart, Whole!FieldStart, Eol
  <2>2. CASE b \in Token
    BY <1>2, <2>2, NowSame, WholeConstants, Zenon DEF FieldStart, Whole!FieldStart
  <2>3. CASE b \notin Token \cup {"CR"}
    BY <2>3, NowSame, WholeConstants, Zenon DEF FieldStart, Whole!FieldStart
  <2> QED
    BY <2>1, <2>2, <2>3
<1>5. ASSUME NEW h \in HeaderStates, NEW i \in HeaderStates, matches(h), matches(i)
      PROVE  h = i
  BY <1>5 DEF KnownNames, Parts
<1>6. ASSUME NEW h \in HeaderStates
      PROVE  Fits(p(h), {"header_field"}, {})
  <2>1. <<h, h = "general">> # <<"upgrade", TRUE>>
    OBVIOUS
  <2>2. PICK hs : hs = <<h, h = "general">>
    OBVIOUS
  <2>3. LET r == [Now EXCEPT !.state = "header_field", !.header_state = hs]
        IN  r.type = parser.type /\ r.state = "header_field" /\ NoUpgrade(r)
    BY <2>1, <2>2, NowSame, ParsersAre DEF NoUpgrade, Same
  <2>4. p(h).type = parser.type /\ p(h).state = "header_field" /\ NoUpgrade(p(h))
    BY <2>2, <2>3
  <2> HIDE DEF p
  <2> QED
    BY <1>1, <1>2, <1>3, <2>4, HeldAre DEF Fits
<1>7. CASE To(b, "headers_almost_done") /\ Whole!To(b, "headers_almost_done")
  BY <1>1, <1>2, <1>3, <1>7, HeldAre, ToSame
<1> HIDE DEF p, matches
<1> QED
  BY <1>4, <1>5, <1>6, <1>7 DEF Both

(* What is matched next is not an Upgrade's name, of which the second part  *)
(* does not come.                                                           *)
LEMMA MatchedSame ==
  ASSUME Same, NEW b \in Plainly
  PROVE  /\ Whole!Matched(b) = Matched(b)
         /\ Matched(b) # <<"upgrade", TRUE>> /\ General # <<"upgrade", TRUE>>
<1>1. Whole!Matched(b) = Matched(b)
  BY NowSame, WholeConstants, Zenon DEF Matched, Whole!Matched
<1>2. General # <<"upgrade", TRUE>> /\ Parts["upgrade"][2] = "grade" /\ b # "grade"
  BY DEF General, Parts, Plainly
<1>3. ASSUME Matched(b) = <<"upgrade", TRUE>>
      PROVE  FALSE
  <2>1. Matched(b) = <<parser.header_state[1], TRUE>> /\ b = Parts[parser.header_state[1]][2]
    BY <1>2, <1>3 DEF Matched
  <2>2. parser.header_state[1] = "upgrade"
    BY <1>3, <2>1
  <2> QED
    BY <1>2, <2>1, <2>2
<1> QED
  BY <1>1, <1>2, <1>3

LEMMA LookingFor ==
  ASSUME Same, NEW s, NEW h, h # <<"upgrade", TRUE>>
  PROVE  LET p == [Now EXCEPT !.state = s, !.header_state = h]
             q == [Now EXCEPT !.header_state = h]
         IN  /\ p.type = parser.type /\ p.state = s /\ NoUpgrade(p)
             /\ q.type = parser.type /\ q.state = parser.state /\ NoUpgrade(q)
  BY NowSame, ParsersAre DEF NoUpgrade, Same

LEMMA FieldSame ==
  ASSUME Same, NEW b \in Plainly, Field(b), Whole!Field(b)
  PROVE  Both(b)
<1>1. {"header_value_start", "header_almost_done", "header_field_start"} \subseteq Bare \ Early
  BY BareAre DEF Early, UrlStates, EndableUrl
<1>2. parser.state = "header_field" /\ "header_field" \notin Early /\ "header_field" \in Kinds
  BY DEF Field, Early, UrlStates, EndableUrl, Kinds
<1> DEFINE p == [Now EXCEPT !.header_state = Matched(b)]
<1>3. \/ Step(b, p, {}, {}) /\ Whole!Step(b, p, {}, {})
      \/ \E s \in {"header_value_start", "header_almost_done", "header_field_start"} :
           Tell(b, s, "header_field") /\ Whole!Tell(b, s, "header_field")
      \/ Fail /\ Whole!Fail
  <2>1. ":" \notin Token /\ "CR" \notin Token /\ "LF" \notin Token
    BY DEF Token, Alpha, Method, Digit, Numeral
  <2>2. CASE b \in Token
    BY <2>1, <2>2, NowSame, MatchedSame, WholeConstants, Zenon DEF Field, Whole!Field
  <2>3. CASE b = ":"
    BY <2>1, <2>3, NowSame, WholeConstants, Zenon DEF Field, Whole!Field
  <2>4. CASE b = "CR"
    BY <2>1, <2>4, NowSame, WholeConstants, Zenon DEF Field, Whole!Field, Eol
  <2>5. CASE b = "LF"
    BY <2>1, <2>5, NowSame, WholeConstants, Zenon DEF Field, Whole!Field, Eol
  <2>6. CASE b \notin Token \cup {":", "CR", "LF"}
    BY <2>6, NowSame, WholeConstants, Zenon DEF Field, Whole!Field
  <2> QED
    BY <2>2, <2>3, <2>4, <2>5, <2>6
<1>4. Fits(p, {}, {})
  <2>1. p.type = parser.type /\ p.state = "header_field" /\ NoUpgrade(p)
    BY <1>2, MatchedSame, LookingFor
  <2> HIDE DEF p
  <2> QED
    BY <1>2, <2>1, HeldAre DEF Fits
<1>5. ASSUME NEW s \in {"header_value_start", "header_almost_done", "header_field_start"},
             Tell(b, s, "header_field"), Whole!Tell(b, s, "header_field")
      PROVE  Both(b)
  BY <1>1, <1>2, <1>5, HeldAre, TellSame
<1> HIDE DEF p
<1> QED
  BY <1>3, <1>4, <1>5 DEF Both

LEMMA ValueStartSame ==
  ASSUME Same, NEW b \in Plainly, ValueStart(b), Whole!ValueStart(b)
  PROVE  Both(b)
<1> DEFINE h == parser.header_state
           value(p) == [p EXCEPT !.state = "header_value"]
           looking == {v \in KnownValues : h = <<ValueOf[v], TRUE>> /\ Parts[v][1] = b}
           HV == {"header_value"}
           blank == [Now EXCEPT !.state = "header_almost_done", !.header_state = General]
           empty == [Now EXCEPT !.state = "header_field_start"]
           length == value([Now EXCEPT !.content_length = NumeralValue[b]])
           known(v) == value([Now EXCEPT !.header_state = <<v, FALSE>>])
           other == value([Now EXCEPT !.header_state = General])
<1>1. {"header_value_start", "header_almost_done", "header_field_start"} \subseteq Bare \ Early
  BY BareAre DEF Early, UrlStates, EndableUrl
<1>2. parser.state = "header_value_start" /\ "header_value" \notin Early /\ "header_value" \in Kinds
  BY DEF ValueStart, Early, UrlStates, EndableUrl, Kinds
<1>3. h # <<"upgrade", TRUE>>
  BY DEF Same, NoUpgrade
<1>4. \/ Fail /\ Whole!Fail
      \/ To(b, "header_value_start") /\ Whole!To(b, "header_value_start")
      \/ Step(b, blank, HV, HV) /\ Whole!Step(b, blank, HV, HV)
      \/ Step(b, empty, HV, HV) /\ Whole!Step(b, empty, HV, HV)
      \/ Step(b, length, HV, {}) /\ Whole!Step(b, length, HV, {})
      \/ Step(b, other, HV, {}) /\ Whole!Step(b, other, HV, {})
      \/ \E v, w \in KnownValues :
           /\ Parts[v][1] = b /\ Parts[w][1] = b
           /\ Step(b, known(v), HV, {}) /\ Whole!Step(b, known(w), HV, {})
  <2>0. "CR" \notin Blank /\ "LF" \notin Blank
    BY DEF Blank
  <2>1. CASE b \in Blank
    BY <2>1, <2>0, NowSame, WholeConstants, Zenon DEF ValueStart, Whole!ValueStart
  <2>2. CASE b = "CR"
    BY <2>2, <2>0, NowSame, WholeConstants, Zenon DEF ValueStart, Whole!ValueStart, Eol
  <2>3. CASE b = "LF"
    BY <2>3, <2>0, NowSame, WholeConstants, Zenon DEF ValueStart, Whole!ValueStart, Eol
  <2>4. CASE b \notin Blank \cup Eol
    <3>1. CASE h = <<"content_length", TRUE>>
      <4>1. looking = {} /\ h # <<"upgrade", TRUE>>
        <5>1. \A v \in KnownValues : h # <<ValueOf[v], TRUE>>
          BY <3>1 DEF KnownValues, ValueOf
        <5> QED
          BY <1>3, <5>1
      <4>2. CASE b \in Digit
        BY <2>4, <3>1, <4>1, <4>2, NowSame, WholeConstants, Zenon DEF ValueStart,
           Whole!ValueStart, Eol
      <4>3. CASE b \notin Digit
        BY <2>4, <3>1, <4>1, <4>3, NowSame, WholeConstants, Zenon DEF ValueStart,
           Whole!ValueStart, Eol
      <4> QED
        BY <4>2, <4>3
    <3>2. CASE h # <<"content_length", TRUE>> /\ looking = {}
      BY <1>3, <2>4, <3>2, NowSame, WholeConstants, Zenon DEF ValueStart, Whole!ValueStart, Eol
    <3>3. CASE h # <<"content_length", TRUE>> /\ looking # {}
      BY <1>3, <2>4, <3>3, NowSame, WholeConstants, Zenon DEF ValueStart, Whole!ValueStart, Eol
    <3> QED
      BY <3>1, <3>2, <3>3
  <2> QED
    BY <2>1, <2>2, <2>3, <2>4 DEF Eol
<1>5. ASSUME NEW v \in KnownValues, NEW w \in KnownValues, Parts[v][1] = Parts[w][1]
      PROVE  v = w
  BY <1>5 DEF KnownValues, Parts
<1>6. ASSUME NEW p, p.type = parser.type, p.state = "header_value", NoUpgrade(p)
      PROVE  Fits(p, HV, {})
  BY <1>1, <1>2, <1>6, HeldAre DEF Fits
<1>7. ASSUME NEW p, p.type = parser.type, NoUpgrade(p),
             p.state \in {"header_almost_done", "header_field_start"}
      PROVE  Fits(p, HV, HV)
  BY <1>1, <1>2, <1>7, HeldAre DEF Fits
<1>8. ASSUME NEW g, g # <<"upgrade", TRUE>>
      PROVE  LET q == value([Now EXCEPT !.header_state = g])
             IN  q.type = parser.type /\ q.state = "header_value" /\ NoUpgrade(q)
  BY <1>8, NowSame, ParsersAre DEF NoUpgrade, Same
<1>9. Fits(blank, HV, HV) /\ Fits(empty, HV, HV)
  <2>1. blank.type = parser.type /\ blank.state = "header_almost_done" /\ NoUpgrade(blank)
    BY MatchedSame, LookingFor
  <2>2. empty.type = parser.type /\ empty.state = "header_field_start" /\ NoUpgrade(empty)
    BY Moved
  <2> QED
    BY <1>7, <2>1, <2>2
<1>10. Fits(length, HV, {}) /\ Fits(other, HV, {})
  <2>1. PICK n : n = NumeralValue[b]
    OBVIOUS
  <2>2. length.type = parser.type /\ length.state = "header_value" /\ NoUpgrade(length)
    BY <2>1, NowSame, ParsersAre DEF NoUpgrade, Same
  <2>3. other.type = parser.type /\ other.state = "header_value" /\ NoUpgrade(other)
    BY <1>8, MatchedSame
  <2> QED
    BY <1>6, <2>2, <2>3
<1>11. \A v \in KnownValues : Fits(known(v), HV, {})
  <2> TAKE v \in KnownValues
  <2>1. <<v, FALSE>> # <<"upgrade", TRUE>>
    OBVIOUS
  <2>2. known(v).type = parser.type /\ known(v).state = "header_value" /\ NoUpgrade(known(v))
    BY <1>8, <2>1
  <2> QED
    BY <1>6, <2>2
<1>12. CASE To(b, "header_value_start") /\ Whole!To(b, "header_value_start")
  BY <1>1, <1>2, <1>12, HeldAre, ToSame
<1> HIDE DEF h, value, looking, blank, empty, length, known, other
<1> QED
  BY <1>4, <1>5, <1>9, <1>10, <1>11, <1>12 DEF Both

LEMMA ValueSame ==
  ASSUME Same, NEW b \in Plainly, Value(b), Whole!Value(b)
  PROVE  Both(b)
<1> DEFINE length == [Now EXCEPT !.content_length = Shifted(Now.content_length, 10, NumeralValue[b])]
           next == IF b = "SP" /\ Now.header_state[2] THEN Now.header_state ELSE Matched(b)
           matching == [Now EXCEPT !.header_state = next]
           HV == {"header_value"}
<1>1. {"header_almost_done", "header_value_lws"} \subseteq Bare \ Early
  BY BareAre DEF Early, UrlStates, EndableUrl
<1>2. parser.state = "header_value" /\ "header_value" \notin Early /\ "header_value" \in Kinds
  BY DEF Value, Early, UrlStates, EndableUrl, Kinds
<1>3. \/ Fail /\ Whole!Fail
      \/ Tell(b, "header_almost_done", "header_value") /\ Whole!Tell(b, "header_almost_done", "header_value")
      \/ Step(b, EndLine, {}, HV) /\ Whole!Step(b, EndLine, {}, HV)
      \/ Step(b, Now, {}, {}) /\ Whole!Step(b, Now, {}, {})
      \/ Step(b, length, {}, {}) /\ Whole!Step(b, length, {}, {})
      \/ Step(b, matching, {}, {}) /\ Whole!Step(b, matching, {}, {})
  <2>1. CASE b \in Eol
    BY <2>1, NowSame, EndLineSame, WholeConstants, Zenon DEF Value, Whole!Value, Eol
  <2>2. CASE b \notin Eol /\ parser.header_state = <<"content_length", TRUE>>
    <3>1. ContentLength(b) /\ Whole!ContentLength(b)
      BY <2>2, NowSame, WholeConstants, Zenon DEF Value, Whole!Value, Eol
    <3>2. CASE b = "SP"
      BY <3>1, <3>2, NowSame, Zenon DEF ContentLength, Whole!ContentLength
    <3>3. CASE b # "SP" /\ (b \notin Digit \/ Overflow(parser.content_length, 10, NumeralValue[b]))
      BY <3>1, <3>3, NowSame, WholeConstants, WholeOps, Zenon DEF ContentLength, Whole!ContentLength
    <3>4. CASE b # "SP" /\ b \in Digit /\ ~Overflow(parser.content_length, 10, NumeralValue[b])
      BY <3>1, <3>4, NowSame, WholeConstants, WholeOps, Zenon DEF ContentLength, Whole!ContentLength
    <3> QED
      BY <3>2, <3>3, <3>4
  <2>3. CASE b \notin Eol /\ parser.header_state # <<"content_length", TRUE>>
    BY <2>3, NowSame, MatchedSame, WholeConstants, Zenon DEF Value, Whole!Value, Eol
  <2> QED
    BY <2>1, <2>2, <2>3
<1>4. ASSUME NEW p, p.type = parser.type, p.state = "header_value", NoUpgrade(p)
      PROVE  Fits(p, {}, {})
  BY <1>2, <1>4, HeldAre DEF Fits
<1>5. Fits(EndLine, {}, HV)
  BY <1>1, <1>2, EndLineSame, HeldAre DEF Fits
<1>6. NoUpgrade(Now)
  BY NowSame DEF Same, NoUpgrade
<1>7. Fits(Now, {}, {})
  BY <1>2, <1>4, <1>6, NowSame
<1>8. Fits(length, {}, {})
  <2>1. PICK n : n = Shifted(Now.content_length, 10, NumeralValue[b])
    OBVIOUS
  <2>2. length.type = parser.type /\ length.state = "header_value" /\ NoUpgrade(length)
    BY <1>2, <2>1, NowSame, ParsersAre DEF NoUpgrade, Same
  <2> QED
    BY <1>4, <2>2
<1>9. Fits(matching, {}, {})
  <2>1. next # <<"upgrade", TRUE>>
    BY MatchedSame, NowSame DEF Same, NoUpgrade
  <2> HIDE DEF next
  <2>2. matching.type = parser.type /\ matching.state = "header_value" /\ NoUpgrade(matching)
    BY <1>2, <2>1, LookingFor
  <2> QED
    BY <1>4, <2>2
<1>10. CASE Tell(b, "header_almost_done", "header_value") /\ Whole!Tell(b, "header_almost_done", "header_value")
  BY <1>1, <1>2, <1>10, HeldAre, TellSame
<1> HIDE DEF length, next, matching
<1> QED
  BY <1>3, <1>5, <1>7, <1>8, <1>9, <1>10 DEF Both

(* The end of the headers, and of a body whose last byte this is.           *)
Ended(b) ==
  \E q, events :
    /\ parser' = q /\ wholeParser' = q
    /\ calls' = events /\ wholeCalls' = events
    /\ UNCHANGED <<marks, running, wholeMarks, wholeRunning>>
    /\ q.type = parser.type /\ NoUpgrade(q)
    /\ Held(parser.state) = {} /\ parser.state \notin Filled /\ Held(q.state) = {}
    /\ \/ events = <<HeadersComplete>> /\ q.state \notin Early
       \/ events \in {<<MessageComplete>>, <<HeadersComplete, MessageComplete>>}

LEMMA InitialSame ==
  ASSUME NEW type
  PROVE  Initial(type).type = type /\ Initial(type).state = "start" /\ NoUpgrade(Initial(type))
  BY DEF Initial, General, NoUpgrade

LEMMA CompletedSame ==
  ASSUME NEW p \in Parsers, NoUpgrade(p), NEW q, q = Completed(p, TRUE)
  PROVE  q.type = p.type /\ q.state \in {"start", "dead"} /\ NoUpgrade(q)
<1>1. CASE p.type = "REQUEST"
  BY <1>1, InitialSame DEF Completed
<1>2. CASE p.type # "REQUEST"
  <2>1. PICK s \in {"start", "dead"} : q = [p EXCEPT !.state = s]
    BY <1>2 DEF Completed
  <2> QED
    BY <2>1, ParsersAre DEF NoUpgrade
<1> QED
  BY <1>1, <1>2

LEMMA EndOfHeadersSame ==
  ASSUME Same, NEW b \in Plainly, EndOfHeaders(b, TRUE), Whole!EndOfHeaders(b, TRUE)
  PROVE  Both(b) \/ Ended(b)
<1> DEFINE p == [Now EXCEPT !.nread = 0]
           body == IF "CHUNKED" \in p.flags THEN "chunk_size_start"
                   ELSE IF NeedsEof(p) THEN "body_identity_eof" ELSE "body_identity"
           r == [p EXCEPT !.state = body]
<1>1. parser.state \in {"headers_almost_done", "header_field_start", "header_value_lws"}
  BY DEF EndOfHeaders, AtFieldStart
<1>2. Held(parser.state) = {} /\ parser.state \notin Filled
  BY <1>1, BareAre, HeldAre
<1>3. p \in Parsers /\ p.type = parser.type /\ NoUpgrade(p) /\ NoUpgrade(Now)
  BY NowSame, ParsersAre DEF NoUpgrade, Same
<1>4. Held("start") = {} /\ Held("dead") = {}
  BY BareAre, HeldAre DEF LineStates
<1>5. PICK c, d : /\ c = Completed(Now, TRUE) /\ d = Completed(p, TRUE)
                  /\ c.type = parser.type /\ NoUpgrade(c) /\ Held(c.state) = {}
                  /\ d.type = parser.type /\ NoUpgrade(d) /\ Held(d.state) = {}
  <2>1. PICK c, d : c = Completed(Now, TRUE) /\ d = Completed(p, TRUE)
    OBVIOUS
  <2> HIDE DEF p
  <2>2. c.type = parser.type /\ NoUpgrade(c) /\ c.state \in {"start", "dead"}
    BY <1>3, <2>1, CompletedSame, NowSame
  <2>3. d.type = parser.type /\ NoUpgrade(d) /\ d.state \in {"start", "dead"}
    BY <1>3, <2>1, CompletedSame
  <2> QED
    BY <1>4, <2>1, <2>2, <2>3
<1>6. r.type = parser.type /\ NoUpgrade(r) /\ Held(r.state) = {} /\ r.state \notin Early
  <2>1. body \in {"chunk_size_start", "body_identity_eof", "body_identity"}
    OBVIOUS
  <2>2. body \notin Early /\ Held(body) = {}
    <3>1. body \notin Early
      BY <2>1 DEF Early, UrlStates, EndableUrl
    <3>2. body \in BodyStates \/ body \in Bare
      BY <2>1, BareAre DEF BodyStates
    <3> QED
      BY <3>1, <3>2, HeldAre
  <2> HIDE DEF body, p
  <2> QED
    BY <1>3, <2>2, ParsersAre DEF NoUpgrade
<1> DEFINE both(q, events) == /\ parser' = q /\ wholeParser' = q
                              /\ calls' = events /\ wholeCalls' = events
                              /\ UNCHANGED <<marks, running, wholeMarks, wholeRunning>>
<1>7. \/ Fail /\ Whole!Fail
      \/ both(c, <<MessageComplete>>)
      \/ both(d, <<HeadersComplete, MessageComplete>>)
      \/ both(r, <<HeadersComplete>>)
  <2>1. CASE b # "LF"
    BY <2>1, NowSame, Zenon DEF EndOfHeaders, Whole!EndOfHeaders
  <2>2. CASE b = "LF" /\ "TRAILING" \in p.flags
    BY <1>5, <2>2, NowSame, WholeConstants, WholeOps, Zenon DEF EndOfHeaders, Whole!EndOfHeaders
  <2>3. CASE b = "LF" /\ "TRAILING" \notin p.flags /\ Ends(p)
    BY <1>3, <1>5, <2>3, NowSame, WholeConstants, WholeOps, Zenon
       DEF EndOfHeaders, Whole!EndOfHeaders, NoUpgrade
  <2>4. CASE b = "LF" /\ "TRAILING" \notin p.flags /\ ~Ends(p)
    BY <1>3, <1>5, <2>4, NowSame, WholeConstants, WholeOps, Zenon
       DEF EndOfHeaders, Whole!EndOfHeaders, NoUpgrade
  <2> QED
    BY <2>1, <2>2, <2>3, <2>4
<1>8. CASE both(c, <<MessageComplete>>)
  BY <1>2, <1>5, <1>8 DEF Ended
<1>9. CASE both(d, <<HeadersComplete, MessageComplete>>)
  BY <1>2, <1>5, <1>9 DEF Ended
<1>10. CASE both(r, <<HeadersComplete>>)
  <2> HIDE DEF r
  <2> QED
    BY <1>2, <1>6, <1>10 DEF Ended
<1> QED
  BY <1>7, <1>8, <1>9, <1>10 DEF Both

(* The last byte of a body with a length.                                   *)
LastByte(b) ==
  /\ parser.state = "body_identity"
  /\ \E q : /\ parser' = q /\ wholeParser' = q
            /\ q.type = parser.type /\ NoUpgrade(q) /\ Held(q.state) = {} /\ q.state \notin Filled
  /\ marks' = [k \in DOMAIN marks \ {"body"} |-> Append(marks[k], b)]
  /\ wholeMarks' = [k \in DOMAIN wholeMarks \ {"body"} |-> Append(wholeMarks[k], b)]
  /\ calls' = << <<"body", IF "body" \in DOMAIN marks THEN Append(marks["body"], b) ELSE <<b>>>>,
                 MessageComplete >>
  /\ wholeCalls' =
       << <<"body", IF "body" \in DOMAIN wholeMarks THEN Append(wholeMarks["body"], b) ELSE <<b>>>>,
          MessageComplete >>
  /\ UNCHANGED <<running, wholeRunning>>

LEMMA BodyIdentitySame ==
  ASSUME Same, NEW b \in Plainly, BodyIdentity(b, TRUE), Whole!BodyIdentity(b, TRUE)
  PROVE  Both(b) \/ LastByte(b)
<1> DEFINE p == [Now EXCEPT !.content_length = Now.content_length - 1]
<1>1. /\ parser.state = "body_identity" /\ "body_identity" \in Filled /\ "body" \in Kinds
      /\ "body_identity" \notin Early /\ "body_identity" \in BodyStates
  BY DEF BodyIdentity, Filled, BodyStates, Kinds, Early, UrlStates, EndableUrl
<1>2. PICK n : n = Now.content_length - 1
  OBVIOUS
<1>3. p.type = parser.type /\ p.state = "body_identity" /\ NoUpgrade(p)
  BY <1>1, <1>2, NowSame, ParsersAre DEF NoUpgrade, Same
<1>4. p \in Parsers
  <2>1. Now.content_length - 1 \in Lengths
    <3>1. parser.content_length \in 0..Width - 1 /\ parser.content_length # 0
      BY <1>1, ParsersAre DEF Same, IInv, TypeOK, Sound, Lengths
    <3> QED
      BY <3>1, NowSame, WidthAssumption DEF Lengths
  <2> QED
    BY <1>2, <2>1, NowSame, ParsersAre
<1>5. CASE p.content_length > 0
  <2>1. Step(b, p, {"body"}, {}) /\ Whole!Step(b, p, {"body"}, {})
    BY <1>5, NowSame, Zenon DEF BodyIdentity, Whole!BodyIdentity
  <2>2. Fits(p, {"body"}, {})
    <3> HIDE DEF p
    <3> QED
      BY <1>1, <1>3, HeldAre DEF Fits
  <2> QED
    BY <2>1, <2>2 DEF Both
<1>6. CASE ~(p.content_length > 0)
  <2>1. PICK q : q = Completed(p, TRUE)
    OBVIOUS
  <2>2. q.type = parser.type /\ NoUpgrade(q) /\ q.state \in {"start", "dead"}
    <3> HIDE DEF p
    <3> QED
      BY <1>3, <1>4, <2>1, CompletedSame
  <2>3. Held(q.state) = {} /\ q.state \notin Filled
    BY <2>2, BareAre, HeldAre DEF LineStates
  <2>4. parser' = q /\ wholeParser' = q
    BY <1>6, <2>1, NowSame, WholeOps, Zenon DEF BodyIdentity, Whole!BodyIdentity
  <2>5. /\ marks' = [k \in DOMAIN marks \ {"body"} |-> Append(marks[k], b)]
        /\ calls' = << <<"body", IF "body" \in DOMAIN marks THEN Append(marks["body"], b) ELSE <<b>>>>,
                       MessageComplete >>
        /\ UNCHANGED running
    BY <1>6, Zenon DEF BodyIdentity
  <2>6. /\ wholeMarks' = [k \in DOMAIN wholeMarks \ {"body"} |-> Append(wholeMarks[k], b)]
        /\ wholeCalls' =
             << <<"body", IF "body" \in DOMAIN wholeMarks THEN Append(wholeMarks["body"], b) ELSE <<b>>>>,
                MessageComplete >>
        /\ UNCHANGED wholeRunning
    BY <1>6, NowSame, WholeConstants, Zenon DEF Whole!BodyIdentity
  <2> QED
    BY <1>1, <2>2, <2>3, <2>4, <2>5, <2>6 DEF LastByte
<1> QED
  BY <1>5, <1>6

LEMMA BodyIdentityEofSame ==
  ASSUME Same, NEW b \in Plainly, BodyIdentityEof(b), Whole!BodyIdentityEof(b)
  PROVE  Both(b)
<1>1. /\ parser.state = "body_identity_eof" /\ "body_identity_eof" \in Filled /\ "body" \in Kinds
      /\ "body_identity_eof" \notin Early /\ "body_identity_eof" \in BodyStates
  BY DEF BodyIdentityEof, Filled, BodyStates, Kinds, Early, UrlStates, EndableUrl
<1>2. Step(b, Now, {"body"}, {}) /\ Whole!Step(b, Now, {"body"}, {})
  BY NowSame, Zenon DEF BodyIdentityEof, Whole!BodyIdentityEof
<1>3. Fits(Now, {"body"}, {})
  BY <1>1, NowSame, HeldAre DEF Fits, NoUpgrade, Same
<1> QED
  BY <1>2, <1>3 DEF Both

LEMMA ChunkSizeSame ==
  ASSUME Same, NEW b \in Plainly, ChunkSize(b), Whole!ChunkSize(b)
  PROVE  Both(b)
<1> DEFINE first == [Now EXCEPT !.state = "chunk_size", !.content_length = Hex[b]]
           length == [Now EXCEPT !.content_length = Shifted(Now.content_length, 16, Hex[b])]
<1>1. {"chunk_size_start", "chunk_size", "chunk_size_almost_done", "chunk_parameters"} \subseteq Bare \ Early
  BY BareAre DEF LineStates, Early, UrlStates, EndableUrl
<1>2. parser.state \in {"chunk_size_start", "chunk_size"}
  BY DEF ChunkSize
<1>3. \/ Fail /\ Whole!Fail
      \/ \E s \in {"chunk_size_almost_done", "chunk_parameters"} : To(b, s) /\ Whole!To(b, s)
      \/ Step(b, first, {}, {}) /\ Whole!Step(b, first, {}, {})
      \/ /\ parser.state = "chunk_size"
         /\ Step(b, length, {}, {}) /\ Whole!Step(b, length, {}, {})
  <2>1. CASE parser.state = "chunk_size_start"
    BY <2>1, NowSame, WholeConstants, Zenon DEF ChunkSize, Whole!ChunkSize
  <2>2. CASE parser.state = "chunk_size" /\ b \in {"CR", ";", "SP"}
    BY <2>2, NowSame, Zenon DEF ChunkSize, Whole!ChunkSize
  <2>3. CASE /\ parser.state = "chunk_size" /\ b \notin {"CR", ";", "SP"}
             /\ b \notin DOMAIN Hex \/ Overflow(parser.content_length, 16, Hex[b])
    BY <2>3, NowSame, WholeConstants, WholeOps, Zenon DEF ChunkSize, Whole!ChunkSize
  <2>4. CASE /\ parser.state = "chunk_size" /\ b \notin {"CR", ";", "SP"}
             /\ b \in DOMAIN Hex /\ ~Overflow(parser.content_length, 16, Hex[b])
    BY <2>4, NowSame, WholeConstants, WholeOps, Zenon DEF ChunkSize, Whole!ChunkSize
  <2> QED
    BY <1>2, <2>1, <2>2, <2>3, <2>4
<1>4. /\ first.type = parser.type /\ first.state = "chunk_size" /\ NoUpgrade(first)
      /\ length.type = parser.type /\ length.state = parser.state /\ NoUpgrade(length)
  <2>1. PICK m, n : m = Hex[b] /\ n = Shifted(Now.content_length, 16, Hex[b])
    OBVIOUS
  <2> QED
    BY <2>1, NowSame, ParsersAre DEF NoUpgrade, Same
<1>5. \A s \in {"chunk_size_almost_done", "chunk_parameters"} : To(b, s) /\ Whole!To(b, s) => Both(b)
  BY <1>1, <1>2, HeldAre, ToSame
<1> HIDE DEF first, length
<1>6. CASE Step(b, first, {}, {}) /\ Whole!Step(b, first, {}, {})
  BY <1>1, <1>2, <1>4, <1>6, HeldAre, BareStepSame
<1>7. CASE Step(b, length, {}, {}) /\ Whole!Step(b, length, {}, {})
  BY <1>1, <1>2, <1>4, <1>7, HeldAre, BareStepSame
<1> QED
  BY <1>3, <1>5, <1>6, <1>7 DEF Both

LEMMA ChunkSizeAlmostDoneSame ==
  ASSUME Same, NEW b \in Plainly, ChunkSizeAlmostDone(b), Whole!ChunkSizeAlmostDone(b)
  PROVE  Both(b)
<1> DEFINE p == [Now EXCEPT !.nread = 0]
           data == [p EXCEPT !.state = "chunk_data"]
           f == Now.flags \cup {"TRAILING"}
           trailers == [p EXCEPT !.state = "header_field_start", !.flags = f]
<1>1. {"chunk_size_almost_done", "header_field_start"} \subseteq Bare \ Early
  BY BareAre DEF Early, UrlStates, EndableUrl
<1>2. /\ parser.state = "chunk_size_almost_done" /\ "chunk_data" \in BodyStates
      /\ "chunk_data" \notin Early
  BY DEF ChunkSizeAlmostDone, BodyStates, Early, UrlStates, EndableUrl
<1>3. trailers = [p EXCEPT !.state = "header_field_start", !.flags = @ \cup {"TRAILING"}]
  BY NowSame, ParsersAre
<1>4. \/ Fail /\ Whole!Fail
      \/ Step(b, data, {}, {}) /\ Whole!Step(b, data, {}, {})
      \/ Step(b, trailers, {}, {}) /\ Whole!Step(b, trailers, {}, {})
  BY <1>3, NowSame, Zenon DEF ChunkSizeAlmostDone, Whole!ChunkSizeAlmostDone
<1>5. /\ data.type = parser.type /\ data.state = "chunk_data" /\ NoUpgrade(data)
      /\ trailers.type = parser.type /\ trailers.state = "header_field_start" /\ NoUpgrade(trailers)
  <2>1. "UPGRADE" \notin f
    BY NowSame DEF Same, NoUpgrade
  <2> HIDE DEF f
  <2> QED
    BY <2>1, NowSame, ParsersAre DEF NoUpgrade, Same
<1> HIDE DEF data, trailers
<1> QED
  BY <1>1, <1>2, <1>4, <1>5, HeldAre, BareStepSame DEF Both

LEMMA ChunkDataSame ==
  ASSUME Same, NEW b \in Plainly, ChunkData(b), Whole!ChunkData(b)
  PROVE  Both(b)
<1>1. /\ {"chunk_data", "chunk_data_almost_done"} \subseteq Filled \cap BodyStates
      /\ {"chunk_data", "chunk_data_almost_done", "chunk_data_done", "chunk_size_start"} \cap Early = {}
      /\ "body" \in Kinds
  BY DEF Filled, BodyStates, Kinds, Early, UrlStates, EndableUrl
<1>2. {"chunk_data_done", "chunk_size_start"} \subseteq Bare
  BY BareAre
<1>3. CASE parser.state = "chunk_data"
  <2> DEFINE left == parser.content_length - 1
             s == IF left = 0 THEN "chunk_data_almost_done" ELSE Now.state
             p == [Now EXCEPT !.state = s, !.content_length = left]
  <2>1. p = [Now EXCEPT !.state = IF left = 0 THEN "chunk_data_almost_done" ELSE @,
                        !.content_length = left]
    BY NowSame, ParsersAre
  <2>2. Step(b, p, {"body"}, {}) /\ Whole!Step(b, p, {"body"}, {})
    BY <1>3, <2>1, NowSame, Zenon DEF ChunkData, Whole!ChunkData
  <2>3. s \in {"chunk_data", "chunk_data_almost_done"}
    BY <1>3, NowSame
  <2> HIDE DEF left, s
  <2>4. p.type = parser.type /\ p.state = s /\ NoUpgrade(p)
    BY NowSame, ParsersAre DEF NoUpgrade, Same
  <2> HIDE DEF p
  <2>5. Fits(p, {"body"}, {})
    BY <1>1, <1>3, <2>3, <2>4, HeldAre DEF Fits
  <2> QED
    BY <2>2, <2>5 DEF Both
<1>4. CASE parser.state = "chunk_data_almost_done"
  <2> DEFINE p == [Now EXCEPT !.state = "chunk_data_done"]
  <2>1. \/ Fail /\ Whole!Fail
        \/ Step(b, p, {}, {"body"}) /\ Whole!Step(b, p, {}, {"body"})
    BY <1>4, NowSame, Zenon DEF ChunkData, Whole!ChunkData, Tell, Whole!Tell
  <2>2. p.type = parser.type /\ p.state = "chunk_data_done" /\ NoUpgrade(p)
    BY Moved
  <2> HIDE DEF p
  <2>3. Fits(p, {}, {"body"})
    BY <1>1, <1>2, <1>4, <2>2, HeldAre DEF Fits
  <2> QED
    BY <2>1, <2>3 DEF Both
<1>5. CASE parser.state = "chunk_data_done"
  <2> DEFINE p == [Now EXCEPT !.nread = 0, !.state = "chunk_size_start"]
  <2>1. \/ Fail /\ Whole!Fail
        \/ Step(b, p, {}, {}) /\ Whole!Step(b, p, {}, {})
    BY <1>5, NowSame, Zenon DEF ChunkData, Whole!ChunkData
  <2>2. p.type = parser.type /\ p.state = "chunk_size_start" /\ NoUpgrade(p)
    BY NowSame, ParsersAre DEF NoUpgrade, Same
  <2> HIDE DEF p
  <2> QED
    BY <1>1, <1>2, <1>5, <2>1, <2>2, HeldAre, BareStepSame DEF Both
<1> QED
  BY <1>3, <1>4, <1>5 DEF ChunkData

-----------------------------------------------------------------------------
(* The state and the byte say which action it is.                           *)
Handler(s, b) ==
  IF s \in UrlStates THEN "MoveUrl"
  ELSE IF s \in LineStates THEN "MoveLine"
  ELSE IF s \in VersionState THEN "Version"
  ELSE IF s \in {"chunk_size_start", "chunk_size"} THEN "ChunkSize"
  ELSE IF s \in {"chunk_data", "chunk_data_almost_done", "chunk_data_done"} THEN "ChunkData"
  ELSE IF s = "headers_almost_done" THEN "EndOfHeaders"
  ELSE IF s = "header_value_lws" /\ b \in Blank THEN "Fold"
  ELSE IF s \in {"header_field_start", "header_value_lws"}
    THEN IF b = "LF" THEN "EndOfHeaders" ELSE "FieldStart"
  ELSE s

LEMMA HandlerIs ==
  ASSUME NEW b \in Byte
  PROVE  /\ StartMessage(b) => Handler(parser.state, b) = "start"
         /\ MatchMethod(b) => Handler(parser.state, b) = "method"
         /\ BeginUrl(b) => Handler(parser.state, b) = "spaces_before_url"
         /\ MoveUrl(b) => Handler(parser.state, b) = "MoveUrl"
         /\ MoveLine(b) => Handler(parser.state, b) = "MoveLine"
         /\ Version(b) => Handler(parser.state, b) = "Version"
         /\ FieldStart(b) => Handler(parser.state, b) = "FieldStart"
         /\ Field(b) => Handler(parser.state, b) = "header_field"
         /\ ValueStart(b) => Handler(parser.state, b) = "header_value_start"
         /\ Value(b) => Handler(parser.state, b) = "header_value"
         /\ HeaderAlmostDone(b) => Handler(parser.state, b) = "header_almost_done"
         /\ Fold(b) => Handler(parser.state, b) = "Fold"
         /\ EndOfHeaders(b, TRUE) => Handler(parser.state, b) = "EndOfHeaders"
         /\ BodyIdentity(b, TRUE) => Handler(parser.state, b) = "body_identity"
         /\ BodyIdentityEof(b) => Handler(parser.state, b) = "body_identity_eof"
         /\ ChunkSize(b) => Handler(parser.state, b) = "ChunkSize"
         /\ ChunkSizeAlmostDone(b) => Handler(parser.state, b) = "chunk_size_almost_done"
         /\ ChunkData(b) => Handler(parser.state, b) = "ChunkData"
<1> USE DEF UrlStates, EndableUrl, LineStates, VersionState
<1>1. "LF" \notin Token /\ "LF" \in Eol /\ "LF" \notin Blank /\ "CR" \notin Blank
  BY DEF Token, Alpha, Method, Digit, Numeral, Eol, Blank
<1>2. /\ StartMessage(b) => Handler(parser.state, b) = "start"
      /\ MatchMethod(b) => Handler(parser.state, b) = "method"
      /\ BeginUrl(b) => Handler(parser.state, b) = "spaces_before_url"
  BY DEF StartMessage, MatchMethod, BeginUrl, Handler
<1>3. MoveUrl(b) => Handler(parser.state, b) = "MoveUrl"
  BY DEF MoveUrl, Handler
<1>4. MoveLine(b) => Handler(parser.state, b) = "MoveLine"
  BY DEF MoveLine, Handler
<1>5. Version(b) => Handler(parser.state, b) = "Version"
  <2>1. Version(b) => parser.state \in VersionState
    BY DEF Version, VersionState
  <2> QED
    BY <2>1 DEF Handler
<1>6. FieldStart(b) => Handler(parser.state, b) = "FieldStart"
  <2> HAVE FieldStart(b)
  <2>1. parser.state \in {"header_field_start", "header_value_lws"} /\ b # "LF"
        /\ (parser.state = "header_value_lws" => b \notin Blank)
    BY <1>1 DEF FieldStart, AtFieldStart
  <2> QED
    BY <2>1 DEF Handler
<1>7. /\ Field(b) => Handler(parser.state, b) = "header_field"
      /\ ValueStart(b) => Handler(parser.state, b) = "header_value_start"
      /\ Value(b) => Handler(parser.state, b) = "header_value"
      /\ HeaderAlmostDone(b) => Handler(parser.state, b) = "header_almost_done"
  BY DEF Field, ValueStart, Value, HeaderAlmostDone, Handler
<1>10. Fold(b) => Handler(parser.state, b) = "Fold"
  <2>1. Fold(b) => parser.state = "header_value_lws" /\ b \in Blank
    BY DEF Fold
  <2> QED
    BY <2>1 DEF Handler
<1>8. EndOfHeaders(b, TRUE) => Handler(parser.state, b) = "EndOfHeaders"
  <2> HAVE EndOfHeaders(b, TRUE)
  <2>1. \/ parser.state = "headers_almost_done"
        \/ parser.state \in {"header_field_start", "header_value_lws"} /\ b = "LF"
    BY DEF EndOfHeaders, AtFieldStart
  <2> QED
    BY <1>1, <2>1 DEF Handler
<1>9. /\ BodyIdentity(b, TRUE) => Handler(parser.state, b) = "body_identity"
      /\ BodyIdentityEof(b) => Handler(parser.state, b) = "body_identity_eof"
      /\ ChunkSize(b) => Handler(parser.state, b) = "ChunkSize"
      /\ ChunkSizeAlmostDone(b) => Handler(parser.state, b) = "chunk_size_almost_done"
      /\ ChunkData(b) => Handler(parser.state, b) = "ChunkData"
  BY DEF BodyIdentity, BodyIdentityEof, ChunkSize, ChunkSizeAlmostDone, ChunkData, Handler
<1> QED
  BY <1>2, <1>3, <1>4, <1>5, <1>6, <1>7, <1>8, <1>9, <1>10

LEMMA WholeHandlerIs ==
  ASSUME Same, NEW b \in Byte
  PROVE  /\ Whole!StartMessage(b) => Handler(parser.state, b) = "start"
         /\ Whole!MatchMethod(b) => Handler(parser.state, b) = "method"
         /\ Whole!BeginUrl(b) => Handler(parser.state, b) = "spaces_before_url"
         /\ Whole!MoveUrl(b) => Handler(parser.state, b) = "MoveUrl"
         /\ Whole!MoveLine(b) => Handler(parser.state, b) = "MoveLine"
         /\ Whole!Version(b) => Handler(parser.state, b) = "Version"
         /\ Whole!FieldStart(b) => Handler(parser.state, b) = "FieldStart"
         /\ Whole!Field(b) => Handler(parser.state, b) = "header_field"
         /\ Whole!ValueStart(b) => Handler(parser.state, b) = "header_value_start"
         /\ Whole!Value(b) => Handler(parser.state, b) = "header_value"
         /\ Whole!HeaderAlmostDone(b) => Handler(parser.state, b) = "header_almost_done"
         /\ Whole!Fold(b) => Handler(parser.state, b) = "Fold"
         /\ Whole!EndOfHeaders(b, TRUE) => Handler(parser.state, b) = "EndOfHeaders"
         /\ Whole!BodyIdentity(b, TRUE) => Handler(parser.state, b) = "body_identity"
         /\ Whole!BodyIdentityEof(b) => Handler(parser.state, b) = "body_identity_eof"
         /\ Whole!ChunkSize(b) => Handler(parser.state, b) = "ChunkSize"
         /\ Whole!ChunkSizeAlmostDone(b) => Handler(parser.state, b) = "chunk_size_almost_done"
         /\ Whole!ChunkData(b) => Handler(parser.state, b) = "ChunkData"
<1> USE DEF UrlStates, EndableUrl, LineStates, VersionState
<1>1. "LF" \notin Token /\ "LF" \in Eol /\ "LF" \notin Blank /\ "CR" \notin Blank
  BY DEF Token, Alpha, Method, Digit, Numeral, Eol, Blank
<1>0. wholeParser = parser
  BY DEF Same
<1>2. /\ Whole!StartMessage(b) => Handler(parser.state, b) = "start"
      /\ Whole!MatchMethod(b) => Handler(parser.state, b) = "method"
      /\ Whole!BeginUrl(b) => Handler(parser.state, b) = "spaces_before_url"
  BY <1>0 DEF Whole!StartMessage, Whole!MatchMethod, Whole!BeginUrl, Handler
<1>3. Whole!MoveUrl(b) => Handler(parser.state, b) = "MoveUrl"
  BY <1>0, WholeConstants DEF Whole!MoveUrl, Handler
<1>4. Whole!MoveLine(b) => Handler(parser.state, b) = "MoveLine"
  BY <1>0, WholeConstants DEF Whole!MoveLine, Handler
<1>5. Whole!Version(b) => Handler(parser.state, b) = "Version"
  <2>1. Whole!Version(b) => parser.state \in VersionState
    BY <1>0 DEF Whole!Version, VersionState
  <2> QED
    BY <2>1 DEF Handler
<1>6. Whole!FieldStart(b) => Handler(parser.state, b) = "FieldStart"
  <2> HAVE Whole!FieldStart(b)
  <2>1. parser.state \in {"header_field_start", "header_value_lws"} /\ b # "LF"
        /\ (parser.state = "header_value_lws" => b \notin Blank)
    BY <1>0, <1>1, WholeConstants DEF Whole!FieldStart, Whole!AtFieldStart
  <2> QED
    BY <2>1 DEF Handler
<1>7. /\ Whole!Field(b) => Handler(parser.state, b) = "header_field"
      /\ Whole!ValueStart(b) => Handler(parser.state, b) = "header_value_start"
      /\ Whole!Value(b) => Handler(parser.state, b) = "header_value"
      /\ Whole!HeaderAlmostDone(b) => Handler(parser.state, b) = "header_almost_done"
  BY <1>0, WholeConstants DEF Whole!Field, Whole!ValueStart, Whole!Value, Whole!HeaderAlmostDone,
     Handler
<1>10. Whole!Fold(b) => Handler(parser.state, b) = "Fold"
  <2>1. Whole!Fold(b) => parser.state = "header_value_lws" /\ b \in Blank
    BY <1>0, WholeConstants DEF Whole!Fold
  <2> QED
    BY <2>1 DEF Handler
<1>8. Whole!EndOfHeaders(b, TRUE) => Handler(parser.state, b) = "EndOfHeaders"
  <2> HAVE Whole!EndOfHeaders(b, TRUE)
  <2>1. \/ parser.state = "headers_almost_done"
        \/ parser.state \in {"header_field_start", "header_value_lws"} /\ b = "LF"
    BY <1>0 DEF Whole!EndOfHeaders, Whole!AtFieldStart
  <2> QED
    BY <1>1, <2>1 DEF Handler
<1>9. /\ Whole!BodyIdentity(b, TRUE) => Handler(parser.state, b) = "body_identity"
      /\ Whole!BodyIdentityEof(b) => Handler(parser.state, b) = "body_identity_eof"
      /\ Whole!ChunkSize(b) => Handler(parser.state, b) = "ChunkSize"
      /\ Whole!ChunkSizeAlmostDone(b) => Handler(parser.state, b) = "chunk_size_almost_done"
      /\ Whole!ChunkData(b) => Handler(parser.state, b) = "ChunkData"
  BY <1>0 DEF Whole!BodyIdentity, Whole!BodyIdentityEof, Whole!ChunkSize, Whole!ChunkSizeAlmostDone,
     Whole!ChunkData, Handler
<1> QED
  BY <1>2, <1>3, <1>4, <1>5, <1>6, <1>7, <1>8, <1>9, <1>10

(* A step of the one and a step of the other with the same byte.            *)
LEMMA ExecuteSame ==
  ASSUME Same, NEW b \in Plainly, Execute(b, TRUE), Whole!Execute(b, TRUE)
  PROVE  Both(b) \/ Ended(b) \/ LastByte(b)
<1>1. b \in Byte
  BY DEF Plainly
<1>2. CASE Now.nread > MaxHeader
  <2>1. ~(Now.nread <= MaxHeader) /\ Whole!Now = Now
    <3>1. PICK n \in Nat : n = Now.nread
      BY NowSame, ParsersAre
    <3> QED
      BY <1>2, <3>1, NowSame, MaxHeaderAssumption
  <2>2. Fail
    BY <2>1, Zenon DEF Execute
  <2>3. Whole!Fail
    BY <2>1, Zenon DEF Whole!Execute
  <2> QED
    BY <2>2, <2>3 DEF Both
<1>3. CASE ~(Now.nread > MaxHeader)
  <2>1. ~(Whole!Now.nread > MaxHeader)
    BY <1>3, NowSame
  <2>2. \/ StartMessage(b)
        \/ MatchMethod(b)
        \/ BeginUrl(b)
        \/ MoveUrl(b)
        \/ MoveLine(b)
        \/ Version(b)
        \/ FieldStart(b)
        \/ Field(b)
        \/ ValueStart(b)
        \/ Value(b)
        \/ HeaderAlmostDone(b)
        \/ Fold(b)
        \/ EndOfHeaders(b, TRUE)
        \/ BodyIdentity(b, TRUE)
        \/ BodyIdentityEof(b)
        \/ ChunkSize(b)
        \/ ChunkSizeAlmostDone(b)
        \/ ChunkData(b)
    BY <1>3, Zenon DEF Execute
  <2>3. \/ Whole!StartMessage(b)
        \/ Whole!MatchMethod(b)
        \/ Whole!BeginUrl(b)
        \/ Whole!MoveUrl(b)
        \/ Whole!MoveLine(b)
        \/ Whole!Version(b)
        \/ Whole!FieldStart(b)
        \/ Whole!Field(b)
        \/ Whole!ValueStart(b)
        \/ Whole!Value(b)
        \/ Whole!HeaderAlmostDone(b)
        \/ Whole!Fold(b)
        \/ Whole!EndOfHeaders(b, TRUE)
        \/ Whole!BodyIdentity(b, TRUE)
        \/ Whole!BodyIdentityEof(b)
        \/ Whole!ChunkSize(b)
        \/ Whole!ChunkSizeAlmostDone(b)
        \/ Whole!ChunkData(b)
    BY <2>1, Zenon DEF Whole!Execute
  <2>4. /\ StartMessage(b) => Handler(parser.state, b) = "start"
        /\ MatchMethod(b) => Handler(parser.state, b) = "method"
        /\ BeginUrl(b) => Handler(parser.state, b) = "spaces_before_url"
        /\ MoveUrl(b) => Handler(parser.state, b) = "MoveUrl"
        /\ MoveLine(b) => Handler(parser.state, b) = "MoveLine"
        /\ Version(b) => Handler(parser.state, b) = "Version"
        /\ FieldStart(b) => Handler(parser.state, b) = "FieldStart"
        /\ Field(b) => Handler(parser.state, b) = "header_field"
        /\ ValueStart(b) => Handler(parser.state, b) = "header_value_start"
        /\ Value(b) => Handler(parser.state, b) = "header_value"
        /\ HeaderAlmostDone(b) => Handler(parser.state, b) = "header_almost_done"
        /\ Fold(b) => Handler(parser.state, b) = "Fold"
        /\ EndOfHeaders(b, TRUE) => Handler(parser.state, b) = "EndOfHeaders"
        /\ BodyIdentity(b, TRUE) => Handler(parser.state, b) = "body_identity"
        /\ BodyIdentityEof(b) => Handler(parser.state, b) = "body_identity_eof"
        /\ ChunkSize(b) => Handler(parser.state, b) = "ChunkSize"
        /\ ChunkSizeAlmostDone(b) => Handler(parser.state, b) = "chunk_size_almost_done"
        /\ ChunkData(b) => Handler(parser.state, b) = "ChunkData"
    BY <1>1, HandlerIs
  <2>5. /\ Whole!StartMessage(b) => Handler(parser.state, b) = "start"
        /\ Whole!MatchMethod(b) => Handler(parser.state, b) = "method"
        /\ Whole!BeginUrl(b) => Handler(parser.state, b) = "spaces_before_url"
        /\ Whole!MoveUrl(b) => Handler(parser.state, b) = "MoveUrl"
        /\ Whole!MoveLine(b) => Handler(parser.state, b) = "MoveLine"
        /\ Whole!Version(b) => Handler(parser.state, b) = "Version"
        /\ Whole!FieldStart(b) => Handler(parser.state, b) = "FieldStart"
        /\ Whole!Field(b) => Handler(parser.state, b) = "header_field"
        /\ Whole!ValueStart(b) => Handler(parser.state, b) = "header_value_start"
        /\ Whole!Value(b) => Handler(parser.state, b) = "header_value"
        /\ Whole!HeaderAlmostDone(b) => Handler(parser.state, b) = "header_almost_done"
        /\ Whole!Fold(b) => Handler(parser.state, b) = "Fold"
        /\ Whole!EndOfHeaders(b, TRUE) => Handler(parser.state, b) = "EndOfHeaders"
        /\ Whole!BodyIdentity(b, TRUE) => Handler(parser.state, b) = "body_identity"
        /\ Whole!BodyIdentityEof(b) => Handler(parser.state, b) = "body_identity_eof"
        /\ Whole!ChunkSize(b) => Handler(parser.state, b) = "ChunkSize"
        /\ Whole!ChunkSizeAlmostDone(b) => Handler(parser.state, b) = "chunk_size_almost_done"
        /\ Whole!ChunkData(b) => Handler(parser.state, b) = "ChunkData"
    BY <1>1, WholeHandlerIs
  <2>6. \/ StartMessage(b) /\ Whole!StartMessage(b)
        \/ MatchMethod(b) /\ Whole!MatchMethod(b)
        \/ BeginUrl(b) /\ Whole!BeginUrl(b)
        \/ MoveUrl(b) /\ Whole!MoveUrl(b)
        \/ MoveLine(b) /\ Whole!MoveLine(b)
        \/ Version(b) /\ Whole!Version(b)
        \/ FieldStart(b) /\ Whole!FieldStart(b)
        \/ Field(b) /\ Whole!Field(b)
        \/ ValueStart(b) /\ Whole!ValueStart(b)
        \/ Value(b) /\ Whole!Value(b)
        \/ HeaderAlmostDone(b) /\ Whole!HeaderAlmostDone(b)
        \/ Fold(b) /\ Whole!Fold(b)
        \/ EndOfHeaders(b, TRUE) /\ Whole!EndOfHeaders(b, TRUE)
        \/ BodyIdentity(b, TRUE) /\ Whole!BodyIdentity(b, TRUE)
        \/ BodyIdentityEof(b) /\ Whole!BodyIdentityEof(b)
        \/ ChunkSize(b) /\ Whole!ChunkSize(b)
        \/ ChunkSizeAlmostDone(b) /\ Whole!ChunkSizeAlmostDone(b)
        \/ ChunkData(b) /\ Whole!ChunkData(b)
    BY <2>2, <2>3, <2>4, <2>5, Zenon
  <2> QED
    BY <2>6, StartMessageSame, MatchMethodSame, BeginUrlSame, MoveUrlSame, MoveLineSame,
       VersionSame, FieldStartSame, FieldSame, ValueStartSame, ValueSame, HeaderAlmostDoneSame,
       FoldSame, EndOfHeadersSame, BodyIdentitySame, BodyIdentityEofSame, ChunkSizeSame,
       ChunkSizeAlmostDoneSame, ChunkDataSame
<1> QED
  BY <1>2, <1>3

Iter(mode, m, list, iter) ==
  iter = [s \in SUBSET (DOMAIN list) |->
            IF s = {} THEN m ELSE Gather(mode, iter[s \ {Max(s)}], list[Max(s)])]

LEMMA GatheredIs ==
  ASSUME NEW mode, NEW m, NEW list, NEW g, Iter(mode, m, list, g)
  PROVE  \E iter : Iter(mode, m, list, iter) /\ Gathered(mode, m, list) = iter[DOMAIN list]
<1> DEFINE it == CHOOSE iter : Iter(mode, m, list, iter)
<1>1. Iter(mode, m, list, it)
  OBVIOUS
<1>2. Gathered(mode, m, list) = it[DOMAIN list]
  BY Zenon DEF Gathered, FoldLeft, MapThenFoldSet, Iter
<1> QED
  BY <1>1, <1>2

LEMMA MaxIs == Max({1}) = 1 /\ Max({1,2}) = 2
  BY DEF Max

LEMMA GatheredNone ==
  ASSUME NEW mode, NEW m
  PROVE  Gathered(mode, m, <<>>) = m
<1> DEFINE g == [s \in SUBSET (DOMAIN <<>>) |-> m]
<1>1. \A s \in SUBSET (DOMAIN <<>>) : s = {}
  OBVIOUS
<1>2. Iter(mode, m, <<>>, g)
  BY <1>1 DEF Iter
<1>3. PICK iter : Iter(mode, m, <<>>, iter) /\ Gathered(mode, m, <<>>) = iter[DOMAIN <<>>]
  BY <1>2, GatheredIs
<1> QED
  BY <1>1, <1>3 DEF Iter

LEMMA GatheredOne ==
  ASSUME NEW mode, NEW m, NEW c
  PROVE  Gathered(mode, m, <<c>>) = Gather(mode, m, c)
<1> DEFINE S == DOMAIN <<c>>
           g == [s \in SUBSET S |-> IF s = {} THEN m ELSE Gather(mode, m, c)]
<1>1. S = {1} /\ <<c>>[1] = c
  OBVIOUS
<1>2. \A s \in SUBSET S : s # {} => s = {1} /\ Max(s) = 1 /\ s \ {Max(s)} = {}
  BY <1>1, MaxIs
<1>3. g[{}] = m
  OBVIOUS
<1>4. \A s \in SUBSET S : g[s] = IF s = {} THEN m ELSE Gather(mode, g[s \ {Max(s)}], <<c>>[Max(s)])
  BY <1>1, <1>2, <1>3
<1>5. Iter(mode, m, <<c>>, g)
  BY <1>4, Zenon DEF Iter
<1>6. PICK iter : Iter(mode, m, <<c>>, iter) /\ Gathered(mode, m, <<c>>) = iter[S]
  BY <1>5, GatheredIs
<1> HIDE DEF S
<1>7. iter[{}] = m /\ {1} \in SUBSET S /\ {} \in SUBSET S
  BY <1>1, <1>6 DEF Iter, S
<1>8. iter[{1}] = Gather(mode, iter[{1} \ {Max({1})}], <<c>>[Max({1})])
  BY <1>6, <1>7 DEF Iter, S
<1>9. {1} \ {Max({1})} = {} /\ Max({1}) = 1
  BY MaxIs
<1> QED
  BY <1>1, <1>6, <1>7, <1>8, <1>9

LEMMA GatheredTwo ==
  ASSUME NEW mode, NEW m, NEW c, NEW d
  PROVE  Gathered(mode, m, <<c, d>>) = Gather(mode, Gather(mode, m, c), d)
<1> DEFINE S == DOMAIN <<c, d>>
           n == Gather(mode, m, c)
           g == [s \in SUBSET S |-> IF s = {} THEN m ELSE IF s = {1} THEN n
                                    ELSE IF s = {2} THEN Gather(mode, m, d) ELSE Gather(mode, n, d)]
<1>1. S = {1, 2} /\ <<c, d>>[1] = c /\ <<c, d>>[2] = d
  OBVIOUS
<1>2. Max({2}) = 2
  BY DEF Max
<1>3. \A s \in SUBSET S : s \in {{}, {1}, {2}, {1, 2}}
  BY <1>1
<1>4. /\ {1} \ {Max({1})} = {} /\ {2} \ {Max({2})} = {} /\ {1, 2} \ {Max({1, 2})} = {1}
      /\ {1} # {2} /\ {1} # {1, 2} /\ {2} # {1, 2} /\ {} # {1} /\ {} # {2} /\ {} # {1, 2}
  <2>1. 1 \in {1} /\ 2 \in {2} /\ 1 \in {1, 2} /\ 2 \in {1, 2} /\ 1 \notin {2} /\ 2 \notin {1}
    OBVIOUS
  <2>2. {1, 2} \ {2} = {1} /\ {1} \ {1} = {} /\ {2} \ {2} = {}
    BY <2>1
  <2> QED
    BY <1>2, <2>1, <2>2, MaxIs, Zenon
<1>5. {} \in SUBSET S /\ {1} \in SUBSET S /\ {2} \in SUBSET S /\ {1, 2} \in SUBSET S
  BY <1>1
<1>6. g[{}] = m /\ g[{1}] = n /\ g[{2}] = Gather(mode, m, d) /\ g[{1, 2}] = Gather(mode, n, d)
  <2> HIDE DEF S, n
  <2> QED
    BY <1>4, <1>5, Zenon
<1>7. \A s \in SUBSET S : g[s] = IF s = {} THEN m ELSE Gather(mode, g[s \ {Max(s)}], <<c, d>>[Max(s)])
  <2> SUFFICES ASSUME NEW s \in SUBSET S
               PROVE  g[s] = IF s = {} THEN m ELSE Gather(mode, g[s \ {Max(s)}], <<c, d>>[Max(s)])
    OBVIOUS
  <2>1. n = Gather(mode, m, c)
    OBVIOUS
  <2> HIDE DEF g, S, n
  <2>2. CASE s = {}
    BY <1>6, <2>2, Zenon
  <2>3. CASE s = {1}
    BY <1>1, <1>4, <1>6, <2>1, <2>3, MaxIs, Zenon
  <2>4. CASE s = {2}
    BY <1>1, <1>2, <1>4, <1>6, <2>4, Zenon
  <2>5. CASE s = {1, 2}
    BY <1>1, <1>4, <1>6, <2>5, MaxIs, Zenon
  <2> QED
    BY <1>3, <2>2, <2>3, <2>4, <2>5
<1>8. Iter(mode, m, <<c, d>>, g)
  BY <1>7, Zenon DEF Iter
<1>9. PICK iter : Iter(mode, m, <<c, d>>, iter) /\ Gathered(mode, m, <<c, d>>) = iter[S]
  BY <1>8, GatheredIs
<1>10. n = Gather(mode, m, c)
  OBVIOUS
<1> HIDE DEF S, n, g
<1>11. \A s \in SUBSET S : iter[s] = IF s = {} THEN m ELSE Gather(mode, iter[s \ {Max(s)}], <<c, d>>[Max(s)])
  BY <1>9, Zenon DEF Iter, S
<1>12. iter[{}] = m
  BY <1>5, <1>11, Zenon
<1>13. iter[{1}] = n
  <2>1. iter[{1}] = Gather(mode, iter[{1} \ {Max({1})}], <<c, d>>[Max({1})])
    BY <1>4, <1>5, <1>11
  <2> QED
    BY <1>1, <1>4, <1>10, <1>12, <2>1, MaxIs, Zenon
<1>14. iter[{1, 2}] = Gather(mode, n, d)
  <2>1. iter[{1, 2}] = Gather(mode, iter[{1, 2} \ {Max({1, 2})}], <<c, d>>[Max({1, 2})])
    BY <1>4, <1>5, <1>11
  <2> QED
    BY <1>1, <1>4, <1>13, <2>1, MaxIs, Zenon
<1> QED
  BY <1>1, <1>9, <1>10, <1>14, Zenon

-----------------------------------------------------------------------------
(* A message that is being put together; and two of which nothing can be    *)
(* told apart, but for how much there is of a URL that has an error.        *)
Shaped(m) ==
  /\ m = [key |-> m.key, val |-> m.val, gotval |-> m.gotval, error |-> m.error,
          url |-> m.url, headers |-> m.headers, body |-> m.body]
  /\ m.key \in Seq(Byte) /\ m.val \in Seq(Byte) /\ m.url \in Seq(Byte) /\ m.body \in Seq(Byte)
  /\ m.gotval \in BOOLEAN

Alike(m, n) ==
  /\ m.key = n.key /\ m.val = n.val /\ m.gotval = n.gotval /\ m.error = n.error
  /\ m.headers = n.headers /\ m.body = n.body
  /\ m.error = "OK" => m.url = n.url

LEMMA AlikeSeen ==
  ASSUME NEW m, Shaped(m), NEW n, Shaped(n), Alike(m, n)
  PROVE  Seen(m) = Seen(n)
<1>1. CASE m.error = "OK"
  <2>1. Seen(m) = m /\ Seen(n) = n
    BY <1>1, Zenon DEF Alike, Seen
  <2> QED
    BY <1>1, <2>1, Zenon DEF Shaped, Alike
<1>2. CASE m.error # "OK"
  <2>1. /\ Seen(m) = [key |-> m.key, val |-> m.val, gotval |-> m.gotval, error |-> m.error,
                      url |-> <<>>, headers |-> m.headers, body |-> m.body]
        /\ Seen(n) = [key |-> n.key, val |-> n.val, gotval |-> n.gotval, error |-> n.error,
                      url |-> <<>>, headers |-> n.headers, body |-> n.body]
    BY <1>2 DEF Shaped, Alike, Seen
  <2> QED
    BY <2>1 DEF Alike
<1> QED
  BY <1>1, <1>2

(* save_last_header, field by field.                                        *)
Names(m) ==
  IF m.gotval THEN [n \in DOMAIN m.headers \cup {m.key} |-> IF n = m.key THEN m.val ELSE m.headers[n]]
  ELSE m.headers

Verdict(mode, headers, error) ==
  IF mode = "RESPONSE" THEN error
  ELSE IF TooLarge(Atol(Header(headers, ContentLengthName))) THEN "BODY_TOO_LARGE"
  ELSE IF Header(headers, <<"Expect">>) = <<"100-continue">> THEN "NEED_100_CONTINUE"
  ELSE error

LEMMA SaveIs ==
  ASSUME NEW mode, NEW m, Shaped(m)
  PROVE  SaveLastHeader(mode, m) =
           [key |-> IF m.gotval THEN <<>> ELSE m.key, val |-> IF m.gotval THEN <<>> ELSE m.val,
            gotval |-> FALSE, error |-> Verdict(mode, Names(m), m.error),
            url |-> m.url, headers |-> Names(m), body |-> m.body]
<1>1. PICK key, val, names, error :
        /\ key = IF m.gotval THEN <<>> ELSE m.key
        /\ val = IF m.gotval THEN <<>> ELSE m.val
        /\ names = Names(m)
        /\ error = Verdict(mode, Names(m), m.error)
  OBVIOUS
<1> DEFINE saved(e) == [key |-> key, val |-> val, gotval |-> FALSE, error |-> e,
                        url |-> m.url, headers |-> names, body |-> m.body]
<1>2. Saved(m) = saved(m.error)
  <2>1. CASE m.gotval
    <3>1. Saved(m) = [m EXCEPT !.headers = names, !.gotval = FALSE, !.key = <<>>, !.val = <<>>]
      BY <1>1, <2>1, Zenon DEF Saved, Names
    <3> QED
      BY <1>1, <2>1, <3>1 DEF Shaped
  <2>2. CASE ~m.gotval
    <3>1. m.gotval = FALSE
      BY <2>2 DEF Shaped
    <3> QED
      BY <1>1, <3>1, Zenon DEF Shaped, Saved, Names
  <2> QED
    BY <2>1, <2>2
<1>3. /\ saved(m.error).headers = names /\ saved(m.error).error = m.error
      /\ \A e : [saved(m.error) EXCEPT !.error = e] = saved(e)
  <2>1. PICK url, body : url = m.url /\ body = m.body
    OBVIOUS
  <2>2. \A d : saved(d) = [key |-> key, val |-> val, gotval |-> FALSE, error |-> d,
                           url |-> url, headers |-> names, body |-> body]
    BY <2>1
  <2> HIDE DEF saved
  <2>3. ASSUME NEW d, NEW e
        PROVE  saved(d).headers = names /\ saved(d).error = d /\ [saved(d) EXCEPT !.error = e] = saved(e)
    <3>1. PICK r, s, no : /\ r = saved(d) /\ s = saved(e)
                          /\ r = [key |-> key, val |-> val, gotval |-> no, error |-> d,
                                  url |-> url, headers |-> names, body |-> body]
                          /\ s = [key |-> key, val |-> val, gotval |-> no, error |-> e,
                                  url |-> url, headers |-> names, body |-> body]
      BY <2>2, Zenon
    <3>2. r.headers = names /\ r.error = d
      BY <3>1
    <3>3. [r EXCEPT !.error = e] = s
      BY <3>1
    <3> QED
      BY <3>1, <3>2, <3>3
  <2> QED
    BY <2>3
<1> HIDE DEF saved
<1>4. SaveLastHeader(mode, m) = saved(error)
  BY <1>1, <1>2, <1>3, Zenon DEF SaveLastHeader, Verdict
<1> QED
  BY <1>1, <1>4 DEF saved

LEMMA VerdictTwice ==
  ASSUME NEW mode, NEW headers, NEW error
  PROVE  Verdict(mode, headers, Verdict(mode, headers, error)) = Verdict(mode, headers, error)
  BY Zenon DEF Verdict

LEMMA SaveKeeps ==
  ASSUME NEW mode, NEW m, Shaped(m), NEW n, Shaped(n), Alike(m, n)
  PROVE  Shaped(SaveLastHeader(mode, m)) /\ Alike(SaveLastHeader(mode, m), SaveLastHeader(mode, n))
<1>1. Names(m) = Names(n)
  BY Zenon DEF Names, Alike
<1>2. Verdict(mode, Names(m), m.error) = Verdict(mode, Names(n), n.error)
  BY <1>1, Zenon DEF Alike
<1>3. Verdict(mode, Names(m), m.error) = "OK" => m.error = "OK"
  BY Zenon DEF Verdict
<1>4. PICK names, error : names = Names(m) /\ error = Verdict(mode, Names(m), m.error)
  OBVIOUS
<1>5. PICK s : s = SaveLastHeader(mode, m)
  OBVIOUS
<1>6. PICK t : t = SaveLastHeader(mode, n)
  OBVIOUS
<1>7. s = [key |-> IF m.gotval THEN <<>> ELSE m.key, val |-> IF m.gotval THEN <<>> ELSE m.val,
           gotval |-> FALSE, error |-> error, url |-> m.url, headers |-> names, body |-> m.body]
  BY <1>4, <1>5, SaveIs
<1>8. t = [key |-> IF n.gotval THEN <<>> ELSE n.key, val |-> IF n.gotval THEN <<>> ELSE n.val,
           gotval |-> FALSE, error |-> error, url |-> n.url, headers |-> names, body |-> n.body]
  BY <1>1, <1>2, <1>4, <1>6, SaveIs
<1>9. Shaped(s)
  BY <1>7 DEF Shaped
<1>10. Alike(s, t)
  BY <1>3, <1>4, <1>7, <1>8 DEF Alike
<1> QED
  BY <1>5, <1>6, <1>9, <1>10

LEMMA Concatenated ==
  ASSUME NEW c \in Seq(Byte), NEW d \in Seq(Byte)
  PROVE  /\ c \o d \in Seq(Byte) /\ Len(c \o d) = Len(c) + Len(d) /\ Len(c) \in Nat /\ Len(d) \in Nat
         /\ \A e \in Seq(Byte) : (c \o d) \o e = c \o (d \o e)
         /\ \A b \in Byte : Append(c, b) = c \o <<b>> /\ <<b>> \in Seq(Byte) /\ Append(<<>>, b) = <<b>>
         /\ <<>> \in Seq(Byte) /\ c \o <<>> = c
<1>1. c \o d \in Seq(Byte) /\ Len(c \o d) = Len(c) + Len(d) /\ Len(c) \in Nat /\ Len(d) \in Nat
  OBVIOUS
<1>2. ASSUME NEW e \in Seq(Byte)
      PROVE  (c \o d) \o e = c \o (d \o e)
  OBVIOUS
<1>3. ASSUME NEW b \in Byte
      PROVE  Append(c, b) = c \o <<b>> /\ <<b>> \in Seq(Byte) /\ Append(<<>>, b) = <<b>>
  OBVIOUS
<1>4. <<>> \in Seq(Byte) /\ c \o <<>> = c
  OBVIOUS
<1> QED
  BY <1>1, <1>2, <1>3, <1>4

(* The callbacks of the four kinds, field by field.                         *)
Fields(key, val, gotval, error, url, headers, body) ==
  [key |-> key, val |-> val, gotval |-> gotval, error |-> error,
   url |-> url, headers |-> headers, body |-> body]

LEMMA FieldsAre ==
  ASSUME NEW key, NEW val, NEW gotval, NEW error, NEW url, NEW headers, NEW body,
         NEW m, m = Fields(key, val, gotval, error, url, headers, body)
  PROVE  /\ m.key = key /\ m.val = val /\ m.gotval = gotval /\ m.error = error
         /\ m.url = url /\ m.headers = headers /\ m.body = body
  BY DEF Fields

LEMMA ShapedIs ==
  ASSUME NEW m, Shaped(m)
  PROVE  m = Fields(m.key, m.val, m.gotval, m.error, m.url, m.headers, m.body)
  BY Zenon DEF Shaped, Fields

LEMMA FieldSet ==
  ASSUME NEW m, Shaped(m), NEW x
  PROVE  /\ [m EXCEPT !.key = x] = Fields(x, m.val, m.gotval, m.error, m.url, m.headers, m.body)
         /\ [m EXCEPT !.val = x] = Fields(m.key, x, m.gotval, m.error, m.url, m.headers, m.body)
         /\ [m EXCEPT !.error = x] = Fields(m.key, m.val, m.gotval, x, m.url, m.headers, m.body)
         /\ [m EXCEPT !.url = x] = Fields(m.key, m.val, m.gotval, m.error, x, m.headers, m.body)
         /\ [m EXCEPT !.body = x] = Fields(m.key, m.val, m.gotval, m.error, m.url, m.headers, x)
<1>0. m = Fields(m.key, m.val, m.gotval, m.error, m.url, m.headers, m.body)
  BY ShapedIs
<1>1. [m EXCEPT !.key = x] = Fields(x, m.val, m.gotval, m.error, m.url, m.headers, m.body)
  BY <1>0 DEF Fields
<1>2. [m EXCEPT !.val = x] = Fields(m.key, x, m.gotval, m.error, m.url, m.headers, m.body)
  BY <1>0 DEF Fields
<1>3. [m EXCEPT !.error = x] = Fields(m.key, m.val, m.gotval, x, m.url, m.headers, m.body)
  BY <1>0 DEF Fields
<1>4. [m EXCEPT !.url = x] = Fields(m.key, m.val, m.gotval, m.error, x, m.headers, m.body)
  BY <1>0 DEF Fields
<1>5. [m EXCEPT !.body = x] = Fields(m.key, m.val, m.gotval, m.error, m.url, m.headers, x)
  BY <1>0 DEF Fields
<1> QED
  BY <1>1, <1>2, <1>3, <1>4, <1>5

LEMMA GatherUrl ==
  ASSUME NEW mode, NEW m, Shaped(m), NEW d
  PROVE  Gather(mode, m, <<"url", d>>) =
           IF mode = "RESPONSE" \/ m.error = "URI_TOO_LONG" THEN m
           ELSE IF Len(m.url) + Len(d) > MaxUri
             THEN Fields(m.key, m.val, m.gotval, "URI_TOO_LONG", m.url, m.headers, m.body)
           ELSE Fields(m.key, m.val, m.gotval, m.error, m.url \o d, m.headers, m.body)
<1>1. Gather(mode, m, <<"url", d>>) = AddUrlFragment(mode, m, d)
  BY DEF Gather
<1>2. /\ [m EXCEPT !.error = "URI_TOO_LONG"] =
           Fields(m.key, m.val, m.gotval, "URI_TOO_LONG", m.url, m.headers, m.body)
      /\ [m EXCEPT !.url = m.url \o d] =
           Fields(m.key, m.val, m.gotval, m.error, m.url \o d, m.headers, m.body)
  BY FieldSet
<1> QED
  BY <1>1, <1>2, Zenon DEF AddUrlFragment

LEMMA GatherField ==
  ASSUME NEW mode, NEW m, Shaped(m), NEW d, NEW s, s = SaveLastHeader(mode, m)
  PROVE  Gather(mode, m, <<"header_field", d>>) =
           Fields(s.key \o d, s.val, s.gotval, s.error, s.url, s.headers, s.body)
<1>1. Gather(mode, m, <<"header_field", d>>) = [s EXCEPT !.key = s.key \o d]
  BY DEF Gather
<1>2. Shaped(s)
  BY SaveKeeps DEF Alike
<1>3. PICK x : x = s.key \o d
  OBVIOUS
<1>4. [s EXCEPT !.key = x] = Fields(x, s.val, s.gotval, s.error, s.url, s.headers, s.body)
  <2>1. s = Fields(s.key, s.val, s.gotval, s.error, s.url, s.headers, s.body)
    BY <1>2, ShapedIs, Zenon
  <2> QED
    BY <2>1 DEF Fields
<1> QED
  BY <1>1, <1>3, <1>4

LEMMA GatherValue ==
  ASSUME NEW mode, NEW m, Shaped(m), NEW d
  PROVE  Gather(mode, m, <<"header_value", d>>) =
           Fields(m.key, m.val \o d, TRUE, m.error, m.url, m.headers, m.body)
<1>1. Gather(mode, m, <<"header_value", d>>) = [m EXCEPT !.val = m.val \o d, !.gotval = TRUE]
  BY DEF Gather
<1>2. PICK val, yes : val = m.val \o d /\ yes = TRUE
  OBVIOUS
<1>3. PICK n : n = [m EXCEPT !.val = val]
  OBVIOUS
<1>4. [m EXCEPT !.val = val, !.gotval = yes] = [n EXCEPT !.gotval = yes]
  BY <1>3
<1>5. n = Fields(m.key, val, m.gotval, m.error, m.url, m.headers, m.body)
  BY <1>3, FieldSet
<1>6. [n EXCEPT !.gotval = yes] = Fields(m.key, val, yes, m.error, m.url, m.headers, m.body)
  <2>1. [Fields(m.key, val, m.gotval, m.error, m.url, m.headers, m.body) EXCEPT !.gotval = yes]
          = Fields(m.key, val, yes, m.error, m.url, m.headers, m.body)
    BY DEF Fields
  <2> QED
    BY <1>5, <2>1
<1> QED
  BY <1>1, <1>2, <1>4, <1>6

LEMMA GatherBody ==
  ASSUME NEW mode, NEW m, Shaped(m), NEW d
  PROVE  Gather(mode, m, <<"body", d>>) =
           IF m.error = "BODY_TOO_LARGE" THEN m
           ELSE Fields(m.key, m.val, m.gotval, m.error, m.url, m.headers, m.body \o d)
<1>1. Gather(mode, m, <<"body", d>>) = AddBodyFragment(m, d)
  BY DEF Gather
<1>2. [m EXCEPT !.body = m.body \o d] =
        Fields(m.key, m.val, m.gotval, m.error, m.url, m.headers, m.body \o d)
  BY FieldSet
<1> QED
  BY <1>1, <1>2, Zenon DEF AddBodyFragment

LEMMA GatherEvent ==
  ASSUME NEW mode, NEW m
  PROVE  /\ Gather(mode, m, HeadersComplete) = SaveLastHeader(mode, m)
         /\ Gather(mode, m, MessageComplete) = m
  BY DEF Gather, HeadersComplete, MessageComplete

(* What is said of a message in terms of its fields.                        *)
LEMMA FieldsShaped ==
  ASSUME NEW key \in Seq(Byte), NEW val \in Seq(Byte), NEW gotval \in BOOLEAN, NEW error,
         NEW url \in Seq(Byte), NEW headers, NEW body \in Seq(Byte)
  PROVE  Shaped(Fields(key, val, gotval, error, url, headers, body))
<1>1. PICK m : m = Fields(key, val, gotval, error, url, headers, body)
  OBVIOUS
<1>2. /\ m.key = key /\ m.val = val /\ m.gotval = gotval /\ m.error = error
      /\ m.url = url /\ m.headers = headers /\ m.body = body
  BY <1>1, FieldsAre
<1>3. m = Fields(m.key, m.val, m.gotval, m.error, m.url, m.headers, m.body)
  BY <1>1, <1>2, Zenon
<1> QED
  BY <1>1, <1>2, <1>3, Zenon DEF Shaped, Fields

LEMMA FieldsAlike ==
  ASSUME NEW key, NEW val, NEW gotval, NEW error, NEW url, NEW headers, NEW body, NEW other,
         error = "OK" => url = other
  PROVE  Alike(Fields(key, val, gotval, error, url, headers, body),
               Fields(key, val, gotval, error, other, headers, body))
  BY FieldsAre DEF Alike

Clear(mode, m) == mode = "RESPONSE" \/ m.error \in {"OK", "URI_TOO_LONG"}

(* Two messages that are alike stay so.                                     *)
LEMMA GatherAlike ==
  ASSUME NEW mode, NEW m, Shaped(m), NEW n, Shaped(n), Alike(m, n), NEW k \in Kinds, NEW d \in Seq(Byte),
         k = "url" => Clear(mode, m)
  PROVE  /\ Shaped(Gather(mode, m, <<k, d>>))
         /\ Alike(Gather(mode, m, <<k, d>>), Gather(mode, n, <<k, d>>))
         /\ k = "url" => Clear(mode, Gather(mode, m, <<k, d>>))
<1> USE DEF Kinds
<1>0. /\ m.key \in Seq(Byte) /\ m.val \in Seq(Byte) /\ m.url \in Seq(Byte) /\ m.body \in Seq(Byte)
      /\ m.gotval \in BOOLEAN
      /\ m.key = n.key /\ m.val = n.val /\ m.gotval = n.gotval /\ m.error = n.error
      /\ m.headers = n.headers /\ m.body = n.body
      /\ m.error = "OK" => m.url = n.url
  BY DEF Shaped, Alike
<1>1. CASE k = "url"
  <2>1. CASE mode = "RESPONSE" \/ m.error = "URI_TOO_LONG"
    <3>1. Gather(mode, m, <<k, d>>) = m /\ Gather(mode, n, <<k, d>>) = n
      BY <1>0, <1>1, <2>1, GatherUrl
    <3> QED
      BY <2>1, <3>1 DEF Clear
  <2>2. CASE ~(mode = "RESPONSE" \/ m.error = "URI_TOO_LONG")
    <3>1. m.error = "OK" /\ n.error = "OK" /\ m.url = n.url
      BY <1>0, <1>1, <2>2 DEF Clear
    <3>2. m.url \o d \in Seq(Byte)
      BY <1>0, Concatenated
    <3>3. CASE Len(m.url) + Len(d) > MaxUri
      <4>1. /\ Gather(mode, m, <<k, d>>) =
                 Fields(m.key, m.val, m.gotval, "URI_TOO_LONG", m.url, m.headers, m.body)
            /\ Gather(mode, n, <<k, d>>) =
                 Fields(m.key, m.val, m.gotval, "URI_TOO_LONG", m.url, m.headers, m.body)
        <5>1. Gather(mode, m, <<k, d>>) =
                Fields(m.key, m.val, m.gotval, "URI_TOO_LONG", m.url, m.headers, m.body)
          BY <1>1, <2>2, <3>3, GatherUrl, Zenon
        <5>2. Gather(mode, n, <<k, d>>) =
                Fields(n.key, n.val, n.gotval, "URI_TOO_LONG", n.url, n.headers, n.body)
          <6>1. ~(mode = "RESPONSE" \/ n.error = "URI_TOO_LONG") /\ Len(n.url) + Len(d) > MaxUri
            BY <1>0, <2>2, <3>1, <3>3
          <6> QED
            BY <1>1, <6>1, GatherUrl, Zenon
        <5> QED
          BY <1>0, <3>1, <5>1, <5>2
      <4>2. Gather(mode, m, <<k, d>>).error = "URI_TOO_LONG"
        BY <4>1, FieldsAre
      <4> QED
        BY <1>0, <4>1, <4>2, FieldsShaped, FieldsAlike DEF Clear
    <3>4. CASE ~(Len(m.url) + Len(d) > MaxUri)
      <4>1. Gather(mode, m, <<k, d>>) =
              Fields(m.key, m.val, m.gotval, m.error, m.url \o d, m.headers, m.body)
        BY <1>1, <2>2, <3>4, GatherUrl, Zenon
      <4>2. ~(mode = "RESPONSE" \/ n.error = "URI_TOO_LONG") /\ ~(Len(n.url) + Len(d) > MaxUri)
        BY <1>0, <2>2, <3>1, <3>4
      <4>3. Gather(mode, n, <<k, d>>) =
              Fields(n.key, n.val, n.gotval, n.error, n.url \o d, n.headers, n.body)
        BY <1>1, <4>2, GatherUrl, Zenon
      <4>4. Gather(mode, n, <<k, d>>) = Gather(mode, m, <<k, d>>)
        BY <1>0, <3>1, <4>1, <4>3, Zenon
      <4>5. PICK u \in Seq(Byte) : u = m.url \o d
        BY <3>2
      <4>6. Gather(mode, m, <<k, d>>) = Fields(m.key, m.val, m.gotval, m.error, u, m.headers, m.body)
        BY <4>1, <4>5
      <4>7. Shaped(Gather(mode, m, <<k, d>>))
        BY <1>0, <4>6, FieldsShaped
      <4>8. Gather(mode, m, <<k, d>>).error = m.error
        BY <4>6, FieldsAre
      <4> QED
        BY <3>1, <4>4, <4>7, <4>8 DEF Clear, Alike
    <3> QED
      BY <3>3, <3>4
  <2> QED
    BY <2>1, <2>2
<1>2. CASE k = "header_field"
  <2>1. PICK s : s = SaveLastHeader(mode, m)
    OBVIOUS
  <2>2. PICK t : t = SaveLastHeader(mode, n)
    OBVIOUS
  <2>3. Shaped(s) /\ Alike(s, t)
    BY <2>1, <2>2, SaveKeeps
  <2>4. PICK key \in Seq(Byte) : key = s.key \o d
    BY <2>3, Concatenated DEF Shaped
  <2>5. /\ Gather(mode, m, <<k, d>>) = Fields(key, s.val, s.gotval, s.error, s.url, s.headers, s.body)
        /\ Gather(mode, n, <<k, d>>) = Fields(key, s.val, s.gotval, s.error, t.url, s.headers, s.body)
    <3>1. s.key = t.key /\ s.val = t.val /\ s.gotval = t.gotval /\ s.error = t.error
          /\ s.headers = t.headers /\ s.body = t.body
      BY <2>3 DEF Alike
    <3> QED
      BY <1>2, <2>1, <2>2, <2>4, <3>1, GatherField
  <2>6. /\ s.val \in Seq(Byte) /\ s.gotval \in BOOLEAN /\ s.url \in Seq(Byte) /\ s.body \in Seq(Byte)
        /\ s.error = "OK" => s.url = t.url
    BY <2>3 DEF Shaped, Alike
  <2> QED
    BY <1>2, <2>5, <2>6, FieldsShaped, FieldsAlike
<1>3. CASE k = "header_value"
  <2>1. PICK val \in Seq(Byte), yes \in BOOLEAN : val = m.val \o d /\ yes = TRUE
    BY <1>0, Concatenated
  <2>2. /\ Gather(mode, m, <<k, d>>) = Fields(m.key, val, yes, m.error, m.url, m.headers, m.body)
        /\ Gather(mode, n, <<k, d>>) = Fields(m.key, val, yes, m.error, n.url, m.headers, m.body)
    BY <1>0, <1>3, <2>1, GatherValue, Zenon
  <2> QED
    BY <1>0, <1>3, <2>2, FieldsShaped, FieldsAlike
<1>4. CASE k = "body"
  <2>1. PICK body \in Seq(Byte) : body = m.body \o d
    BY <1>0, Concatenated
  <2>2. CASE m.error = "BODY_TOO_LARGE"
    <3>1. Gather(mode, m, <<k, d>>) = m /\ Gather(mode, n, <<k, d>>) = n
      BY <1>0, <1>4, <2>2, GatherBody, Zenon
    <3> QED
      BY <1>4, <3>1
  <2>3. CASE m.error # "BODY_TOO_LARGE"
    <3>1. /\ Gather(mode, m, <<k, d>>) = Fields(m.key, m.val, m.gotval, m.error, m.url, m.headers, body)
          /\ Gather(mode, n, <<k, d>>) = Fields(m.key, m.val, m.gotval, m.error, n.url, m.headers, body)
      BY <1>0, <1>4, <2>1, <2>3, GatherBody, Zenon
    <3> QED
      BY <1>0, <1>4, <3>1, FieldsShaped, FieldsAlike
  <2> QED
    BY <2>2, <2>3
<1> QED
  BY <1>1, <1>2, <1>3, <1>4

LEMMA Associated ==
  ASSUME NEW c \in Seq(Byte), NEW d \in Seq(Byte), NEW e \in Seq(Byte)
  PROVE  (c \o d) \o e = c \o (d \o e)
  OBVIOUS

(* It makes no difference whether data comes in one callback or in two.     *)
LEMMA SplitUrl ==
  ASSUME NEW mode, NEW m, Shaped(m), NEW d \in Seq(Byte), NEW e \in Seq(Byte), Clear(mode, m)
  PROVE  Alike(Gather(mode, m, <<"url", d \o e>>), Gather(mode, Gather(mode, m, <<"url", d>>), <<"url", e>>))
<1>0. /\ m.key \in Seq(Byte) /\ m.val \in Seq(Byte) /\ m.url \in Seq(Byte) /\ m.body \in Seq(Byte)
      /\ m.gotval \in BOOLEAN /\ d \o e \in Seq(Byte)
  BY Concatenated DEF Shaped
<1>n. PICK n : n = Gather(mode, m, <<"url", d>>)
  OBVIOUS
<1>s. Shaped(n)
  BY <1>n, GatherAlike DEF Alike, Kinds
<1>1. CASE mode = "RESPONSE" \/ m.error = "URI_TOO_LONG"
  BY <1>1, GatherUrl DEF Alike
<1>2. CASE ~(mode = "RESPONSE" \/ m.error = "URI_TOO_LONG")
  <2>0. m.error = "OK"
    BY <1>2 DEF Clear
  <2>1. CASE Len(m.url) + Len(d) > MaxUri
    <3>1. n = Fields(m.key, m.val, m.gotval, "URI_TOO_LONG", m.url, m.headers, m.body)
      BY <1>n, <1>2, <2>1, GatherUrl, Zenon
    <3>2. n.error = "URI_TOO_LONG"
      BY <3>1 DEF Fields
    <3>3. Gather(mode, n, <<"url", e>>) = n
      BY <1>s, <3>2, GatherUrl, Zenon
    <3>4. Len(m.url) + Len(d \o e) > MaxUri
      <4>0. /\ Len(m.url) \in Nat /\ Len(d) \in Nat /\ Len(e) \in Nat
            /\ Len(d \o e) = Len(d) + Len(e)
        BY <1>0, Concatenated
      <4>1. PICK i \in Nat, j \in Nat, l \in Nat :
              i = Len(m.url) /\ j = Len(d) /\ l = Len(e) /\ Len(d \o e) = j + l
        BY <4>0, Zenon
      <4>2. i + j > MaxUri
        BY <2>1, <4>1, Zenon
      <4>3. i + (j + l) > MaxUri
        BY <4>2, MaxUriAssumption
      <4> QED
        BY <4>1, <4>3, Zenon
    <3>5. Gather(mode, m, <<"url", d \o e>>) = n
      BY <1>2, <3>1, <3>4, GatherUrl, Zenon
    <3> QED
      BY <1>n, <3>3, <3>5 DEF Alike
  <2>2. CASE ~(Len(m.url) + Len(d) > MaxUri)
    <3>1. PICK u \in Seq(Byte) : u = m.url \o d
      BY <1>0, Concatenated
    <3>2. n = Fields(m.key, m.val, m.gotval, m.error, m.url \o d, m.headers, m.body)
      BY <1>n, <1>2, <2>2, GatherUrl, Zenon
    <3>3. /\ n.key = m.key /\ n.val = m.val /\ n.gotval = m.gotval /\ n.error = m.error
          /\ n.url = u /\ n.headers = m.headers /\ n.body = m.body
      BY <3>1, <3>2 DEF Fields
    <3>4. Len(n.url) + Len(e) = Len(m.url) + Len(d \o e) /\ n.url \o e = m.url \o (d \o e)
      <4>0. /\ Len(m.url) \in Nat /\ Len(d) \in Nat /\ Len(e) \in Nat
            /\ Len(d \o e) = Len(d) + Len(e) /\ Len(m.url \o d) = Len(m.url) + Len(d)
        BY <1>0, Concatenated
      <4>1. PICK i \in Nat, j \in Nat, l \in Nat :
              /\ i = Len(m.url) /\ j = Len(d) /\ l = Len(e) /\ Len(d \o e) = j + l
              /\ Len(u) = i + j
        BY <3>1, <4>0, Zenon
      <4>3. u \o e = m.url \o (d \o e)
        <5>1. (m.url \o d) \o e = m.url \o (d \o e)
          <6>1. PICK c \in Seq(Byte) : c = m.url
            BY <1>0
          <6>2. (c \o d) \o e = c \o (d \o e)
            BY Associated
          <6> QED
            BY <6>1, <6>2, Zenon
        <5> QED
          BY <3>1, <5>1, Zenon
      <4>2. (i + j) + l = i + (j + l)
        OBVIOUS
      <4> QED
        BY <3>3, <4>1, <4>2, <4>3, Zenon
    <3>5. CASE Len(m.url) + Len(d \o e) > MaxUri
      <4>1. Gather(mode, m, <<"url", d \o e>>) =
              Fields(m.key, m.val, m.gotval, "URI_TOO_LONG", m.url, m.headers, m.body)
        BY <1>2, <3>5, GatherUrl, Zenon
      <4>2. Gather(mode, n, <<"url", e>>) =
              Fields(n.key, n.val, n.gotval, "URI_TOO_LONG", n.url, n.headers, n.body)
        <5>1. n.error # "URI_TOO_LONG" /\ Len(n.url) + Len(e) > MaxUri
          BY <1>2, <3>3, <3>4, <3>5
        <5> QED
          BY <1>s, <1>2, <5>1, GatherUrl, Zenon
      <4> QED
        BY <1>n, <3>3, <4>1, <4>2, FieldsAlike
    <3>6. CASE ~(Len(m.url) + Len(d \o e) > MaxUri)
      <4>1. Gather(mode, m, <<"url", d \o e>>) =
              Fields(m.key, m.val, m.gotval, m.error, m.url \o (d \o e), m.headers, m.body)
        BY <1>0, <1>2, <3>6, GatherUrl, Zenon
      <4>2. Gather(mode, n, <<"url", e>>) =
              Fields(n.key, n.val, n.gotval, n.error, n.url \o e, n.headers, n.body)
        <5>1. n.error # "URI_TOO_LONG" /\ ~(Len(n.url) + Len(e) > MaxUri)
          BY <1>2, <3>3, <3>4, <3>6, Zenon
        <5> QED
          BY <1>s, <1>2, <5>1, GatherUrl, Zenon
      <4>3. Gather(mode, m, <<"url", d \o e>>) = Gather(mode, n, <<"url", e>>)
        BY <1>s, <3>3, <3>4, <4>1, <4>2, Zenon
      <4> QED
        BY <1>n, <4>3 DEF Alike
    <3> QED
      BY <3>5, <3>6
  <2> QED
    BY <2>1, <2>2
<1> QED
  BY <1>1, <1>2

LEMMA SplitField ==
  ASSUME NEW mode, NEW m, Shaped(m), NEW d \in Seq(Byte), NEW e \in Seq(Byte)
  PROVE  Alike(Gather(mode, m, <<"header_field", d \o e>>), Gather(mode, Gather(mode, m, <<"header_field", d>>), <<"header_field", e>>))
<1>0. /\ m.key \in Seq(Byte) /\ m.val \in Seq(Byte) /\ m.url \in Seq(Byte) /\ m.body \in Seq(Byte)
      /\ m.gotval \in BOOLEAN /\ d \o e \in Seq(Byte)
  BY Concatenated DEF Shaped
<1>n. PICK n : n = Gather(mode, m, <<"header_field", d>>)
  OBVIOUS
<1>s. Shaped(n)
  BY <1>n, GatherAlike DEF Alike, Kinds
<1>1. PICK s : s = SaveLastHeader(mode, m)
  OBVIOUS
<1>2. PICK t : t = SaveLastHeader(mode, n)
  OBVIOUS
<1>3. Shaped(s)
  BY <1>1, SaveKeeps DEF Alike
<1>4. PICK key \in Seq(Byte) : key = s.key \o d
  BY <1>3, Concatenated DEF Shaped
<1>5. n = Fields(key, s.val, s.gotval, s.error, s.url, s.headers, s.body)
  BY <1>n, <1>1, <1>4, GatherField
<1>6. PICK h, v : h = Names(m) /\ v = Verdict(mode, Names(m), m.error)
  OBVIOUS
<1>7. s = [key |-> IF m.gotval THEN <<>> ELSE m.key, val |-> IF m.gotval THEN <<>> ELSE m.val,
           gotval |-> FALSE, error |-> v, url |-> m.url, headers |-> h, body |-> m.body]
  BY <1>1, <1>6, SaveIs
<1>8. s.gotval = FALSE /\ s.headers = h /\ s.error = v
  BY <1>7
<1>9. /\ n.key = key /\ n.val = s.val /\ n.gotval = FALSE /\ n.error = v
      /\ n.url = s.url /\ n.headers = h /\ n.body = s.body
  BY <1>5, <1>8 DEF Fields
<1>10. Names(n) = h
  BY <1>9, Zenon DEF Names
<1>11. Verdict(mode, Names(n), n.error) = v
  <2>1. Verdict(mode, h, v) = v
    BY <1>6, VerdictTwice
  <2> QED
    BY <1>9, <1>10, <2>1, Zenon
<1>12. t = [key |-> IF n.gotval THEN <<>> ELSE n.key, val |-> IF n.gotval THEN <<>> ELSE n.val,
            gotval |-> FALSE, error |-> v, url |-> n.url, headers |-> h, body |-> n.body]
  BY <1>s, <1>2, <1>10, <1>11, SaveIs, Zenon
<1>13. /\ t.key = key /\ t.val = s.val /\ t.gotval = s.gotval /\ t.error = s.error
       /\ t.url = s.url /\ t.headers = s.headers /\ t.body = s.body
  BY <1>8, <1>9, <1>12
<1>14. Gather(mode, n, <<"header_field", e>>) = Fields(t.key \o e, t.val, t.gotval, t.error, t.url, t.headers, t.body)
  BY <1>s, <1>2, GatherField
<1>15. Gather(mode, m, <<"header_field", d \o e>>) =
         Fields(s.key \o (d \o e), s.val, s.gotval, s.error, s.url, s.headers, s.body)
  <2>1. PICK c : c = d \o e
    OBVIOUS
  <2>2. Gather(mode, m, <<"header_field", c>>) =
          Fields(s.key \o c, s.val, s.gotval, s.error, s.url, s.headers, s.body)
    BY <1>1, GatherField
  <2> QED
    BY <2>1, <2>2, Zenon
<1>16. s.key \o (d \o e) = key \o e
  <2>1. s.key \in Seq(Byte)
    BY <1>3 DEF Shaped
  <2> QED
    BY <1>4, <2>1, Associated, Zenon
<1>17. Gather(mode, m, <<"header_field", d \o e>>) = Gather(mode, n, <<"header_field", e>>)
  BY <1>s, <1>13, <1>14, <1>15, <1>16, Zenon
<1> QED
  BY <1>n, <1>17 DEF Alike

LEMMA SplitValue ==
  ASSUME NEW mode, NEW m, Shaped(m), NEW d \in Seq(Byte), NEW e \in Seq(Byte)
  PROVE  Alike(Gather(mode, m, <<"header_value", d \o e>>), Gather(mode, Gather(mode, m, <<"header_value", d>>), <<"header_value", e>>))
<1>0. /\ m.key \in Seq(Byte) /\ m.val \in Seq(Byte) /\ m.url \in Seq(Byte) /\ m.body \in Seq(Byte)
      /\ m.gotval \in BOOLEAN /\ d \o e \in Seq(Byte)
  BY Concatenated DEF Shaped
<1>n. PICK n : n = Gather(mode, m, <<"header_value", d>>)
  OBVIOUS
<1>s. Shaped(n)
  BY <1>n, GatherAlike DEF Alike, Kinds
<1>1. PICK yes : yes = TRUE
  OBVIOUS
<1>2. n = Fields(m.key, m.val \o d, yes, m.error, m.url, m.headers, m.body)
  BY <1>n, <1>1, GatherValue, Zenon
<1>3. /\ n.key = m.key /\ n.val = m.val \o d /\ n.error = m.error
      /\ n.url = m.url /\ n.headers = m.headers /\ n.body = m.body
  BY <1>2 DEF Fields
<1>4. Gather(mode, n, <<"header_value", e>>) = Fields(n.key, n.val \o e, yes, n.error, n.url, n.headers, n.body)
  BY <1>s, <1>1, GatherValue, Zenon
<1>5. Gather(mode, m, <<"header_value", d \o e>>) =
        Fields(m.key, m.val \o (d \o e), yes, m.error, m.url, m.headers, m.body)
  BY <1>1, GatherValue, Zenon
<1>6. m.val \o (d \o e) = n.val \o e
  <2>1. (m.val \o d) \o e = m.val \o (d \o e)
    <3>1. PICK c \in Seq(Byte) : c = m.val
      BY <1>0
    <3>2. (c \o d) \o e = c \o (d \o e)
      BY Associated
    <3> QED
      BY <3>1, <3>2, Zenon
  <2> QED
    BY <1>3, <2>1, Zenon
<1>7. Gather(mode, m, <<"header_value", d \o e>>) = Gather(mode, n, <<"header_value", e>>)
  BY <1>s, <1>3, <1>4, <1>5, <1>6, Zenon
<1> QED
  BY <1>n, <1>7 DEF Alike

LEMMA SplitBody ==
  ASSUME NEW mode, NEW m, Shaped(m), NEW d \in Seq(Byte), NEW e \in Seq(Byte)
  PROVE  Alike(Gather(mode, m, <<"body", d \o e>>), Gather(mode, Gather(mode, m, <<"body", d>>), <<"body", e>>))
<1>0. /\ m.key \in Seq(Byte) /\ m.val \in Seq(Byte) /\ m.url \in Seq(Byte) /\ m.body \in Seq(Byte)
      /\ m.gotval \in BOOLEAN /\ d \o e \in Seq(Byte)
  BY Concatenated DEF Shaped
<1>n. PICK n : n = Gather(mode, m, <<"body", d>>)
  OBVIOUS
<1>s. Shaped(n)
  BY <1>n, GatherAlike DEF Alike, Kinds
<1>1. CASE m.error = "BODY_TOO_LARGE"
  <2>1. n = m /\ Gather(mode, m, <<"body", d \o e>>) = m /\ Gather(mode, m, <<"body", e>>) = m
    BY <1>n, <1>1, GatherBody
  <2> QED
    BY <1>n, <2>1 DEF Alike
<1>2. CASE m.error # "BODY_TOO_LARGE"
  <2>1. n = Fields(m.key, m.val, m.gotval, m.error, m.url, m.headers, m.body \o d)
    BY <1>n, <1>2, GatherBody, Zenon
  <2>2. /\ n.key = m.key /\ n.val = m.val /\ n.gotval = m.gotval /\ n.error = m.error
        /\ n.url = m.url /\ n.headers = m.headers /\ n.body = m.body \o d
    BY <2>1 DEF Fields
  <2>3. Gather(mode, n, <<"body", e>>) = Fields(n.key, n.val, n.gotval, n.error, n.url, n.headers, n.body \o e)
    BY <1>s, <1>2, <2>2, GatherBody, Zenon
  <2>4. Gather(mode, m, <<"body", d \o e>>) =
          Fields(m.key, m.val, m.gotval, m.error, m.url, m.headers, m.body \o (d \o e))
    BY <1>2, GatherBody, Zenon
  <2>5. m.body \o (d \o e) = n.body \o e
    <3>1. (m.body \o d) \o e = m.body \o (d \o e)
      <4>1. PICK c \in Seq(Byte) : c = m.body
        BY <1>0
      <4>2. (c \o d) \o e = c \o (d \o e)
        BY Associated
      <4> QED
        BY <4>1, <4>2, Zenon
    <3> QED
      BY <2>2, <3>1, Zenon
  <2>6. Gather(mode, m, <<"body", d \o e>>) = Gather(mode, n, <<"body", e>>)
    BY <1>s, <2>2, <2>3, <2>4, <2>5, Zenon
  <2> QED
    BY <1>n, <2>6 DEF Alike
<1> QED
  BY <1>1, <1>2

LEMMA GatherSplit ==
  ASSUME NEW mode, NEW m, Shaped(m), NEW k \in Kinds, NEW d \in Seq(Byte), NEW e \in Seq(Byte),
         k = "url" => Clear(mode, m)
  PROVE  Alike(Gather(mode, m, <<k, d \o e>>), Gather(mode, Gather(mode, m, <<k, d>>), <<k, e>>))
<1>1. PICK n : n = Gather(mode, m, <<k, d>>) /\ Shaped(n)
  BY GatherAlike DEF Alike
<1> QED
  BY <1>1, SplitUrl, SplitField, SplitValue, SplitBody DEF Kinds

-----------------------------------------------------------------------------
(* What one side's message is once what is behind its marks is told: one    *)
(* byte more is gathered by it, however much of it has been told already.   *)
FlushedOf(mode, m, mk) ==
  IF DOMAIN mk = {} THEN m
  ELSE LET k == CHOOSE k \in DOMAIN mk : TRUE IN Gather(mode, m, <<k, mk[k]>>)

MarkedWith(mk, mark) ==
  [k \in DOMAIN mk \cup mark |-> IF k \in DOMAIN mk THEN mk[k] ELSE <<>>]
MarksAfter(mk, mark, tell, b) ==
  [k \in DOMAIN MarkedWith(mk, mark) \ tell |-> Append(MarkedWith(mk, mark)[k], b)]
Told(mk, mark, tell) ==
  IF tell \cap DOMAIN MarkedWith(mk, mark) = {} THEN <<>>
  ELSE LET k == CHOOSE k \in tell : TRUE IN <<<<k, MarkedWith(mk, mark)[k]>>>>

MarksTyped(mk) == DOMAIN mk \subseteq Kinds /\ \A k \in DOMAIN mk : mk[k] \in Seq(Byte)

LEMMA FlushedIs ==
  ASSUME NEW mode, NEW m, NEW mk, NEW k, DOMAIN mk \subseteq {k}
  PROVE  /\ k \in DOMAIN mk => FlushedOf(mode, m, mk) = Gather(mode, m, <<k, mk[k]>>)
         /\ k \notin DOMAIN mk => FlushedOf(mode, m, mk) = m
<1>1. CASE k \in DOMAIN mk
  <2>1. DOMAIN mk = {k}
    BY <1>1
  <2>2. (CHOOSE j \in {k} : TRUE) = k
    OBVIOUS
  <2>3. {k} # {}
    OBVIOUS
  <2> QED
    BY <1>1, <2>1, <2>2, <2>3, Zenon DEF FlushedOf
<1>2. CASE k \notin DOMAIN mk
  BY <1>2 DEF FlushedOf
<1> QED
  BY <1>1, <1>2

(* The marks behind a step that concerns only k, and what it tells.         *)
OneKind(mk, k, mark, tell, b) ==
  /\ MarksTyped(MarksAfter(mk, mark, tell, b))
  /\ DOMAIN MarksAfter(mk, mark, tell, b) = (DOMAIN mk \cup mark) \ tell
  /\ tell = {} /\ k \in DOMAIN mk => MarksAfter(mk, mark, tell, b)[k] = mk[k] \o <<b>>
  /\ tell = {} /\ k \notin DOMAIN mk /\ k \in mark => MarksAfter(mk, mark, tell, b)[k] = <<b>>
  /\ tell = {} => Told(mk, mark, tell) = <<>>
  /\ tell = {k} /\ k \in DOMAIN mk => Told(mk, mark, tell) = <<<<k, mk[k]>>>>
  /\ tell = {k} /\ k \notin DOMAIN mk /\ k \in mark => Told(mk, mark, tell) = <<<<k, <<>>>>>>
  /\ tell = {k} /\ k \notin DOMAIN mk \cup mark => Told(mk, mark, tell) = <<>>

LEMMA MarksAfterAre ==
  ASSUME NEW mk, MarksTyped(mk), NEW k \in Kinds, NEW mark, NEW tell, NEW b \in Byte,
         DOMAIN mk \cup mark \cup tell \subseteq {k}
  PROVE  OneKind(mk, k, mark, tell, b)
<1> DEFINE w == MarkedWith(mk, mark)
<1>1. /\ DOMAIN w = DOMAIN mk \cup mark
      /\ k \in DOMAIN mk => w[k] = mk[k]
      /\ k \notin DOMAIN mk /\ k \in mark => w[k] = <<>>
      /\ \A j \in DOMAIN w : w[j] \in Seq(Byte)
  BY ShortSequences DEF MarkedWith, MarksTyped
<1>2. MarksAfter(mk, mark, tell, b) = [j \in DOMAIN w \ tell |-> Append(w[j], b)]
  BY Zenon DEF MarksAfter
<1>3. Told(mk, mark, tell) =
        IF tell \cap DOMAIN w = {} THEN <<>>
        ELSE LET j == CHOOSE j \in tell : TRUE IN <<<<j, w[j]>>>>
  BY Zenon DEF Told
<1> HIDE DEF w
<1>4. \A s \in Seq(Byte) : Append(s, b) \in Seq(Byte) /\ Append(s, b) = s \o <<b>>
  BY Concatenated
<1>5. Append(<<>>, b) = <<b>>
  OBVIOUS
<1>6. MarksTyped(MarksAfter(mk, mark, tell, b))
  BY <1>1, <1>2, <1>4 DEF MarksTyped
<1>7. DOMAIN MarksAfter(mk, mark, tell, b) = (DOMAIN mk \cup mark) \ tell
  BY <1>1, <1>2
<1>8. tell = {} /\ k \in DOMAIN mk => MarksAfter(mk, mark, tell, b)[k] = mk[k] \o <<b>>
  <2>1. k \in DOMAIN mk => Append(mk[k], b) = mk[k] \o <<b>>
    BY <1>4 DEF MarksTyped
  <2> QED
    BY <1>1, <1>2, <2>1, Zenon
<1>9. tell = {} /\ k \notin DOMAIN mk /\ k \in mark => MarksAfter(mk, mark, tell, b)[k] = <<b>>
  BY <1>1, <1>2, <1>5, Zenon
<1>10. tell = {} => Told(mk, mark, tell) = <<>>
  BY <1>3
<1>11. ASSUME tell = {k}, k \in DOMAIN w
       PROVE  Told(mk, mark, tell) = <<<<k, w[k]>>>>
  <2>1. (CHOOSE j \in {k} : TRUE) = k
    OBVIOUS
  <2>2. tell \cap DOMAIN w # {}
    BY <1>11
  <2> QED
    BY <1>3, <1>11, <2>1, <2>2, Zenon
<1>12. tell = {k} /\ k \notin DOMAIN mk \cup mark => Told(mk, mark, tell) = <<>>
  BY <1>1, <1>3
<1> QED
  BY <1>1, <1>6, <1>7, <1>8, <1>9, <1>10, <1>11, <1>12 DEF OneKind

HasEnd(list) == \E i \in 1..Len(list) : list[i] = MessageComplete

LEMMA Endings ==
  /\ ~HasEnd(<<>>)
  /\ \A k \in Kinds : \A d : ~HasEnd(<<<<k, d>>>>)
  /\ ~HasEnd(<<HeadersComplete>>)
  /\ HasEnd(<<MessageComplete>>)
  /\ \A c : HasEnd(<<c, MessageComplete>>)
<1>1. ~HasEnd(<<>>)
  BY DEF HasEnd
<1>2. \A c : HasEnd(<<c>>) => c = MessageComplete
  BY DEF HasEnd
<1>3. \A k \in Kinds : \A d : <<k, d>> # MessageComplete
  BY DEF MessageComplete, Kinds
<1>4. HeadersComplete # MessageComplete
  BY DEF MessageComplete, HeadersComplete
<1>5. HasEnd(<<MessageComplete>>)
  <2>1. PICK e : e = MessageComplete
    OBVIOUS
  <2>2. <<e>>[1] = e /\ 1 \in 1..Len(<<e>>)
    OBVIOUS
  <2> QED
    BY <2>1, <2>2, Zenon DEF HasEnd
<1>6. ASSUME NEW c
      PROVE  HasEnd(<<c, MessageComplete>>)
  <2>1. PICK e : e = MessageComplete
    OBVIOUS
  <2>2. <<c, e>>[2] = e /\ 2 \in 1..Len(<<c, e>>)
    OBVIOUS
  <2> QED
    BY <2>1, <2>2, Zenon DEF HasEnd
<1> QED
  BY <1>1, <1>2, <1>3, <1>4, <1>5, <1>6

(* One side of a step that concerns only k: n is gathered, mkn is behind    *)
(* its marks, f and g are what the message is flushed, before and after.    *)
OneSide(mode, m, mk, k, mark, tell, b, n, mkn, f, g) ==
  /\ Shaped(n) /\ Shaped(f) /\ Shaped(g)
  /\ MarksTyped(mkn) /\ DOMAIN mkn = (DOMAIN mk \cup mark) \ tell
  /\ ~HasEnd(Told(mk, mark, tell))
  /\ tell = {} => n = m
  /\ k = "url" => Clear(mode, f)
  /\ tell = {} /\ k \in DOMAIN mk \cup mark => Alike(g, Gather(mode, f, <<k, <<b>>>>))
  /\ tell = {} /\ k \notin DOMAIN mk \cup mark => g = f
  /\ tell = {k} /\ k \in mark /\ k \notin DOMAIN mk => g = Gather(mode, f, <<k, <<>>>>)
  /\ tell = {k} /\ (k \in DOMAIN mk \/ k \notin mark) => g = f

LEMMA SideStep ==
  ASSUME NEW mode, NEW m, Shaped(m), NEW mk, MarksTyped(mk), NEW k \in Kinds, NEW mark, NEW tell,
         NEW b \in Byte, DOMAIN mk \cup mark \cup tell \subseteq {k}, k = "url" => Clear(mode, m)
  PROVE  OneSide(mode, m, mk, k, mark, tell, b,
                 Gathered(mode, m, Told(mk, mark, tell)), MarksAfter(mk, mark, tell, b),
                 FlushedOf(mode, m, mk),
                 FlushedOf(mode, Gathered(mode, m, Told(mk, mark, tell)), MarksAfter(mk, mark, tell, b)))
<1>h. PICK n, mkn, f, g :
        /\ n = Gathered(mode, m, Told(mk, mark, tell)) /\ mkn = MarksAfter(mk, mark, tell, b)
        /\ f = FlushedOf(mode, m, mk) /\ g = FlushedOf(mode, n, mkn)
  OBVIOUS
<1>a. OneKind(mk, k, mark, tell, b)
  BY MarksAfterAre
<1>b. /\ MarksTyped(mkn) /\ DOMAIN mkn = (DOMAIN mk \cup mark) \ tell
      /\ tell = {} /\ k \in DOMAIN mk => mkn[k] = mk[k] \o <<b>>
      /\ tell = {} /\ k \notin DOMAIN mk /\ k \in mark => mkn[k] = <<b>>
  BY <1>a, <1>h, Zenon DEF OneKind
<1>c. /\ tell = {} \/ (tell = {k} /\ k \notin DOMAIN mk \cup mark) => n = m
      /\ tell = {k} /\ k \in DOMAIN mk => n = Gather(mode, m, <<k, mk[k]>>)
      /\ tell = {k} /\ k \notin DOMAIN mk /\ k \in mark => n = Gather(mode, m, <<k, <<>>>>)
  <2>1. Gathered(mode, m, <<>>) = m
    BY GatheredNone
  <2>2. \A d : Gathered(mode, m, <<<<k, d>>>>) = Gather(mode, m, <<k, d>>)
    BY GatheredOne
  <2> QED
    BY <1>a, <1>h, <2>1, <2>2, Zenon DEF OneKind
<1>1. DOMAIN mkn \subseteq {k} /\ DOMAIN mk \subseteq {k}
  BY <1>b
<1>2. /\ <<b>> \in Seq(Byte) /\ <<>> \in Seq(Byte)
      /\ \A j \in DOMAIN mk : mk[j] \in Seq(Byte)
      /\ \A j \in DOMAIN mkn : mkn[j] \in Seq(Byte)
  BY <1>b DEF MarksTyped
<1>3. \A d \in Seq(Byte) : Shaped(Gather(mode, m, <<k, d>>))
  BY GatherAlike DEF Alike
<1>4. /\ k \in DOMAIN mk => f = Gather(mode, m, <<k, mk[k]>>)
      /\ k \notin DOMAIN mk => f = m
      /\ k \in DOMAIN mkn => g = Gather(mode, n, <<k, mkn[k]>>)
      /\ k \notin DOMAIN mkn => g = n
  BY <1>h, <1>1, FlushedIs
<1>5. Shaped(f)
  BY <1>2, <1>3, <1>4
<1>6. /\ Shaped(n) /\ Shaped(g)
      /\ tell = {} => n = m
      /\ tell = {} /\ k \in DOMAIN mk \cup mark => Alike(g, Gather(mode, f, <<k, <<b>>>>))
      /\ tell = {} /\ k \notin DOMAIN mk \cup mark => g = f
      /\ tell = {k} /\ k \in mark /\ k \notin DOMAIN mk => g = Gather(mode, f, <<k, <<>>>>)
      /\ tell = {k} /\ (k \in DOMAIN mk \/ k \notin mark) => g = f
  <2>1. CASE tell = {} /\ k \in DOMAIN mk
    <3>1. n = m /\ k \in DOMAIN mkn /\ mkn[k] = mk[k] \o <<b>>
      BY <1>b, <1>c, <2>1
    <3>2. g = Gather(mode, m, <<k, mk[k] \o <<b>>>>)
      BY <1>4, <3>1
    <3>3. PICK d \in Seq(Byte), e \in Seq(Byte) : d = mk[k] /\ e = <<b>>
      BY <1>2, <2>1
    <3>4. d \o e \in Seq(Byte)
      OBVIOUS
    <3>5. Shaped(g)
      BY <1>3, <3>2, <3>3, <3>4
    <3>6. Alike(Gather(mode, m, <<k, d \o e>>), Gather(mode, Gather(mode, m, <<k, d>>), <<k, e>>))
      BY GatherSplit
    <3>7. Alike(g, Gather(mode, f, <<k, <<b>>>>))
      BY <1>4, <2>1, <3>2, <3>3, <3>6, Zenon
    <3> QED
      BY <1>5, <2>1, <3>1, <3>5, <3>7
  <2>2. CASE tell = {} /\ k \notin DOMAIN mk /\ k \in mark
    <3>1. n = m /\ k \in DOMAIN mkn /\ mkn[k] = <<b>>
      BY <1>b, <1>c, <2>2
    <3>2. g = Gather(mode, f, <<k, <<b>>>>)
      BY <1>4, <2>2, <3>1
    <3>3. Shaped(g)
      BY <1>2, <1>3, <1>4, <2>2, <3>2
    <3> QED
      BY <1>5, <2>2, <3>1, <3>2, <3>3 DEF Alike
  <2>3. CASE tell = {} /\ k \notin DOMAIN mk \cup mark
    <3>1. n = m /\ k \notin DOMAIN mkn
      BY <1>b, <1>c, <2>3
    <3> QED
      BY <1>4, <1>5, <2>3, <3>1
  <2>4. CASE tell = {k} /\ k \in DOMAIN mk
    <3>1. n = Gather(mode, m, <<k, mk[k]>>) /\ k \notin DOMAIN mkn
      BY <1>b, <1>c, <2>4
    <3> QED
      BY <1>4, <1>5, <2>4, <3>1
  <2>5. CASE tell = {k} /\ k \notin DOMAIN mk /\ k \in mark
    <3>1. n = Gather(mode, m, <<k, <<>>>>) /\ k \notin DOMAIN mkn
      BY <1>b, <1>c, <2>5
    <3> QED
      BY <1>2, <1>3, <1>4, <1>5, <2>5, <3>1
  <2>6. CASE tell = {k} /\ k \notin DOMAIN mk \cup mark
    <3>1. n = m /\ k \notin DOMAIN mkn
      BY <1>b, <1>c, <2>6
    <3> QED
      BY <1>4, <1>5, <2>6, <3>1
  <2>7. tell = {} \/ tell = {k}
    OBVIOUS
  <2> QED
    BY <2>1, <2>2, <2>3, <2>4, <2>5, <2>6, <2>7
<1>7. k = "url" => Clear(mode, f)
  BY <1>2, <1>4, GatherAlike DEF Alike
<1>8. ~HasEnd(Told(mk, mark, tell))
  BY <1>a, Endings, Zenon DEF OneKind
<1>9. OneSide(mode, m, mk, k, mark, tell, b, n, mkn, f, g)
  BY <1>b, <1>5, <1>6, <1>7, <1>8, Zenon DEF OneSide
<1> QED
  BY <1>h, <1>9, Zenon

-----------------------------------------------------------------------------
(* The two sides between steps: m and n are what was gathered, mk and nk    *)
(* what is behind the marks, s is the state that the parser is in.          *)
Abreast(mode, s, m, mk, n, nk) ==
  /\ Shaped(m) /\ MarksTyped(mk) /\ DOMAIN mk \subseteq MarksIn(s)
  /\ Shaped(n) /\ MarksTyped(nk) /\ DOMAIN nk \subseteq MarksIn(s)
  /\ Alike(FlushedOf(mode, m, mk), FlushedOf(mode, n, nk))
  /\ s \notin Filled => DOMAIN mk = Held(s) /\ DOMAIN nk = Held(s)
  /\ s \in Early => Clear(mode, m) /\ Clear(mode, n)

LEMMA AlikeChain ==
  ASSUME NEW m, NEW n, NEW o, NEW p, Alike(m, n), Alike(m, o), Alike(n, p)
  PROVE  Alike(o, p)
  BY Zenon DEF Alike

LEMMA AlikeSelf ==
  ASSUME NEW m
  PROVE  Alike(m, m)
  BY DEF Alike

LEMMA EarlyIs ==
  /\ \A s \in Early : s \notin Filled /\ Held(s) \subseteq {"url"}
  /\ \A s \in Filled : MarksIn(s) = {"body"}
  /\ \A s : Held(s) \subseteq MarksIn(s)
<1>1. {"start", "method", "spaces_before_url"} \subseteq Bare
  BY BareAre
<1>2. \A s \in Early : s \notin Filled /\ Held(s) \subseteq {"url"}
  BY <1>1, HeldAre DEF Early
<1>3. \A s \in Filled : MarksIn(s) = {"body"}
  BY MarksAre DEF Filled
<1>4. \A s : Held(s) \subseteq MarksIn(s)
  BY DEF Held
<1> QED
  BY <1>2, <1>3, <1>4

(* A step that fits is the same on both sides.                              *)
LEMMA StepAbreast ==
  ASSUME NEW p, NEW mark, NEW tell, Fits(p, mark, tell), NEW b \in Byte,
         NEW mode, mode = parser.type,
         NEW m, NEW mk, NEW n, NEW nk, Abreast(mode, parser.state, m, mk, n, nk)
  PROVE  /\ Abreast(mode, p.state,
                    Gathered(mode, m, Told(mk, mark, tell)), MarksAfter(mk, mark, tell, b),
                    Gathered(mode, n, Told(nk, mark, tell)), MarksAfter(nk, mark, tell, b))
         /\ ~HasEnd(Told(mk, mark, tell)) /\ ~HasEnd(Told(nk, mark, tell))
<1>1. PICK s : s = parser.state
  OBVIOUS
<1>2. PICK k \in Kinds :
        /\ k = "url" => s \in Early
        /\ mark \cup tell \cup Held(s) \subseteq {k}
        /\ s \notin Filled => (Held(s) \cup mark) \ tell = Held(p.state)
        /\ s \in Filled =>
             /\ k = "body"
             /\ \/ mark = {"body"} /\ tell = {} /\ p.state \in Filled
                \/ mark = {} /\ tell = {"body"} /\ Held(p.state) = {} /\ p.state \notin Filled
  BY <1>1 DEF Fits
<1>3. /\ Shaped(m) /\ MarksTyped(mk) /\ DOMAIN mk \subseteq MarksIn(s)
      /\ Shaped(n) /\ MarksTyped(nk) /\ DOMAIN nk \subseteq MarksIn(s)
      /\ s \notin Filled => DOMAIN mk = Held(s) /\ DOMAIN nk = Held(s)
      /\ s \in Early => Clear(mode, m) /\ Clear(mode, n)
  BY <1>1 DEF Abreast
<1>4. DOMAIN mk \cup mark \cup tell \subseteq {k} /\ DOMAIN nk \cup mark \cup tell \subseteq {k}
  BY <1>2, <1>3, EarlyIs
<1>5. PICK f, m2, mk2, g :
        /\ f = FlushedOf(mode, m, mk)
        /\ m2 = Gathered(mode, m, Told(mk, mark, tell)) /\ mk2 = MarksAfter(mk, mark, tell, b)
        /\ g = FlushedOf(mode, m2, mk2)
  OBVIOUS
<1>6. PICK e, n2, nk2, h :
        /\ e = FlushedOf(mode, n, nk)
        /\ n2 = Gathered(mode, n, Told(nk, mark, tell)) /\ nk2 = MarksAfter(nk, mark, tell, b)
        /\ h = FlushedOf(mode, n2, nk2)
  OBVIOUS
<1>7. OneSide(mode, m, mk, k, mark, tell, b, m2, mk2, f, g)
  <2>1. OneSide(mode, m, mk, k, mark, tell, b,
                Gathered(mode, m, Told(mk, mark, tell)), MarksAfter(mk, mark, tell, b),
                FlushedOf(mode, m, mk),
                FlushedOf(mode, Gathered(mode, m, Told(mk, mark, tell)), MarksAfter(mk, mark, tell, b)))
    BY <1>2, <1>3, <1>4, SideStep
  <2> QED
    BY <1>5, <2>1, Zenon
<1>8. OneSide(mode, n, nk, k, mark, tell, b, n2, nk2, e, h)
  <2>1. OneSide(mode, n, nk, k, mark, tell, b,
                Gathered(mode, n, Told(nk, mark, tell)), MarksAfter(nk, mark, tell, b),
                FlushedOf(mode, n, nk),
                FlushedOf(mode, Gathered(mode, n, Told(nk, mark, tell)), MarksAfter(nk, mark, tell, b)))
    BY <1>2, <1>3, <1>4, SideStep
  <2> QED
    BY <1>6, <2>1, Zenon
<1>9. Alike(f, e)
  BY <1>5, <1>6, Zenon DEF Abreast
<1>10. \A d \in Seq(Byte) : Alike(Gather(mode, f, <<k, d>>), Gather(mode, e, <<k, d>>))
  BY <1>7, <1>8, <1>9, GatherAlike DEF OneSide
<1>11. <<b>> \in Seq(Byte) /\ <<>> \in Seq(Byte)
  OBVIOUS
<1>12. Alike(g, h)
  <2>1. CASE tell = {} /\ k \in DOMAIN mk \cup mark /\ k \in DOMAIN nk \cup mark
    <3>1. Alike(g, Gather(mode, f, <<k, <<b>>>>)) /\ Alike(h, Gather(mode, e, <<k, <<b>>>>))
      BY <1>7, <1>8, <2>1 DEF OneSide
    <3>2. Alike(Gather(mode, f, <<k, <<b>>>>), Gather(mode, e, <<k, <<b>>>>))
      BY <1>10, <1>11
    <3> QED
      BY <3>1, <3>2, Zenon DEF Alike
  <2>2. CASE tell = {} /\ k \notin DOMAIN mk \cup mark /\ k \notin DOMAIN nk \cup mark
    BY <1>7, <1>8, <1>9, <2>2 DEF OneSide
  <2>3. CASE tell = {k} /\ k \in mark /\ k \notin DOMAIN mk /\ k \notin DOMAIN nk
    BY <1>7, <1>8, <1>10, <1>11, <2>3 DEF OneSide
  <2>4. CASE tell = {k} /\ (k \in DOMAIN mk \/ k \notin mark) /\ (k \in DOMAIN nk \/ k \notin mark)
    BY <1>7, <1>8, <1>9, <2>4 DEF OneSide
  <2>5. tell = {} \/ tell = {k}
    BY <1>2
  <2>6. CASE s \in Filled
    BY <1>2, <2>1, <2>4, <2>6
  <2>7. CASE s \notin Filled
    BY <1>3, <2>1, <2>2, <2>3, <2>4, <2>5, <2>7
  <2> QED
    BY <2>6, <2>7
<1>13. /\ DOMAIN mk2 = (DOMAIN mk \cup mark) \ tell /\ DOMAIN nk2 = (DOMAIN nk \cup mark) \ tell
       /\ Shaped(m2) /\ MarksTyped(mk2) /\ Shaped(n2) /\ MarksTyped(nk2)
       /\ tell = {} => m2 = m /\ n2 = n
       /\ ~HasEnd(Told(mk, mark, tell)) /\ ~HasEnd(Told(nk, mark, tell))
  BY <1>7, <1>8, Zenon DEF OneSide
<1>14. p.state \notin Filled => DOMAIN mk2 = Held(p.state) /\ DOMAIN nk2 = Held(p.state)
  BY <1>2, <1>3, <1>4, <1>13
<1>15. DOMAIN mk2 \subseteq MarksIn(p.state) /\ DOMAIN nk2 \subseteq MarksIn(p.state)
  <2>1. CASE p.state \notin Filled
    BY <1>14, <2>1, EarlyIs
  <2>2. CASE p.state \in Filled
    <3>1. MarksIn(p.state) = {"body"} /\ Held(p.state) = {}
      BY <2>2, EarlyIs, HeldAre DEF Filled
    <3> QED
      BY <1>2, <1>3, <1>4, <1>13, <3>1
  <2> QED
    BY <2>1, <2>2
<1>16. p.state \in Early => Clear(mode, m2) /\ Clear(mode, n2)
  BY <1>1, <1>3, <1>13 DEF Fits
<1>17. Abreast(mode, p.state, m2, mk2, n2, nk2)
  BY <1>5, <1>6, <1>12, <1>13, <1>14, <1>15, <1>16, Zenon DEF Abreast
<1> QED
  BY <1>5, <1>6, <1>13, <1>17, Zenon

-----------------------------------------------------------------------------
(* The end of a buffer on one side: what is behind the mark is told, and    *)
(* the mark is set again with nothing behind it.                            *)
Resumed(s) == IF s \in Filled THEN {} ELSE Held(s)

LEMMA ResumedIs ==
  ASSUME parser.state \in States
  PROVE  ResumedMark = Resumed(parser.state)
<1>1. parser.state \in UrlStates => ResumedMark = {"url"}
  BY DEF ResumedMark, UrlStates, EndableUrl
<1>2. parser.state = "header_field" => ResumedMark = {"header_field"}
  BY DEF ResumedMark, UrlStates, EndableUrl
<1>3. parser.state = "header_value" => ResumedMark = {"header_value"}
  BY DEF ResumedMark, UrlStates, EndableUrl
<1>4. parser.state \notin UrlStates \cup {"header_field", "header_value"} => ResumedMark = {}
  BY DEF ResumedMark
<1>5. CASE parser.state \in UrlStates
  BY <1>1, <1>5, HeldAre DEF Resumed
<1>6. CASE parser.state \in {"header_field", "header_value"}
  BY <1>2, <1>3, <1>6, HeldAre DEF Resumed
<1>7. CASE parser.state \notin UrlStates \cup {"header_field", "header_value"}
  <2>1. parser.state \in Bare \/ parser.state \in BodyStates
    BY <1>7 DEF Bare
  <2> QED
    BY <1>4, <1>7, <2>1, HeldAre DEF Resumed
<1> QED
  BY <1>5, <1>6, <1>7

LEMMA OneMark ==
  ASSUME NEW s \in States
  PROVE  \E k \in Kinds : MarksIn(s) \subseteq {k} /\ (k = "url" => s \in Early)
<1>1. {"url", "header_field", "header_value", "body"} \subseteq Kinds
  BY DEF Kinds
<1>2. CASE s \in UrlStates
  BY <1>1, <1>2, MarksAre DEF Early
<1>3. CASE s \in Filled
  BY <1>1, <1>3, EarlyIs
<1>4. CASE s = "header_field"
  BY <1>1, <1>4, MarksAre
<1>5. CASE s = "header_value"
  BY <1>1, <1>5, MarksAre
<1>6. CASE s \in Bare
  BY <1>1, <1>6, MarksAre
<1>7. s \in UrlStates \cup Filled \cup {"header_field", "header_value"} \cup Bare
  BY DEF Bare, Filled
<1> QED
  BY <1>2, <1>3, <1>4, <1>5, <1>6, <1>7

ToldAtEnd(mk) ==
  IF DOMAIN mk = {} THEN <<>>
  ELSE LET k == CHOOSE k \in DOMAIN mk : TRUE IN <<<<k, mk[k]>>>>

LEMMA ToldAtEndIs ==
  ASSUME NEW mode, NEW m, NEW mk, MarksTyped(mk)
  PROVE  /\ Gathered(mode, m, ToldAtEnd(mk)) = FlushedOf(mode, m, mk)
         /\ ~HasEnd(ToldAtEnd(mk))
<1>1. CASE DOMAIN mk = {}
  BY <1>1, GatheredNone, Endings, Zenon DEF ToldAtEnd, FlushedOf
<1>2. CASE DOMAIN mk # {}
  <2>1. PICK k \in DOMAIN mk : k = (CHOOSE j \in DOMAIN mk : TRUE)
    BY <1>2
  <2>2. ToldAtEnd(mk) = <<<<k, mk[k]>>>> /\ FlushedOf(mode, m, mk) = Gather(mode, m, <<k, mk[k]>>)
    BY <1>2, <2>1, Zenon DEF ToldAtEnd, FlushedOf
  <2>3. k \in Kinds
    BY DEF MarksTyped
  <2> QED
    BY <2>2, <2>3, GatheredOne, Endings, Zenon
<1> QED
  BY <1>1, <1>2

LEMMA ResumedAbreast ==
  ASSUME NEW mode, NEW s \in States, NEW m, NEW mk, NEW n, NEW nk, Abreast(mode, s, m, mk, n, nk)
  PROVE  Abreast(mode, s, FlushedOf(mode, m, mk), [k \in Resumed(s) |-> <<>>], n, nk)
<1>1. PICK f, mk2, g :
        /\ f = FlushedOf(mode, m, mk) /\ mk2 = [k \in Resumed(s) |-> <<>>]
        /\ g = FlushedOf(mode, f, mk2)
  OBVIOUS
<1>2. PICK k \in Kinds : MarksIn(s) \subseteq {k} /\ (k = "url" => s \in Early)
  BY OneMark
<1>3. /\ Shaped(m) /\ MarksTyped(mk) /\ DOMAIN mk \subseteq {k}
      /\ Alike(f, FlushedOf(mode, n, nk))
      /\ s \notin Filled => DOMAIN mk = Held(s)
      /\ s \in Early => Clear(mode, m) /\ Clear(mode, n)
  BY <1>1, <1>2 DEF Abreast
<1>4. /\ DOMAIN mk2 = Resumed(s) /\ Resumed(s) \subseteq MarksIn(s)
      /\ \A j \in DOMAIN mk2 : mk2[j] = <<>>
  BY <1>1, EarlyIs DEF Resumed
<1>5. /\ k \in DOMAIN mk => f = Gather(mode, m, <<k, mk[k]>>) /\ mk[k] \in Seq(Byte)
      /\ k \notin DOMAIN mk => f = m
      /\ k \in DOMAIN mk2 => g = Gather(mode, f, <<k, <<>>>>)
      /\ k \notin DOMAIN mk2 => g = f
  <2>1. /\ k \in DOMAIN mk => f = Gather(mode, m, <<k, mk[k]>>)
        /\ k \notin DOMAIN mk => f = m
    BY <1>1, <1>3, FlushedIs
  <2>2. DOMAIN mk2 \subseteq {k}
    BY <1>2, <1>4
  <2>3. /\ k \in DOMAIN mk2 => FlushedOf(mode, f, mk2) = Gather(mode, f, <<k, mk2[k]>>)
        /\ k \notin DOMAIN mk2 => FlushedOf(mode, f, mk2) = f
    BY <2>2, FlushedIs
  <2> QED
    BY <1>1, <1>3, <1>4, <2>1, <2>3 DEF MarksTyped
<1>6. Shaped(f) /\ (s \in Early => Clear(mode, f))
  <2>1. CASE k \in DOMAIN mk
    <3>1. PICK d \in Seq(Byte) : d = mk[k]
      BY <1>5, <2>1
    <3>2. f = Gather(mode, m, <<k, d>>)
      BY <1>5, <2>1, <3>1
    <3>3. k = "url" => Clear(mode, m)
      BY <1>2, <1>3
    <3>4. Shaped(f) /\ (k = "url" => Clear(mode, f))
      BY <1>3, <3>2, <3>3, AlikeSelf, GatherAlike
    <3>5. s \in Early => k = "url"
      BY <1>3, <2>1, EarlyIs
    <3> QED
      BY <3>4, <3>5
  <2>2. CASE k \notin DOMAIN mk
    BY <1>3, <1>5, <2>2
  <2> QED
    BY <2>1, <2>2
<1>7. Alike(f, g)
  <2>1. CASE k \in DOMAIN mk2
    <3>1. k \in DOMAIN mk
      <4>1. s \notin Filled
        BY <1>4, <2>1 DEF Resumed
      <4>2. DOMAIN mk2 = Held(s) /\ DOMAIN mk = Held(s)
        BY <1>3, <1>4, <4>1 DEF Resumed
      <4> QED
        BY <2>1, <4>2
    <3>2. PICK d \in Seq(Byte), e \in Seq(Byte) : d = mk[k] /\ e = <<>>
      <4>1. mk[k] \in Seq(Byte)
        BY <1>5, <3>1
      <4>2. <<>> \in Seq(Byte)
        OBVIOUS
      <4> QED
        BY <4>1, <4>2, Zenon
    <3>3. d \o e = d
      BY <3>2
    <3>4. k = "url" => Clear(mode, m)
      BY <1>2, <1>3
    <3>5. Alike(Gather(mode, m, <<k, d \o e>>), Gather(mode, Gather(mode, m, <<k, d>>), <<k, e>>))
      BY <1>3, <3>4, GatherSplit
    <3> QED
      BY <1>5, <2>1, <3>1, <3>2, <3>3, <3>5, Zenon
  <2>2. CASE k \notin DOMAIN mk2
    BY <1>5, <2>2, AlikeSelf
  <2> QED
    BY <2>1, <2>2
<1>8. Alike(g, FlushedOf(mode, n, nk))
  BY <1>3, <1>7, Zenon DEF Alike
<1>9. MarksTyped(mk2) /\ (s \notin Filled => DOMAIN mk2 = Held(s))
  <2>1. DOMAIN mk2 \subseteq Kinds
    BY <1>2, <1>4
  <2> QED
    BY <1>4, <2>1, ShortSequences DEF MarksTyped, Resumed
<1>10. /\ Shaped(n) /\ MarksTyped(nk) /\ DOMAIN nk \subseteq MarksIn(s)
       /\ s \notin Filled => DOMAIN nk = Held(s)
  BY Zenon DEF Abreast
<1>11. DOMAIN mk2 \subseteq MarksIn(s)
  BY <1>4
<1>12. Abreast(mode, s, f, mk2, n, nk)
  BY <1>1, <1>3, <1>6, <1>8, <1>9, <1>10, <1>11, Zenon DEF Abreast
<1> QED
  BY <1>1, <1>12, Zenon

LEMMA FlushedShaped ==
  ASSUME NEW mode, NEW s \in States, NEW m, Shaped(m), NEW mk, MarksTyped(mk), DOMAIN mk \subseteq MarksIn(s),
         s \notin Filled => DOMAIN mk = Held(s), s \in Early => Clear(mode, m)
  PROVE  Shaped(FlushedOf(mode, m, mk))
<1>1. PICK k \in Kinds : MarksIn(s) \subseteq {k} /\ (k = "url" => s \in Early)
  BY OneMark
<1>2. CASE k \in DOMAIN mk
  <2>1. mk[k] \in Seq(Byte) /\ FlushedOf(mode, m, mk) = Gather(mode, m, <<k, mk[k]>>)
    BY <1>1, <1>2, FlushedIs DEF MarksTyped
  <2>2. PICK d \in Seq(Byte) : d = mk[k]
    BY <2>1
  <2>3. Shaped(Gather(mode, m, <<k, d>>))
    BY <1>1, AlikeSelf, GatherAlike
  <2> QED
    BY <2>1, <2>2, <2>3
<1>3. CASE k \notin DOMAIN mk
  BY <1>1, <1>3, FlushedIs
<1> QED
  BY <1>2, <1>3

LEMMA AbreastShaped ==
  ASSUME NEW mode, NEW s \in States, NEW m, NEW mk, NEW n, NEW nk, Abreast(mode, s, m, mk, n, nk)
  PROVE  Shaped(FlushedOf(mode, m, mk)) /\ Shaped(FlushedOf(mode, n, nk))
<1>1. /\ Shaped(m) /\ MarksTyped(mk) /\ DOMAIN mk \subseteq MarksIn(s)
      /\ Shaped(n) /\ MarksTyped(nk) /\ DOMAIN nk \subseteq MarksIn(s)
      /\ s \notin Filled => DOMAIN mk = Held(s) /\ DOMAIN nk = Held(s)
      /\ s \in Early => Clear(mode, m) /\ Clear(mode, n)
  BY Zenon DEF Abreast
<1> QED
  BY <1>1, FlushedShaped

-----------------------------------------------------------------------------
(* The end of a message: its headers, or its last byte.                     *)
LEMMA CompletedAbreast ==
  ASSUME NEW mode, NEW s, Held(s) = {}, NEW mk, DOMAIN mk = {}, NEW nk, DOMAIN nk = {},
         NEW m, Shaped(m), NEW n, Shaped(n), Alike(m, n),
         NEW m2, m2 = (IF mode = "RESPONSE" THEN m ELSE Fresh),
         NEW n2, n2 = (IF mode = "RESPONSE" THEN n ELSE Fresh)
  PROVE  Abreast(mode, s, m2, mk, n2, nk)
<1>1. Shaped(Fresh) /\ Fresh.error = "OK"
  BY DEF Shaped, Fresh
<1>2. Shaped(m2) /\ Shaped(n2) /\ Alike(m2, n2) /\ Clear(mode, m2) /\ Clear(mode, n2)
  BY <1>1, AlikeSelf DEF Clear
<1>3. MarksTyped(mk) /\ MarksTyped(nk)
  BY DEF MarksTyped
<1>4. FlushedOf(mode, m2, mk) = m2 /\ FlushedOf(mode, n2, nk) = n2
  BY DEF FlushedOf
<1>5. DOMAIN mk \subseteq MarksIn(s) /\ DOMAIN nk \subseteq MarksIn(s)
  OBVIOUS
<1> QED
  BY <1>2, <1>3, <1>4, <1>5, Zenon DEF Abreast

LEMMA HeadersAbreast ==
  ASSUME NEW mode, NEW s, Held(s) = {}, s \notin Filled, NEW t, Held(t) = {},
         NEW m, NEW mk, NEW n, NEW nk, Abreast(mode, s, m, mk, n, nk)
  PROVE  /\ DOMAIN mk = {} /\ DOMAIN nk = {}
         /\ Shaped(m) /\ Shaped(n) /\ Alike(m, n)
         /\ Shaped(SaveLastHeader(mode, m)) /\ Shaped(SaveLastHeader(mode, n))
         /\ Alike(SaveLastHeader(mode, m), SaveLastHeader(mode, n))
         /\ t \notin Early => Abreast(mode, t, SaveLastHeader(mode, m), mk, SaveLastHeader(mode, n), nk)
<1>1. /\ Shaped(m) /\ Shaped(n) /\ MarksTyped(mk) /\ MarksTyped(nk)
      /\ DOMAIN mk = {} /\ DOMAIN nk = {}
      /\ Alike(FlushedOf(mode, m, mk), FlushedOf(mode, n, nk))
  BY Zenon DEF Abreast
<1>2. \A x : FlushedOf(mode, x, mk) = x /\ FlushedOf(mode, x, nk) = x
  BY <1>1, Zenon DEF FlushedOf
<1>3. Alike(m, n)
  BY <1>1, <1>2
<1>4. PICK m2, n2 : m2 = SaveLastHeader(mode, m) /\ n2 = SaveLastHeader(mode, n)
  OBVIOUS
<1>5. Shaped(m2) /\ Shaped(n2) /\ Alike(m2, n2)
  <2>1. Shaped(m2) /\ Alike(m2, n2)
    BY <1>1, <1>3, <1>4, SaveKeeps
  <2>2. Shaped(n2)
    BY <1>1, <1>4, AlikeSelf, SaveKeeps
  <2> QED
    BY <2>1, <2>2
<1>6. ASSUME t \notin Early
      PROVE  Abreast(mode, t, m2, mk, n2, nk)
  <2>1. DOMAIN mk \subseteq MarksIn(t) /\ DOMAIN nk \subseteq MarksIn(t)
    BY <1>1
  <2>2. Alike(FlushedOf(mode, m2, mk), FlushedOf(mode, n2, nk))
    BY <1>2, <1>5, Zenon
  <2> QED
    BY <1>1, <1>5, <1>6, <2>1, <2>2, Zenon DEF Abreast
<1> QED
  BY <1>1, <1>3, <1>4, <1>5, <1>6, Zenon

LEMMA LastSide ==
  ASSUME NEW mode, NEW m, Shaped(m), NEW mk, MarksTyped(mk), DOMAIN mk \subseteq {"body"},
         NEW b \in Byte, NEW d, d = (IF "body" \in DOMAIN mk THEN Append(mk["body"], b) ELSE <<b>>)
  PROVE  /\ Shaped(Gather(mode, m, <<"body", d>>))
         /\ Shaped(FlushedOf(mode, m, mk))
         /\ Alike(Gather(mode, m, <<"body", d>>),
                  Gather(mode, FlushedOf(mode, m, mk), <<"body", <<b>>>>))
<1>1. "body" \in Kinds /\ "body" # "url" /\ <<b>> \in Seq(Byte)
  BY DEF Kinds
<1>2. \A e \in Seq(Byte) : Shaped(Gather(mode, m, <<"body", e>>))
  BY <1>1, AlikeSelf, GatherAlike
<1>3. CASE "body" \in DOMAIN mk
  <2>1. PICK c \in Seq(Byte), e \in Seq(Byte) : c = mk["body"] /\ e = <<b>>
    <3>1. mk["body"] \in Seq(Byte)
      BY <1>3 DEF MarksTyped
    <3> QED
      BY <1>1, <3>1, Zenon
  <2>2. d = c \o e /\ c \o e \in Seq(Byte)
    BY <1>3, <2>1, Concatenated
  <2>3. Alike(Gather(mode, m, <<"body", c \o e>>), Gather(mode, Gather(mode, m, <<"body", c>>), <<"body", e>>))
    BY <1>1, GatherSplit
  <2>4. FlushedOf(mode, m, mk) = Gather(mode, m, <<"body", c>>)
    BY <1>3, <2>1, FlushedIs
  <2>5. Shaped(Gather(mode, m, <<"body", d>>)) /\ Shaped(FlushedOf(mode, m, mk))
    BY <1>2, <2>2, <2>4
  <2> QED
    BY <2>1, <2>2, <2>3, <2>4, <2>5, Zenon
<1>4. CASE "body" \notin DOMAIN mk
  <2>1. FlushedOf(mode, m, mk) = m /\ d = <<b>>
    BY <1>4, FlushedIs
  <2> QED
    BY <1>1, <1>2, <2>1, AlikeSelf, Zenon
<1> QED
  BY <1>3, <1>4

LEMMA LastAbreast ==
  ASSUME NEW mode, NEW m, NEW mk, NEW n, NEW nk, Abreast(mode, "body_identity", m, mk, n, nk),
         NEW b \in Byte,
         NEW d, d = (IF "body" \in DOMAIN mk THEN Append(mk["body"], b) ELSE <<b>>),
         NEW e, e = (IF "body" \in DOMAIN nk THEN Append(nk["body"], b) ELSE <<b>>)
  PROVE  /\ Shaped(Gather(mode, m, <<"body", d>>)) /\ Shaped(Gather(mode, n, <<"body", e>>))
         /\ Alike(Gather(mode, m, <<"body", d>>), Gather(mode, n, <<"body", e>>))
         /\ DOMAIN mk \ {"body"} = {} /\ DOMAIN nk \ {"body"} = {}
<1>1. MarksIn("body_identity") = {"body"}
  BY EarlyIs DEF Filled, BodyStates
<1>2. /\ Shaped(m) /\ Shaped(n) /\ MarksTyped(mk) /\ MarksTyped(nk)
      /\ DOMAIN mk \subseteq {"body"} /\ DOMAIN nk \subseteq {"body"}
      /\ Alike(FlushedOf(mode, m, mk), FlushedOf(mode, n, nk))
  BY <1>1, Zenon DEF Abreast
<1>3. PICK f, g : f = FlushedOf(mode, m, mk) /\ g = FlushedOf(mode, n, nk)
  OBVIOUS
<1>4. /\ Shaped(Gather(mode, m, <<"body", d>>)) /\ Shaped(f)
      /\ Alike(Gather(mode, m, <<"body", d>>), Gather(mode, f, <<"body", <<b>>>>))
  BY <1>2, <1>3, LastSide
<1>5. /\ Shaped(Gather(mode, n, <<"body", e>>)) /\ Shaped(g)
      /\ Alike(Gather(mode, n, <<"body", e>>), Gather(mode, g, <<"body", <<b>>>>))
  BY <1>2, <1>3, LastSide
<1>6. Alike(Gather(mode, f, <<"body", <<b>>>>), Gather(mode, g, <<"body", <<b>>>>))
  <2>1. "body" \in Kinds /\ "body" # "url" /\ <<b>> \in Seq(Byte)
    BY DEF Kinds
  <2>2. Alike(f, g)
    BY <1>2, <1>3
  <2> QED
    BY <1>4, <1>5, <2>1, <2>2, GatherAlike
<1>7. Alike(Gather(mode, m, <<"body", d>>), Gather(mode, n, <<"body", e>>))
  BY <1>4, <1>5, <1>6, Zenon DEF Alike
<1> QED
  BY <1>2, <1>4, <1>5, <1>7

-----------------------------------------------------------------------------
(* What has been handed on: as many messages, one like the other.           *)
OutAlike(out, other) ==
  /\ \E S : out \in Seq(S) /\ other \in Seq(S)
  /\ Len(out) = Len(other)
  /\ \A i \in 1..Len(out) : Seen(out[i]) = Seen(other[i])

LEMMA Appended ==
  ASSUME NEW S, NEW s \in Seq(S), NEW x
  PROVE  /\ Append(s, x) \in Seq(S \cup {x})
         /\ Len(Append(s, x)) = Len(s) + 1 /\ Len(s) \in Nat
         /\ \A i \in 1..Len(s) : Append(s, x)[i] = s[i]
         /\ Append(s, x)[Len(s) + 1] = x
<1>1. s \in Seq(S \cup {x})
  BY SeqDef
<1>2. x \in S \cup {x}
  OBVIOUS
<1> QED
  BY <1>1, <1>2

LEMMA HandedOn ==
  ASSUME NEW out, NEW other, OutAlike(out, other), NEW x, NEW y, Seen(x) = Seen(y)
  PROVE  OutAlike(Append(out, x), Append(other, y))
<1>1. PICK S : out \in Seq(S) /\ other \in Seq(S)
  BY DEF OutAlike
<1>2. PICK T : T = S \cup {x, y}
  OBVIOUS
<1>3. out \in Seq(T) /\ other \in Seq(T) /\ x \in T /\ y \in T
  BY <1>1, <1>2, SeqDef
<1>4. Append(out, x) \in Seq(T) /\ Append(other, y) \in Seq(T)
  BY <1>3
<1>5. PICK n \in Nat : n = Len(out) /\ n = Len(other)
  BY <1>1 DEF OutAlike
<1>6. /\ Len(Append(out, x)) = n + 1 /\ Len(Append(other, y)) = n + 1
      /\ \A i \in 1..n : Append(out, x)[i] = out[i] /\ Append(other, y)[i] = other[i]
      /\ Append(out, x)[n + 1] = x /\ Append(other, y)[n + 1] = y
  <2>1. /\ Len(Append(out, x)) = Len(out) + 1
        /\ \A i \in 1..Len(out) : Append(out, x)[i] = out[i]
        /\ Append(out, x)[Len(out) + 1] = x
    BY <1>3, Appended
  <2>2. /\ Len(Append(other, y)) = Len(other) + 1
        /\ \A i \in 1..Len(other) : Append(other, y)[i] = other[i]
        /\ Append(other, y)[Len(other) + 1] = y
    BY <1>3, Appended
  <2> QED
    BY <1>5, <2>1, <2>2, Zenon
<1>7. \A i \in 1..n : Seen(out[i]) = Seen(other[i])
  BY <1>5 DEF OutAlike
<1>8. \A i \in 1..n + 1 : Seen(Append(out, x)[i]) = Seen(Append(other, y)[i])
  <2> SUFFICES ASSUME NEW i \in 1..n + 1
               PROVE  Seen(Append(out, x)[i]) = Seen(Append(other, y)[i])
    OBVIOUS
  <2>1. CASE i = n + 1
    BY <1>6, <2>1
  <2>2. CASE i \in 1..n
    BY <1>6, <1>7, <2>2
  <2>3. i = n + 1 \/ i \in 1..n
    BY <1>5
  <2> QED
    BY <2>1, <2>2, <2>3
<1> QED
  BY <1>4, <1>6, <1>8 DEF OutAlike

LEMMA HandedAlike ==
  ASSUME NEW m, Shaped(m), NEW n, Shaped(n), Alike(m, n), NEW p
  PROVE  Seen(Handed(m, p)) = Seen(Handed(n, p))
<1>1. PICK verb, status :
        verb = (IF p.method = "POST" THEN "POST" ELSE "GET") /\ status = p.status_code
  OBVIOUS
<1> DEFINE hand(u, x) == [url |-> u, headers |-> x.headers, body |-> x.body, error |-> x.error,
                          verb |-> verb, status |-> status]
<1>2. Handed(m, p) = hand(m.url, m) /\ Handed(n, p) = hand(n.url, n)
  BY <1>1, Zenon DEF Handed
<1>3. hand(m.url, m).error = m.error /\ hand(n.url, n).error = n.error
  OBVIOUS
<1>4. CASE m.error = "OK"
  <2>1. hand(m.url, m) = hand(n.url, n)
    BY <1>4 DEF Alike
  <2> QED
    BY <1>2, <2>1
<1>5. CASE m.error # "OK"
  <2>1. /\ [hand(m.url, m) EXCEPT !.url = <<>>] = hand(<<>>, m)
        /\ [hand(n.url, n) EXCEPT !.url = <<>>] = hand(<<>>, n)
    OBVIOUS
  <2>2. hand(<<>>, m) = hand(<<>>, n)
    BY DEF Alike
  <2>3. n.error # "OK"
    BY <1>5 DEF Alike
  <2> HIDE DEF hand
  <2> QED
    BY <1>2, <1>3, <1>5, <2>1, <2>2, <2>3 DEF Seen
<1> QED
  BY <1>4, <1>5

(* What Adapt makes, on one side, of what execute told.                     *)
Side(mode, p, m, list, out, m2, out2) ==
  /\ out2 = IF HasEnd(list) THEN Append(out, Handed(Gathered(mode, m, list), p)) ELSE out
  /\ m2 = IF ~HasEnd(list) \/ mode = "RESPONSE" THEN Gathered(mode, m, list) ELSE Fresh

LEMMA AdaptIs ==
  /\ Adapt(TRUE) => Side(parser.type, parser, msg, calls', delivered, msg', delivered')
  /\ Whole!Adapt(TRUE) => Side(wholeParser.type, wholeParser, wholeMsg, wholeCalls', wholeDelivered,
                               wholeMsg', wholeDelivered')
<1>1. Adapt(TRUE) => Side(parser.type, parser, msg, calls', delivered, msg', delivered')
  BY Zenon DEF Adapt, Side, HasEnd
<1>2. Whole!Adapt(TRUE) => Side(wholeParser.type, wholeParser, wholeMsg, wholeCalls', wholeDelivered,
                                wholeMsg', wholeDelivered')
  BY WholeAdapter, WholeConstants, Zenon DEF Whole!Adapt, Side, HasEnd
<1> QED
  BY <1>1, <1>2

LEMMA FlushedAre ==
  /\ Flushed = FlushedOf(parser.type, msg, marks)
  /\ Whole!Flushed = FlushedOf(wholeParser.type, wholeMsg, wholeMarks)
<1>1. Flushed = FlushedOf(parser.type, msg, marks)
  BY Zenon DEF Flushed, FlushedOf
<1>2. Whole!Flushed = FlushedOf(wholeParser.type, wholeMsg, wholeMarks)
  <2>1. \A k, d : Whole!Gather(wholeParser.type, wholeMsg, <<k, d>>) = Gather(wholeParser.type, wholeMsg, <<k, d>>)
    BY WholeAdapter, Zenon
  <2> QED
    BY <2>1 DEF Whole!Flushed, FlushedOf
<1> QED
  BY <1>1, <1>2

LEMMA EndGathered ==
  ASSUME NEW mode, NEW m
  PROVE  /\ Gathered(mode, m, <<HeadersComplete>>) = SaveLastHeader(mode, m)
         /\ Gathered(mode, m, <<MessageComplete>>) = m
         /\ Gathered(mode, m, <<HeadersComplete, MessageComplete>>) = SaveLastHeader(mode, m)
         /\ \A c : Gathered(mode, m, <<c, MessageComplete>>) = Gather(mode, m, c)
<1>1. PICK h, e : h = HeadersComplete /\ e = MessageComplete
  OBVIOUS
<1>2. \A n : Gather(mode, n, h) = SaveLastHeader(mode, n) /\ Gather(mode, n, e) = n
  BY <1>1, GatherEvent, Zenon
<1>3. Gathered(mode, m, <<h>>) = Gather(mode, m, h)
  BY GatheredOne
<1>4. Gathered(mode, m, <<e>>) = Gather(mode, m, e)
  BY GatheredOne
<1>5. \A c : Gathered(mode, m, <<c, e>>) = Gather(mode, Gather(mode, m, c), e)
  BY GatheredTwo
<1> QED
  BY <1>1, <1>2, <1>3, <1>4, <1>5, Zenon

-----------------------------------------------------------------------------
(* The two parsers in step: the one whose stream is cut into reads has told *)
(* more of what it is in the middle of, and nothing else is different.      *)
Sim ==
  /\ parser = wholeParser
  /\ running = wholeRunning
  /\ ~running => parser.http_errno # "OK"
  /\ NoUpgrade(parser)
  /\ OutAlike(delivered, wholeDelivered)
  /\ running => Abreast(parser.type, parser.state, msg, marks, wholeMsg, wholeMarks)

LEMMA SimFailed ==
  ASSUME IInv, Sim, running, Fail, Whole!Fail, Adapt(TRUE), Whole!Adapt(TRUE)
  PROVE  Sim'
<1>0. Same
  BY DEF Same, Sim
<1>1. PICK p : p = [Now EXCEPT !.http_errno = "ERROR"]
  OBVIOUS
<1>2. parser' = p /\ wholeParser' = p /\ ~running' /\ ~wholeRunning'
      /\ calls' = <<>> /\ wholeCalls' = <<>> /\ running' = FALSE /\ wholeRunning' = FALSE
  BY <1>0, <1>1, NowSame, Zenon DEF Fail, Whole!Fail
<1>3. NoUpgrade(p) /\ p.http_errno = "ERROR"
  BY <1>0, <1>1, NowSame, ParsersAre DEF NoUpgrade, Same
<1>4. delivered' = delivered /\ wholeDelivered' = wholeDelivered
  BY <1>2, AdaptIs, Endings, Zenon DEF Side
<1> QED
  BY <1>2, <1>3, <1>4 DEF Sim

LEMMA SimStepped ==
  ASSUME IInv, Sim, running, NEW b \in Byte, NEW p, NEW mark, NEW tell,
         Step(b, p, mark, tell), Whole!Step(b, p, mark, tell), Fits(p, mark, tell),
         Adapt(TRUE), Whole!Adapt(TRUE)
  PROVE  Sim'
<1>1. PICK mode : mode = parser.type /\ mode = wholeParser.type
  BY DEF Sim
<1>2. /\ parser' = p /\ running' = running
      /\ marks' = MarksAfter(marks, mark, tell, b) /\ calls' = Told(marks, mark, tell)
      /\ wholeParser' = p /\ wholeRunning' = wholeRunning
      /\ wholeMarks' = MarksAfter(wholeMarks, mark, tell, b)
      /\ wholeCalls' = Told(wholeMarks, mark, tell)
  BY Zenon DEF Step, Whole!Step, MarksAfter, MarkedWith, Told
<1>3. Abreast(mode, parser.state, msg, marks, wholeMsg, wholeMarks)
  BY <1>1 DEF Sim
<1>4. /\ Abreast(mode, p.state,
                 Gathered(mode, msg, Told(marks, mark, tell)), MarksAfter(marks, mark, tell, b),
                 Gathered(mode, wholeMsg, Told(wholeMarks, mark, tell)),
                 MarksAfter(wholeMarks, mark, tell, b))
      /\ ~HasEnd(Told(marks, mark, tell)) /\ ~HasEnd(Told(wholeMarks, mark, tell))
  BY <1>1, <1>3, StepAbreast
<1>5. /\ delivered' = delivered /\ wholeDelivered' = wholeDelivered
      /\ msg' = Gathered(mode, msg, calls') /\ wholeMsg' = Gathered(mode, wholeMsg, wholeCalls')
  BY <1>1, <1>2, <1>4, AdaptIs, Zenon DEF Side
<1>6. Abreast(mode, p.state, msg', marks', wholeMsg', wholeMarks')
  BY <1>2, <1>4, <1>5, Zenon
<1>7. p.type = mode /\ NoUpgrade(p)
  BY <1>1 DEF Fits
<1> QED
  BY <1>2, <1>5, <1>6, <1>7 DEF Sim

LEMMA SimEnded ==
  ASSUME IInv, Sim, running, NEW b, Ended(b), Adapt(TRUE), Whole!Adapt(TRUE)
  PROVE  Sim'
<1>1. PICK mode : mode = parser.type /\ mode = wholeParser.type
  BY DEF Sim
<1>2. PICK q, events :
        /\ parser' = q /\ wholeParser' = q
        /\ calls' = events /\ wholeCalls' = events
        /\ marks' = marks /\ wholeMarks' = wholeMarks
        /\ running' = running /\ wholeRunning' = wholeRunning
        /\ q.type = mode /\ NoUpgrade(q)
        /\ Held(parser.state) = {} /\ parser.state \notin Filled /\ Held(q.state) = {}
        /\ \/ events = <<HeadersComplete>> /\ q.state \notin Early
           \/ events \in {<<MessageComplete>>, <<HeadersComplete, MessageComplete>>}
  BY <1>1 DEF Ended
<1>3. Abreast(mode, parser.state, msg, marks, wholeMsg, wholeMarks)
  BY <1>1 DEF Sim
<1>4. PICK s, t : s = SaveLastHeader(mode, msg) /\ t = SaveLastHeader(mode, wholeMsg)
  OBVIOUS
<1>5. /\ DOMAIN marks = {} /\ DOMAIN wholeMarks = {}
      /\ Shaped(msg) /\ Shaped(wholeMsg) /\ Alike(msg, wholeMsg)
      /\ Shaped(s) /\ Shaped(t) /\ Alike(s, t)
      /\ q.state \notin Early => Abreast(mode, q.state, s, marks, t, wholeMarks)
  BY <1>2, <1>3, <1>4, HeadersAbreast
<1>6. CASE events = <<HeadersComplete>> /\ q.state \notin Early
  <2>1. Gathered(mode, msg, events) = s /\ Gathered(mode, wholeMsg, events) = t /\ ~HasEnd(events)
    BY <1>4, <1>6, EndGathered, Endings, Zenon
  <2>2. /\ delivered' = delivered /\ wholeDelivered' = wholeDelivered /\ msg' = s /\ wholeMsg' = t
    BY <1>1, <1>2, <2>1, AdaptIs, Zenon DEF Side
  <2>3. Abreast(mode, q.state, msg', marks', wholeMsg', wholeMarks')
    BY <1>2, <1>5, <1>6, <2>2, Zenon
  <2> QED
    BY <1>2, <2>2, <2>3 DEF Sim
<1>7. CASE events \in {<<MessageComplete>>, <<HeadersComplete, MessageComplete>>}
  <2>1. PICK u, v : u = Gathered(mode, msg, events) /\ v = Gathered(mode, wholeMsg, events)
    OBVIOUS
  <2>2. HasEnd(events) /\ Shaped(u) /\ Shaped(v) /\ Alike(u, v)
    <3>1. CASE events = <<MessageComplete>>
      <4>1. u = msg /\ v = wholeMsg
        BY <2>1, <3>1, EndGathered, Zenon
      <4> QED
        BY <1>5, <3>1, <4>1, Endings, Zenon
    <3>2. CASE events = <<HeadersComplete, MessageComplete>>
      <4>1. u = s /\ v = t
        BY <1>4, <2>1, <3>2, EndGathered, Zenon
      <4> QED
        BY <1>5, <3>2, <4>1, Endings, Zenon
    <3> QED
      BY <1>7, <3>1, <3>2
  <2>3. /\ delivered' = Append(delivered, Handed(u, parser))
        /\ wholeDelivered' = Append(wholeDelivered, Handed(v, parser))
        /\ msg' = (IF mode = "RESPONSE" THEN u ELSE Fresh)
        /\ wholeMsg' = (IF mode = "RESPONSE" THEN v ELSE Fresh)
    BY <1>1, <1>2, <2>1, <2>2, AdaptIs, Zenon DEF Side, Sim
  <2>4. OutAlike(delivered', wholeDelivered')
    <3>1. Seen(Handed(u, parser)) = Seen(Handed(v, parser))
      BY <2>2, HandedAlike
    <3> QED
      BY <2>3, <3>1, HandedOn DEF Sim
  <2>5. Abreast(mode, q.state, msg', marks', wholeMsg', wholeMarks')
    <3>1. DOMAIN marks' = {} /\ DOMAIN wholeMarks' = {} /\ Held(q.state) = {}
      BY <1>2, <1>5
    <3> QED
      BY <2>2, <2>3, <3>1, CompletedAbreast
  <2> QED
    BY <1>2, <2>4, <2>5 DEF Sim
<1> QED
  BY <1>2, <1>6, <1>7

LEMMA SimLast ==
  ASSUME IInv, Sim, running, NEW b \in Byte, LastByte(b), Adapt(TRUE), Whole!Adapt(TRUE)
  PROVE  Sim'
<1>1. PICK mode : mode = parser.type /\ mode = wholeParser.type
  BY DEF Sim
<1>2. PICK d, e :
        /\ d = (IF "body" \in DOMAIN marks THEN Append(marks["body"], b) ELSE <<b>>)
        /\ e = (IF "body" \in DOMAIN wholeMarks THEN Append(wholeMarks["body"], b) ELSE <<b>>)
  OBVIOUS
<1>3. PICK q :
        /\ parser' = q /\ wholeParser' = q
        /\ q.type = mode /\ NoUpgrade(q) /\ Held(q.state) = {} /\ q.state \notin Filled
        /\ running' = running /\ wholeRunning' = wholeRunning
        /\ marks' = [k \in DOMAIN marks \ {"body"} |-> Append(marks[k], b)]
        /\ wholeMarks' = [k \in DOMAIN wholeMarks \ {"body"} |-> Append(wholeMarks[k], b)]
        /\ calls' = <<<<"body", d>>, MessageComplete>>
        /\ wholeCalls' = <<<<"body", e>>, MessageComplete>>
  BY <1>1, <1>2, Zenon DEF LastByte
<1>4. Abreast(mode, "body_identity", msg, marks, wholeMsg, wholeMarks)
  BY <1>1 DEF Sim, LastByte
<1>5. PICK u, v : u = Gather(mode, msg, <<"body", d>>) /\ v = Gather(mode, wholeMsg, <<"body", e>>)
  OBVIOUS
<1>6. /\ Shaped(u) /\ Shaped(v) /\ Alike(u, v)
      /\ DOMAIN marks \ {"body"} = {} /\ DOMAIN wholeMarks \ {"body"} = {}
  BY <1>2, <1>4, <1>5, LastAbreast
<1>7. HasEnd(calls') /\ HasEnd(wholeCalls')
      /\ Gathered(mode, msg, calls') = u /\ Gathered(mode, wholeMsg, wholeCalls') = v
  <2>1. \A c : HasEnd(<<c, MessageComplete>>)
    BY Endings
  <2>2. /\ \A c : Gathered(mode, msg, <<c, MessageComplete>>) = Gather(mode, msg, c)
        /\ \A c : Gathered(mode, wholeMsg, <<c, MessageComplete>>) = Gather(mode, wholeMsg, c)
    BY EndGathered
  <2> QED
    BY <1>3, <1>5, <2>1, <2>2, Zenon
<1>8. /\ delivered' = Append(delivered, Handed(u, parser))
      /\ wholeDelivered' = Append(wholeDelivered, Handed(v, parser))
      /\ msg' = (IF mode = "RESPONSE" THEN u ELSE Fresh)
      /\ wholeMsg' = (IF mode = "RESPONSE" THEN v ELSE Fresh)
  BY <1>1, <1>7, AdaptIs, Zenon DEF Side, Sim
<1>9. OutAlike(delivered', wholeDelivered')
  <2>1. Seen(Handed(u, parser)) = Seen(Handed(v, parser))
    BY <1>6, HandedAlike
  <2> QED
    BY <1>8, <2>1, HandedOn DEF Sim
<1>10. Abreast(mode, q.state, msg', marks', wholeMsg', wholeMarks')
  <2>1. DOMAIN marks' = {} /\ DOMAIN wholeMarks' = {} /\ Held(q.state) = {}
    BY <1>3, <1>6
  <2> QED
    BY <1>6, <1>8, <2>1, CompletedAbreast
<1> QED
  BY <1>3, <1>9, <1>10 DEF Sim

LEMMA SimIgnored ==
  ASSUME Sim, ~running, Ignore, Whole!Ignore, Adapt(TRUE), Whole!Adapt(TRUE)
  PROVE  Sim'
<1>1. /\ parser' = parser /\ running' = running /\ calls' = <<>>
      /\ wholeParser' = wholeParser /\ wholeRunning' = wholeRunning /\ wholeCalls' = <<>>
  BY DEF Ignore, Whole!Ignore
<1>2. delivered' = delivered /\ wholeDelivered' = wholeDelivered
  BY <1>1, AdaptIs, Endings, Zenon DEF Side
<1> QED
  BY <1>1, <1>2 DEF Sim

LEMMA SimResumed ==
  ASSUME IInv, Sim, EndRead
  PROVE  Sim'
<1>1. PICK mode : mode = parser.type
  OBVIOUS
<1>2. /\ parser' = parser /\ calls' = ToldAtEnd(marks)
      /\ running' = (parser.http_errno = "OK")
      /\ marks' = IF running' THEN [k \in ResumedMark |-> <<>>] ELSE NoMarks
      /\ wholeParser' = wholeParser /\ wholeMarks' = wholeMarks /\ wholeRunning' = wholeRunning
      /\ wholeMsg' = wholeMsg /\ wholeDelivered' = wholeDelivered
      /\ Adapt(TRUE)
  BY Zenon DEF EndRead, EndAdd, NextBuffer, ToldAtEnd, wholeVars
<1>3. MarksTyped(marks) /\ parser.state \in States /\ running \in BOOLEAN
  BY ParsersAre DEF IInv, TypeOK, MarksTyped
<1>4. Gathered(mode, msg, calls') = FlushedOf(mode, msg, marks) /\ ~HasEnd(calls')
  BY <1>2, <1>3, ToldAtEndIs, Zenon
<1>5. delivered' = delivered /\ msg' = FlushedOf(mode, msg, marks)
  BY <1>1, <1>2, <1>4, AdaptIs, Zenon DEF Side
<1>6. running' = running
  BY <1>2, <1>3 DEF Sim, IInv
<1>7. ASSUME running
      PROVE  Abreast(mode, parser.state, msg', marks', wholeMsg', wholeMarks')
  <2>1. marks' = [k \in Resumed(parser.state) |-> <<>>]
    BY <1>2, <1>3, <1>6, <1>7, ResumedIs
  <2>2. Abreast(mode, parser.state, msg, marks, wholeMsg, wholeMarks)
    BY <1>1, <1>7 DEF Sim
  <2>3. Abreast(mode, parser.state, FlushedOf(mode, msg, marks), [k \in Resumed(parser.state) |-> <<>>],
                wholeMsg, wholeMarks)
    BY <1>3, <2>2, ResumedAbreast
  <2> QED
    BY <1>2, <1>5, <2>1, <2>3, Zenon
<1> QED
  BY <1>1, <1>2, <1>5, <1>6, <1>7 DEF Sim

LEMMA SimByte ==
  ASSUME IInv, Sim, NEW b \in Plainly, AddByte(b, TRUE), Whole!AddByte(b, TRUE)
  PROVE  Sim'
<1>1. Adapt(TRUE) /\ Whole!Adapt(TRUE) /\ b \in Byte
  BY DEF AddByte, Whole!AddByte, Plainly
<1>2. CASE running
  <2>1. Same
    BY <1>2 DEF Same, Sim
  <2>2. Execute(b, TRUE) /\ Whole!Execute(b, TRUE)
    BY <1>2 DEF AddByte, Whole!AddByte, Ignore, Whole!Ignore, Sim
  <2>3. Both(b) \/ Ended(b) \/ LastByte(b)
    BY <2>1, <2>2, ExecuteSame
  <2>4. CASE Both(b)
    BY <1>1, <1>2, <2>4, SimFailed, SimStepped DEF Both
  <2>5. CASE Ended(b)
    BY <1>1, <1>2, <2>5, SimEnded
  <2>6. CASE LastByte(b)
    BY <1>1, <1>2, <2>6, SimLast
  <2> QED
    BY <2>3, <2>4, <2>5, <2>6
<1>3. CASE ~running
  <2>1. Ignore /\ Whole!Ignore
    BY <1>3 DEF AddByte, Whole!AddByte, Execute, Whole!Execute, Sim
  <2> QED
    BY <1>1, <1>3, <2>1, SimIgnored
<1> QED
  BY <1>2, <1>3

LEMMA SimInit ==
  ASSUME StreamInit
  PROVE  Sim
<1>1. PICK mode : mode = input.type
  OBVIOUS
<1>2. /\ parser = Initial(mode) /\ marks = NoMarks /\ running = TRUE /\ msg = Fresh /\ delivered = <<>>
      /\ wholeParser = Initial(mode) /\ wholeMarks = NoMarks /\ wholeRunning = TRUE
      /\ wholeMsg = Fresh /\ wholeDelivered = <<>>
  <2>1. Whole!Initial(mode) = Initial(mode)
    BY WholeConstants, Zenon DEF Whole!Initial, Initial
  <2> QED
    BY <1>1, <2>1, WholeConstants, Zenon
       DEF StreamInit, AdapterInit, Whole!AdapterInit, Init, Whole!Init
<1>3. parser.type = mode /\ parser.state = "start" /\ NoUpgrade(parser)
  BY <1>2, InitialSame
<1>4. OutAlike(delivered, wholeDelivered)
  <2>1. <<>> \in Seq({}) /\ Len(<<>>) = 0 /\ 1..0 = {}
    OBVIOUS
  <2> QED
    BY <1>2, <2>1 DEF OutAlike
<1>5. Abreast(mode, "start", msg, marks, wholeMsg, wholeMarks)
  <2>1. DOMAIN NoMarks = {} /\ Held("start") = {}
    BY HeldAre, BareAre DEF NoMarks
  <2>2. Shaped(Fresh)
    BY DEF Shaped, Fresh
  <2>3. Fresh = (IF mode = "RESPONSE" THEN Fresh ELSE Fresh)
    OBVIOUS
  <2> QED
    BY <1>2, <2>1, <2>2, <2>3, AlikeSelf, CompletedAbreast
<1> QED
  BY <1>2, <1>3, <1>4, <1>5 DEF Sim

LEMMA SimNext ==
  ASSUME IInv, InStream, UpgradeSeen \/ Sim, [StreamNext]_vars
  PROVE  (UpgradeSeen \/ Sim)'
<1>1. input' = input
  BY DEF StreamNext, Parse, EndRead, vars
<1>2. CASE UpgradeSeen
  BY <1>1, <1>2 DEF UpgradeSeen
<1>3. CASE ~UpgradeSeen
  <2>1. Sim
    BY <1>3
  <2>2. CASE Parse
    <3>1. pos' \in 1..Len(input.bytes)
      <4>1. Len(input.bytes) \in Nat /\ pos \in Nat
        BY InputAssumption DEF InStream
      <4> QED
        BY <2>2, <4>1 DEF Parse
    <3>2. input.bytes[pos'] \in Byte
      BY <3>1, InputAssumption DEF InStream
    <3>3. input.bytes[pos'] \in Plainly
      BY <1>3, <3>1, <3>2 DEF UpgradeSeen, Plainly
    <3>4. PICK b \in Plainly : b = input.bytes[pos']
      BY <3>3
    <3>5. AddByte(b, TRUE) /\ Whole!AddByte(b, TRUE)
      BY <2>2, <3>4 DEF Parse
    <3>6. Sim'
      BY <2>1, <3>5, SimByte
    <3> QED
      BY <3>6
  <2>3. CASE EndRead
    BY <2>1, <2>3, SimResumed
  <2>4. CASE UNCHANGED vars
    <3>1. /\ parser' = parser /\ marks' = marks /\ running' = running /\ msg' = msg /\ delivered' = delivered
          /\ wholeParser' = wholeParser /\ wholeMarks' = wholeMarks /\ wholeRunning' = wholeRunning
          /\ wholeMsg' = wholeMsg /\ wholeDelivered' = wholeDelivered
      BY <2>4 DEF vars, adapterVars, parserVars, wholeVars
    <3> QED
      BY <2>1, <3>1, Zenon DEF Sim
  <2> QED
    BY <2>2, <2>3, <2>4 DEF StreamNext
<1> QED
  BY <1>2, <1>3

LEMMA SimEnough ==
  ASSUME IInv, Sim
  PROVE  /\ parser = wholeParser
         /\ Len(delivered) = Len(wholeDelivered)
         /\ \A i \in 1..Len(delivered) : Seen(delivered[i]) = Seen(wholeDelivered[i])
         /\ parser.http_errno = "OK" => Seen(Flushed) = Seen(Whole!Flushed)
<1>1. /\ parser = wholeParser
      /\ Len(delivered) = Len(wholeDelivered)
      /\ \A i \in 1..Len(delivered) : Seen(delivered[i]) = Seen(wholeDelivered[i])
  BY DEF Sim, OutAlike
<1>2. ASSUME parser.http_errno = "OK"
      PROVE  Seen(Flushed) = Seen(Whole!Flushed)
  <2>1. PICK f, g, mode :
          /\ mode = parser.type
          /\ f = FlushedOf(mode, msg, marks) /\ g = FlushedOf(mode, wholeMsg, wholeMarks)
    OBVIOUS
  <2>2. Flushed = f /\ Whole!Flushed = g
    BY <1>1, <2>1, FlushedAre, Zenon
  <2>3. Abreast(mode, parser.state, msg, marks, wholeMsg, wholeMarks) /\ parser.state \in States
    BY <1>2, <2>1, ParsersAre DEF Sim, IInv, TypeOK
  <2>4. Alike(f, g)
    BY <2>1, <2>3, Zenon DEF Abreast
  <2>5. Shaped(f) /\ Shaped(g)
    BY <2>1, <2>3, AbreastShaped
  <2> QED
    BY <2>2, <2>4, <2>5, AlikeSeen
<1> QED
  BY <1>1, <1>2

-----------------------------------------------------------------------------
(* Of a stream without an Upgrade, the messages that Parser::callback hands *)
(* on, and what there is of the next, are the same however the reads of a   *)
(* connection cut it; only of a URL that is too long may more or less have  *)
(* been kept.                                                               *)
THEOREM FramingSafe == StreamSpec => []CutsDoNotMatter
<1>1. StreamInit => IInv /\ InStream /\ (UpgradeSeen \/ Sim)
  BY InitSound, StreamIsParsed, SimInit
<1>2. IInv /\ InStream /\ (UpgradeSeen \/ Sim) /\ [StreamNext]_vars
      => IInv' /\ InStream' /\ (UpgradeSeen \/ Sim)'
  BY StreamIsParsed, StepSound, SimNext
<1>3. IInv /\ (UpgradeSeen \/ Sim) => CutsDoNotMatter
  BY SimEnough DEF CutsDoNotMatter
<1> QED
  BY <1>1, <1>2, <1>3, PTL DEF StreamSpec
=============================================================================
