-------------------------- MODULE HttpParserProofs --------------------------
(***************************************************************************)
(* The assertions of http_parser_execute hold for every stream of bytes,   *)
(* cut into buffers anywhere, and every Width and MaxHeader.  The          *)
(* inductive invariant says of each state of the machine what its length,  *)
(* flags and header_state are, which mark may be set in it, and that the   *)
(* parser only runs without an error.                                      *)
(***************************************************************************)
EXTENDS HttpParser, TLAPS

(* The states of which nothing is said but which marks they have.           *)
Plain == States \ (ChunkStates \cup {"body_identity", "header_value", "header_field"})

(* What a parser without an error is in each of the others.                 *)
Sound(p) ==
  p.http_errno = "OK" =>
    /\ p.state = "chunk_size_start" => p.nread = 0
    /\ p.state \in ChunkStates => "CHUNKED" \in p.flags
    /\ p.state \in {"chunk_size", "chunk_parameters", "chunk_size_almost_done"} =>
         p.content_length # Width - 1
    /\ p.state \in {"body_identity", "chunk_data"} => p.content_length \notin {0, Width - 1}
    /\ p.state = "chunk_data_almost_done" => p.content_length = 0
    /\ p.state = "header_value" =>
         p.header_state[1] \in {"general", "content_length"} \cup KnownValues
    /\ p.state = "header_field" => p.header_state[1] \in {"general"} \cup KnownNames

(* The marks that may be set: where the line behind a chunk's data has      *)
(* begun, the data has been told.                                           *)
MarksIn(state) == IF state = "chunk_data_done" THEN {} ELSE MarksOf(state)

Marked == DOMAIN marks \subseteq MarksIn(parser.state)

IInv ==
  /\ TypeOK
  /\ Marked
  /\ Sound(parser)
  /\ running => parser.http_errno = "OK"

-----------------------------------------------------------------------------
LEMMA ShortSequences ==
  ASSUME NEW S
  PROVE  /\ <<>> \in Seq(S)
         /\ \A x \in S : <<x>> \in Seq(S)
         /\ \A x, y \in S : <<x, y>> \in Seq(S)
         /\ \A s \in Seq(S), x \in S : Append(s, x) \in Seq(S)
  OBVIOUS

Call == (Kinds \cup {"headers_complete", "message_complete"}) \X Seq(Byte)

LEMMA TypesKept ==
  ASSUME parser' \in Parsers, DOMAIN marks' \subseteq Kinds,
         \A k \in DOMAIN marks' : marks'[k] \in Seq(Byte),
         running' \in BOOLEAN, calls' \in Seq(Call)
  PROVE  TypeOK'
  BY DEF TypeOK, Call

LEMMA DigitsAreNumbers == \A b \in Digit \cup {"a"} : NumeralValue[b] \in 0..10
<1> SUFFICES ASSUME NEW b \in Digit \cup {"a"} PROVE NumeralValue[b] \in 0..10
  OBVIOUS
<1>1. \E i \in 1..11 : Numeral[i] = b
  BY DEF Digit, Numeral
<1>2. (CHOOSE i \in 1..11 : Numeral[i] = b) \in 1..11
  BY <1>1
<1>3. NumeralValue[b] = (CHOOSE i \in 1..11 : Numeral[i] = b) - 1
  BY DEF NumeralValue
<1> QED
  BY <1>2, <1>3

LEMMA HexAreNumbers == \A b \in DOMAIN Hex : Hex[b] \in 0..10
  BY DigitsAreNumbers DEF Hex

(* The fields of a parser, with a name for the set each is of.              *)
Types == {"REQUEST", "RESPONSE"}
Flags == {"CHUNKED", "KEEP_ALIVE", "CLOSE", "TRAILING", "UPGRADE"}
Looking == HeaderStates \X BOOLEAN
Lengths == 0..Width - 1
Short == 0..999
Verbs == Method \cup {"none", "H", "P", "T"}

LEMMA ParsersAre ==
  Parsers =
    [type : Types, state : States, header_state : Looking, flags : SUBSET Flags,
     content_length : Lengths, nread : Nat, major : Short, minor : Short,
     status_code : Short, method : Verbs, http_errno : {"OK", "ERROR"}]
  BY DEF Parsers, Types, Looking, Flags, Lengths, Short, Verbs

(* The updates of a parser's fields, for the lemmas about them.             *)
WithFlags(p, s, f) == [p EXCEPT !.state = s, !.flags = f]
WithLooking(p, s, h) == [p EXCEPT !.state = s, !.header_state = h]
WithLength(p, s, n) == [p EXCEPT !.state = s, !.content_length = n]
WithNumber(p, field, n) == [p EXCEPT ![field] = n]

LEMMA FlagsSet ==
  ASSUME NEW p \in Parsers, NEW s \in States, NEW f \in SUBSET Flags
  PROVE  LET r == WithFlags(p, s, f)
         IN  /\ r \in Parsers /\ r.http_errno = p.http_errno /\ r.nread = p.nread
             /\ r.state = s /\ r.flags = f
<1> DEFINE u == [p EXCEPT !.state = s]
           r == [u EXCEPT !.flags = f]
<1>1. WithFlags(p, s, f) = r
  BY ParsersAre DEF WithFlags
<1>2. u \in Parsers /\ u.http_errno = p.http_errno /\ u.state = s /\ u.nread = p.nread
  BY ParsersAre
<1> HIDE DEF u
<1>3. r \in Parsers /\ r.http_errno = p.http_errno /\ r.state = s /\ r.flags = f /\ r.nread = p.nread
  BY <1>2, ParsersAre
<1> HIDE DEF r
<1> QED
  BY <1>1, <1>3

LEMMA LookingSet ==
  ASSUME NEW p \in Parsers, NEW s \in States, NEW h \in Looking
  PROVE  LET r == WithLooking(p, s, h)
         IN  /\ r \in Parsers /\ r.http_errno = p.http_errno
             /\ r.state = s /\ r.header_state = h
<1> DEFINE u == [p EXCEPT !.state = s]
           r == [u EXCEPT !.header_state = h]
<1>1. WithLooking(p, s, h) = r
  BY ParsersAre DEF WithLooking
<1>2. u \in Parsers /\ u.http_errno = p.http_errno /\ u.state = s
  BY ParsersAre
<1> HIDE DEF u
<1>3. r \in Parsers /\ r.http_errno = p.http_errno /\ r.state = s /\ r.header_state = h
  BY <1>2, ParsersAre
<1> HIDE DEF r
<1> QED
  BY <1>1, <1>3

LEMMA LengthSet ==
  ASSUME NEW p \in Parsers, NEW s \in States, NEW n \in Lengths
  PROVE  LET r == WithLength(p, s, n)
         IN  /\ r \in Parsers /\ r.http_errno = p.http_errno
             /\ r.flags = p.flags /\ r.nread = p.nread /\ r.header_state = p.header_state
             /\ r.state = s /\ r.content_length = n
<1> DEFINE u == [p EXCEPT !.state = s]
           r == [u EXCEPT !.content_length = n]
<1>1. WithLength(p, s, n) = r
  BY ParsersAre DEF WithLength
<1>2. u \in Parsers /\ u.http_errno = p.http_errno /\ u.state = s
      /\ u.flags = p.flags /\ u.nread = p.nread /\ u.header_state = p.header_state
  BY ParsersAre
<1> HIDE DEF u
<1>3. /\ r \in Parsers /\ r.http_errno = p.http_errno /\ r.state = s
      /\ r.content_length = n /\ r.flags = p.flags /\ r.nread = p.nread
      /\ r.header_state = p.header_state
  BY <1>2, ParsersAre
<1> HIDE DEF r
<1> QED
  BY <1>1, <1>3

(* Version numbers and status codes.                                        *)
Number == {"major", "minor", "status_code"}

LEMMA NumberSet ==
  ASSUME NEW p \in Parsers, NEW field \in Number, NEW n \in Short
  PROVE  LET r == WithNumber(p, field, n)
         IN  r \in Parsers /\ r.http_errno = p.http_errno /\ r.state = p.state
<1>1. CASE field = "major"
  BY <1>1, ParsersAre DEF WithNumber
<1>2. CASE field = "minor"
  BY <1>2, ParsersAre DEF WithNumber
<1>3. CASE field = "status_code"
  BY <1>3, ParsersAre DEF WithNumber
<1> QED
  BY <1>1, <1>2, <1>3 DEF Number

LEMMA PlainIsSound ==
  ASSUME NEW p, p.state \in Plain
  PROVE  Sound(p)
  BY DEF Sound, Plain, ChunkStates

LEMMA NowFacts ==
  ASSUME parser \in Parsers
  PROVE  /\ Now \in Parsers
         /\ Now = [parser EXCEPT !.nread = Now.nread]
  BY ParsersAre DEF Now

LEMMA FailKeeps ==
  ASSUME IInv, Fail
  PROVE  IInv'
<1>0. Now \in Parsers
  BY NowFacts DEF IInv, TypeOK
<1>1. parser' \in Parsers /\ parser'.http_errno = "ERROR"
  <2>1. [Now EXCEPT !.http_errno = "ERROR"] \in Parsers
    BY <1>0, ParsersAre
  <2>2. [Now EXCEPT !.http_errno = "ERROR"].http_errno = "ERROR"
    BY <1>0, ParsersAre
  <2> QED
    BY <2>1, <2>2 DEF Fail
<1>2. TypeOK'
  <2>1. DOMAIN marks' = {} /\ running' = FALSE /\ calls' = <<>>
    BY DEF Fail, NoMarks
  <2>2. calls' \in Seq(Call)
    BY <2>1, ShortSequences
  <2> QED
    BY <1>1, <2>1, <2>2, TypesKept
<1> QED
  BY <1>1, <1>2 DEF IInv, Marked, Sound, Fail, NoMarks

LEMMA StepKeeps ==
  ASSUME IInv, NEW b \in Byte, NEW p \in Parsers, p.http_errno = "OK", Sound(p),
         NEW mark \in SUBSET Kinds, NEW tell \in SUBSET Kinds,
         tell = {} \/ \E k \in Kinds : tell = {k},
         (DOMAIN marks \cup mark) \ tell \subseteq MarksIn(p.state),
         Step(b, p, mark, tell)
  PROVE  IInv'
<1> DEFINE marked == [k \in DOMAIN marks \cup mark |->
                        IF k \in DOMAIN marks THEN marks[k] ELSE <<>>]
<1>1. \A k \in DOMAIN marked : marked[k] \in Seq(Byte) /\ k \in Kinds
  BY DEF IInv, TypeOK
<1>2. parser' = p /\ running' = running
  BY DEF Step
<1>3. /\ DOMAIN marks' = (DOMAIN marks \cup mark) \ tell
      /\ \A k \in DOMAIN marks' : marks'[k] = Append(marked[k], b)
  BY DEF Step
<1>4. \A k \in DOMAIN marks' : marks'[k] \in Seq(Byte)
  <2> SUFFICES ASSUME NEW k \in DOMAIN marks' PROVE marks'[k] \in Seq(Byte)
    OBVIOUS
  <2>1. k \in DOMAIN marked /\ marks'[k] = Append(marked[k], b)
    BY <1>3
  <2> HIDE DEF marked
  <2> QED
    BY <1>1, <2>1, ShortSequences
<1>5. calls' \in Seq(Call)
  <2>1. CASE tell \cap DOMAIN marked = {}
    <3>1. calls' = <<>>
      BY <2>1 DEF Step
    <3> QED
      BY <3>1, ShortSequences
  <2>2. CASE tell \cap DOMAIN marked # {}
    <3>1. PICK k \in Kinds : tell = {k} /\ k \in DOMAIN marked
      BY <2>2
    <3>2. (CHOOSE x \in tell : TRUE) = k
      BY <3>1
    <3>3. calls' = <<<<k, marked[k]>>>>
      BY <2>2, <3>2 DEF Step
    <3> HIDE DEF marked
    <3>4. <<k, marked[k]>> \in Call
      BY <1>1, <3>1 DEF Call
    <3> QED
      BY <3>3, <3>4, ShortSequences
  <2> QED
    BY <2>1, <2>2
<1>6. TypeOK'
  <2>1. DOMAIN marks' \subseteq Kinds /\ running \in BOOLEAN
    BY <1>3 DEF IInv, TypeOK
  <2> QED
    BY <1>2, <1>4, <1>5, <2>1, TypesKept
<1>7. Marked'
  BY <1>2, <1>3 DEF Marked
<1> QED
  BY <1>2, <1>6, <1>7 DEF IInv

(* Steps into states of which nothing more is said.                         *)
LEMMA PlainStepKeeps ==
  ASSUME IInv, NEW b \in Byte, NEW p \in Parsers, p.http_errno = "OK", p.state \in Plain,
         NEW mark \in SUBSET Kinds, NEW tell \in SUBSET Kinds,
         tell = {} \/ \E k \in Kinds : tell = {k},
         (DOMAIN marks \cup mark) \ tell \subseteq MarksIn(p.state),
         Step(b, p, mark, tell)
  PROVE  IInv'
  BY PlainIsSound, StepKeeps

LEMMA NowIs ==
  ASSUME IInv, running
  PROVE  /\ Now \in Parsers
         /\ Now.http_errno = "OK"
         /\ Now.state = parser.state
         /\ Now.header_state = parser.header_state
         /\ Now.flags = parser.flags
         /\ Now.content_length = parser.content_length
         /\ parser.state \in BodyStates => Now.nread = parser.nread
<1>1. parser \in Parsers /\ parser.http_errno = "OK"
  BY DEF IInv, TypeOK
<1> QED
  BY <1>1, NowFacts, ParsersAre DEF Now

LEMMA ToKeeps ==
  ASSUME IInv, running, NEW b \in Byte, NEW s \in Plain,
         DOMAIN marks \subseteq MarksIn(s), To(b, s)
  PROVE  IInv'
<1> DEFINE p == [Now EXCEPT !.state = s]
<1>1. p \in Parsers /\ p.http_errno = "OK" /\ p.state = s
  BY NowIs, ParsersAre DEF Plain
<1>2. Step(b, p, {}, {})
  BY DEF To
<1> HIDE DEF p
<1> QED
  BY <1>1, <1>2, PlainStepKeeps

LEMMA TellKeeps ==
  ASSUME IInv, running, NEW b \in Byte, NEW s \in Plain, NEW k \in Kinds,
         DOMAIN marks \subseteq {k}, Tell(b, s, k)
  PROVE  IInv'
<1> DEFINE p == [Now EXCEPT !.state = s]
<1>1. p \in Parsers /\ p.http_errno = "OK" /\ p.state = s
  BY NowIs, ParsersAre DEF Plain
<1>2. Step(b, p, {}, {k})
  BY DEF Tell
<1> HIDE DEF p
<1> QED
  BY <1>1, <1>2, PlainStepKeeps

(* The marks of each state.                                                 *)
Bare == States \ (UrlStates \cup (BodyStates \ {"chunk_data_done"}) \cup {"header_field", "header_value"})

LEMMA MarksAre ==
  /\ \A s \in Bare : MarksIn(s) = {}
  /\ \A s \in UrlStates : MarksIn(s) = {"url"}
  /\ \A s \in BodyStates \ {"chunk_data_done"} : MarksIn(s) = {"body"}
  /\ MarksIn("header_field") = {"header_field"}
  /\ MarksIn("header_value") = {"header_value"}
  BY DEF MarksIn, MarksOf, Bare, UrlStates, EndableUrl, BodyStates

LEMMA MarksNow ==
  ASSUME IInv
  PROVE  /\ parser.state \in Bare => DOMAIN marks = {}
         /\ parser.state \in UrlStates => DOMAIN marks \subseteq {"url"}
         /\ parser.state \in BodyStates \ {"chunk_data_done"} => DOMAIN marks \subseteq {"body"}
         /\ parser.state = "header_field" => DOMAIN marks \subseteq {"header_field"}
         /\ parser.state = "header_value" => DOMAIN marks \subseteq {"header_value"}
  BY MarksAre DEF IInv, Marked

USE DEF Kinds

-----------------------------------------------------------------------------
LEMMA StartMessageKeeps ==
  ASSUME IInv, running, NEW b \in Byte, StartMessage(b)
  PROVE  IInv'
<1> DEFINE p == [Now EXCEPT !.flags = {}, !.content_length = Width - 1]
           q == [p EXCEPT !.state = "method", !.method = b]
           r == [p EXCEPT !.state = "H"]
<1>1. {"start", "method", "H"} \subseteq Plain \cap Bare
  BY DEF Plain, Bare, States, LineStates, ChunkStates, UrlStates, EndableUrl, BodyStates
<1>2. parser.state = "start" /\ DOMAIN marks = {}
  BY <1>1, MarksNow DEF StartMessage
<1>3. p \in Parsers /\ p.http_errno = "OK" /\ p.state = "start"
  <2>1. Now \in Parsers /\ Now.http_errno = "OK" /\ Now.state = "start"
    BY <1>2, NowIs
  <2> DEFINE u == [Now EXCEPT !.flags = {}]
  <2>2. p = [u EXCEPT !.content_length = Width - 1]
    BY <2>1, ParsersAre
  <2>3. u \in Parsers /\ u.http_errno = "OK" /\ u.state = "start"
    BY <2>1, ParsersAre
  <2>4. Width - 1 \in Lengths
    BY WidthAssumption DEF Lengths
  <2> HIDE DEF p, u
  <2> QED
    BY <2>2, <2>3, <2>4, ParsersAre DEF Lengths
<1> HIDE DEF p
<1>4. ASSUME b \in Method \cup {"H", "P", "T"}
      PROVE  q \in Parsers /\ q.http_errno = "OK" /\ q.state = "method"
  <2> DEFINE u == [p EXCEPT !.state = "method"]
  <2>1. q = [u EXCEPT !.method = b]
    BY <1>3, ParsersAre
  <2>2. "method" \in States
    BY <1>1 DEF Plain
  <2>3. u \in Parsers /\ u.http_errno = "OK" /\ u.state = "method"
    BY <1>3, <2>2, ParsersAre
  <2> HIDE DEF q, u
  <2>4. q \in Parsers
    BY <1>4, <2>1, <2>3, ParsersAre DEF Verbs
  <2> QED
    BY <2>1, <2>3, <2>4, ParsersAre
<1>5. r \in Parsers /\ r.http_errno = "OK" /\ r.state = "H"
  BY <1>1, <1>3, ParsersAre DEF Plain
<1>6. \/ To(b, "start")
      \/ b \in Method \cup {"H", "P", "T"} /\ Step(b, q, {}, {})
      \/ Step(b, p, {}, {})
      \/ Step(b, r, {}, {})
      \/ Fail
  BY DEF StartMessage, p
<1> HIDE DEF q, r
<1> QED
  BY <1>1, <1>2, <1>3, <1>4, <1>5, <1>6, ToKeeps, PlainStepKeeps, FailKeeps

LEMMA MatchMethodKeeps ==
  ASSUME IInv, running, NEW b \in Byte, MatchMethod(b)
  PROVE  IInv'
<1>1. {"method", "spaces_before_url"} \subseteq Plain \cap Bare
  BY DEF Plain, Bare, States, LineStates, ChunkStates, UrlStates, EndableUrl, BodyStates
<1>2. DOMAIN marks = {} /\ (To(b, "spaces_before_url") \/ Fail)
  BY <1>1, MarksNow DEF MatchMethod
<1> QED
  BY <1>1, <1>2, ToKeeps, FailKeeps

LEMMA UrlMovesEnd ==
  ASSUME NEW m \in UrlMoves
  PROVE  m[3] \in UrlStates
  BY DEF UrlMoves, UrlStates, EndableUrl, Server

LEMMA UrlIsPlain == UrlStates \subseteq Plain
  BY DEF Plain, UrlStates, EndableUrl, States, ChunkStates

LEMMA BeginUrlKeeps ==
  ASSUME IInv, running, NEW b \in Byte, BeginUrl(b)
  PROVE  IInv'
<1>1. "spaces_before_url" \in Plain \cap Bare
  BY DEF Plain, Bare, States, LineStates, ChunkStates, UrlStates, EndableUrl, BodyStates
<1>2. DOMAIN marks = {}
  BY <1>1, MarksNow DEF BeginUrl
<1>3. CASE \E m \in UrlMoves : Step(b, [Now EXCEPT !.state = m[3]], {"url"}, {})
  <2>1. PICK m \in UrlMoves : Step(b, [Now EXCEPT !.state = m[3]], {"url"}, {})
    BY <1>3
  <2>2. m[3] \in UrlStates /\ m[3] \in Plain
    BY UrlMovesEnd, UrlIsPlain
  <2> DEFINE p == [Now EXCEPT !.state = m[3]]
  <2>3. p \in Parsers /\ p.http_errno = "OK" /\ p.state = m[3]
    BY <2>2, NowIs, ParsersAre DEF Plain
  <2> HIDE DEF p
  <2>4. Step(b, p, {"url"}, {})
    BY <2>1 DEF p
  <2>5. MarksIn(p.state) = {"url"}
    BY <2>2, <2>3, MarksAre
  <2> QED
    BY <1>2, <2>2, <2>3, <2>4, <2>5, PlainStepKeeps
<1>4. To(b, "spaces_before_url") \/ Fail \/ \E m \in UrlMoves : Step(b, [Now EXCEPT !.state = m[3]], {"url"}, {})
  BY DEF BeginUrl
<1> QED
  BY <1>1, <1>2, <1>3, <1>4, ToKeeps, FailKeeps

LEMMA MoveUrlKeeps ==
  ASSUME IInv, running, NEW b \in Byte, MoveUrl(b)
  PROVE  IInv'
<1>1. {"http_start", "line_almost_done", "header_field_start"} \subseteq Plain \cap Bare
  BY DEF Plain, Bare, States, LineStates, ChunkStates, UrlStates, EndableUrl, BodyStates
<1>2. parser.state \in UrlStates /\ DOMAIN marks \subseteq {"url"}
  BY MarksNow DEF MoveUrl
<1>3. CASE Move(b, UrlMoves)
  <2>1. CASE Fail
    BY <2>1, FailKeeps
  <2>2. CASE \E m \in UrlMoves : To(b, m[3])
    <3>1. PICK m \in UrlMoves : To(b, m[3])
      BY <2>2
    <3>2. m[3] \in Plain /\ MarksIn(m[3]) = {"url"}
      BY UrlMovesEnd, UrlIsPlain, MarksAre
    <3> QED
      BY <1>2, <3>1, <3>2, ToKeeps
  <2> QED
    BY <1>3, <2>1, <2>2 DEF Move
<1>4. CASE Tell(b, "http_start", "url")
  BY <1>1, <1>2, <1>4, TellKeeps
<1>5. ASSUME NEW s \in {"line_almost_done", "header_field_start"},
             Step(b, [Now EXCEPT !.major = 0, !.minor = 9, !.state = s], {}, {"url"})
      PROVE  IInv'
  <2> DEFINE u == [Now EXCEPT !.major = 0]
             v == [u EXCEPT !.minor = 9]
             p == [v EXCEPT !.state = s]
  <2>1. [Now EXCEPT !.major = 0, !.minor = 9, !.state = s] = p
    BY NowIs, ParsersAre
  <2>2. 0 \in Short /\ 9 \in Short
    BY DEF Short
  <2>3. u \in Parsers /\ u.http_errno = "OK"
    BY <2>2, NowIs, ParsersAre
  <2> HIDE DEF u
  <2>4. v \in Parsers /\ v.http_errno = "OK"
    BY <2>2, <2>3, ParsersAre
  <2> HIDE DEF v
  <2>5. p \in Parsers /\ p.http_errno = "OK" /\ p.state = s /\ s \in Plain
    BY <1>1, <2>4, ParsersAre DEF Plain
  <2> HIDE DEF p
  <2> QED
    BY <1>2, <1>5, <2>1, <2>5, PlainStepKeeps
<1>6. \/ Move(b, UrlMoves)
      \/ Tell(b, "http_start", "url")
      \/ \E s \in {"line_almost_done", "header_field_start"} :
           Step(b, [Now EXCEPT !.major = 0, !.minor = 9, !.state = s], {}, {"url"})
  BY DEF MoveUrl
<1> QED
  BY <1>3, <1>4, <1>5, <1>6

LEMMA LineMovesEnd ==
  ASSUME NEW m \in LineMoves
  PROVE  \/ m[3] \in Plain \cap Bare
         \/ /\ m[1] = "chunk_parameters"
            /\ m[3] \in {"chunk_parameters", "chunk_size_almost_done"}
<1>1. {"dead", "http_start", "H", "HT", "HTT", "HTTP", "first_http_major", "status",
       "line_almost_done", "header_field_start"} \subseteq Plain \cap Bare
  BY DEF Plain, Bare, States, LineStates, ChunkStates, UrlStates, EndableUrl, BodyStates
<1> QED
  BY <1>1 DEF LineMoves

LEMMA MoveLineKeeps ==
  ASSUME IInv, running, NEW b \in Byte, MoveLine(b)
  PROVE  IInv'
<1>1. LineStates \cup {"chunk_size_almost_done"} \subseteq Bare
  BY DEF Bare, States, LineStates, ChunkStates, UrlStates, EndableUrl, BodyStates
<1>2. DOMAIN marks = {}
  BY <1>1, MarksNow DEF MoveLine
<1>3. CASE \E m \in LineMoves : m[1] = parser.state /\ To(b, m[3])
  <2>1. PICK m \in LineMoves : m[1] = parser.state /\ To(b, m[3])
    BY <1>3
  <2>2. CASE m[3] \in Plain
    BY <1>2, <2>1, <2>2, ToKeeps
  <2>3. CASE /\ m[1] = "chunk_parameters"
             /\ m[3] \in {"chunk_parameters", "chunk_size_almost_done"}
    <3> DEFINE p == [Now EXCEPT !.state = m[3]]
    <3>1. p \in Parsers /\ p.http_errno = "OK" /\ p.state = m[3]
          /\ p.flags = parser.flags /\ p.content_length = parser.content_length
      BY <2>3, NowIs, ParsersAre DEF States, ChunkStates
    <3>2. "CHUNKED" \in parser.flags /\ parser.content_length # Width - 1
      BY <2>1, <2>3 DEF IInv, Sound, ChunkStates
    <3>3. Step(b, p, {}, {})
      BY <2>1 DEF To
    <3> HIDE DEF p
    <3>4. Sound(p)
      BY <2>3, <3>1, <3>2 DEF Sound
    <3> QED
      BY <1>2, <3>1, <3>3, <3>4, StepKeeps
  <2> QED
    BY <2>2, <2>3, LineMovesEnd
<1> QED
  BY <1>3, FailKeeps DEF MoveLine, Move

(* The version and the status code.                                         *)
LEMMA FieldFits ==
  ASSUME NEW p \in Parsers, NEW field \in Number
  PROVE  p[field] \in 0..999
<1>1. p.major \in 0..999 /\ p.minor \in 0..999 /\ p.status_code \in 0..999
  BY ParsersAre DEF Short
<1> QED BY <1>1 DEF Number

VersionState == {"first_http_major", "http_major", "first_http_minor", "http_minor",
                 "first_status_code", "status_code"}

LEMMA VersionKeeps ==
  ASSUME IInv, running, NEW b \in Byte, Version(b)
  PROVE  IInv'
<1> DEFINE After == VersionState \cup {"line_almost_done", "header_field_start", "status"}
<1>1. After \subseteq Plain \cap Bare
  BY DEF VersionState, Plain, Bare, States, LineStates, ChunkStates, UrlStates, EndableUrl,
         BodyStates
<1>2. parser.state \in VersionState
  BY DEF Version, VersionState
<1>3. DOMAIN marks = {}
  BY <1>1, <1>2, MarksNow
<1>4. ASSUME NEW s \in After, To(b, s)
      PROVE  IInv'
  BY <1>1, <1>3, <1>4, ToKeeps
<1>5. ASSUME NEW field \in Number, NEW s \in After, b \in Digit,
             Step(b, [Now EXCEPT ![field] = NumeralValue[b], !.state = s], {}, {})
      PROVE  IInv'
  <2>1. PICK d \in 0..10 : d = NumeralValue[b]
    BY <1>5, DigitsAreNumbers
  <2>2. d \in Short
    BY DEF Short
  <2>3. PICK now \in Parsers : now = Now /\ now.http_errno = "OK"
    BY NowIs
  <2>4. PICK u : u = WithNumber(now, field, d)
    OBVIOUS
  <2>5. u \in Parsers /\ u.http_errno = "OK"
    BY <2>2, <2>3, <2>4, NumberSet
  <2> DEFINE p == [u EXCEPT !.state = s]
  <2>6. Step(b, p, {}, {})
    BY <1>5, <2>1, <2>3, <2>4 DEF WithNumber
  <2>7. p \in Parsers /\ p.http_errno = "OK" /\ p.state = s /\ s \in Plain
    BY <1>1, <2>5, ParsersAre DEF Plain
  <2> HIDE DEF p
  <2> QED
    BY <1>3, <2>6, <2>7, PlainStepKeeps
<1>6. ASSUME NEW field \in Number, b \in Digit,
             ~(parser[field] * 10 + NumeralValue[b] > 999),
             Step(b, [Now EXCEPT ![field] = parser[field] * 10 + NumeralValue[b]], {}, {})
      PROVE  IInv'
  <2>1. PICK d \in 0..10 : d = NumeralValue[b]
    BY <1>6, DigitsAreNumbers
  <2>2. PICK v \in 0..999 : v = parser[field]
    <3>1. parser \in Parsers
      BY DEF IInv, TypeOK
    <3> QED BY <3>1, FieldFits
  <2>3. PICK n : n = v * 10 + d
    OBVIOUS
  <2>4. n \in Short
    <3>1. ~(n > 999)
      BY <1>6, <2>1, <2>2, <2>3
    <3> QED
      BY <2>3, <3>1 DEF Short
  <2>5. PICK now \in Parsers : now = Now /\ now.http_errno = "OK" /\ now.state = parser.state
    BY NowIs
  <2>6. PICK p : p = WithNumber(now, field, n)
    OBVIOUS
  <2>7. p \in Parsers /\ p.http_errno = "OK" /\ p.state = parser.state
    BY <2>4, <2>5, <2>6, NumberSet
  <2>8. Step(b, p, {}, {})
    BY <1>6, <2>1, <2>2, <2>3, <2>5, <2>6 DEF WithNumber
  <2> QED
    BY <1>1, <1>2, <1>3, <2>7, <2>8, PlainStepKeeps
<1>7. \/ Fail
      \/ \E s \in After : To(b, s)
      \/ \E field \in Number, s \in After :
           b \in Digit /\ Step(b, [Now EXCEPT ![field] = NumeralValue[b], !.state = s], {}, {})
      \/ \E field \in Number :
           /\ b \in Digit
           /\ ~(parser[field] * 10 + NumeralValue[b] > 999)
           /\ Step(b, [Now EXCEPT ![field] = parser[field] * 10 + NumeralValue[b]], {}, {})
  <2>1. CASE parser.state = "first_http_major"
    BY <2>1, ZenonT(40) DEF Version, Number, VersionState
  <2>2. CASE parser.state = "http_major"
    BY <2>2, ZenonT(40) DEF Version, Number, VersionState
  <2>3. CASE parser.state = "first_http_minor"
    BY <2>3, ZenonT(40) DEF Version, Number, VersionState
  <2>4. CASE parser.state = "http_minor"
    BY <2>4, ZenonT(40) DEF Version, Number, VersionState
  <2>5. CASE parser.state = "first_status_code"
    BY <2>5, ZenonT(40) DEF Version, Number, VersionState
  <2>6. CASE parser.state = "status_code"
    BY <2>6, ZenonT(40) DEF Version, Number, VersionState
  <2> QED
    BY <1>2, <2>1, <2>2, <2>3, <2>4, <2>5, <2>6 DEF VersionState
<1> HIDE DEF After
<1> QED
  BY <1>4, <1>5, <1>6, <1>7, FailKeeps

-----------------------------------------------------------------------------
LEMMA EndLineIs ==
  ASSUME IInv, running
  PROVE  /\ EndLine \in Parsers
         /\ EndLine.http_errno = "OK"
         /\ EndLine.state = "header_value_lws"
         /\ "header_value_lws" \in Plain \cap Bare
<1>1. "header_value_lws" \in Plain \cap Bare
  BY DEF Plain, Bare, States, LineStates, ChunkStates, UrlStates, EndableUrl, BodyStates
<1>2. Now.flags \cup FlagsOf(Now.header_state) \in SUBSET Flags
  <2>1. Now.flags \in SUBSET Flags
    BY NowIs, ParsersAre DEF Flags
  <2>2. FlagsOf(Now.header_state) \in SUBSET Flags
    BY DEF FlagsOf, Flags
  <2> QED BY <2>1, <2>2
<1>3. EndLine = [Now EXCEPT !.state = "header_value_lws",
                            !.flags = Now.flags \cup FlagsOf(Now.header_state)]
  BY NowIs, ParsersAre DEF EndLine
<1>4. "header_value_lws" \in States
  BY <1>1 DEF Plain
<1>5. PICK now \in Parsers, f \in SUBSET Flags :
        now = Now /\ now.http_errno = "OK" /\ f = Now.flags \cup FlagsOf(Now.header_state)
  BY <1>2, NowIs
<1>6. PICK p : p = WithFlags(now, "header_value_lws", f)
  OBVIOUS
<1>7. EndLine = p
  BY <1>3, <1>5, <1>6 DEF WithFlags
<1>8. p \in Parsers /\ p.http_errno = "OK" /\ p.state = "header_value_lws"
  BY <1>4, <1>5, <1>6, FlagsSet
<1> QED
  BY <1>1, <1>7, <1>8

LEMMA HeaderAlmostDoneKeeps ==
  ASSUME IInv, running, NEW b \in Byte, HeaderAlmostDone(b)
  PROVE  IInv'
<1>1. "header_almost_done" \in Bare
  BY DEF Bare, States, UrlStates, EndableUrl, BodyStates
<1>2. DOMAIN marks = {} /\ (Step(b, EndLine, {}, {}) \/ Fail)
  BY <1>1, MarksNow DEF HeaderAlmostDone
<1> QED
  BY <1>2, EndLineIs, PlainStepKeeps, FailKeeps

LEMMA FoldKeeps ==
  ASSUME IInv, running, NEW b \in Byte, Fold(b)
  PROVE  IInv'
<1>1. "header_value_lws" \in Bare /\ "header_value_start" \in Plain
  BY DEF Plain, Bare, States, LineStates, ChunkStates, UrlStates, EndableUrl, BodyStates
<1> QED
  BY <1>1, MarksNow, ToKeeps DEF Fold

LEMMA FieldStartKeeps ==
  ASSUME IInv, running, NEW b \in Byte, FieldStart(b)
  PROVE  IInv'
<1>1. {"header_field_start", "header_value_lws", "headers_almost_done"} \subseteq Plain \cap Bare
  BY DEF Plain, Bare, States, LineStates, ChunkStates, UrlStates, EndableUrl, BodyStates
<1>2. DOMAIN marks = {}
  BY <1>1, MarksNow DEF FieldStart, AtFieldStart
<1>3. ASSUME NEW h \in {"general"} \cup KnownNames,
             Step(b, [Now EXCEPT !.state = "header_field", !.header_state = <<h, h = "general">>],
                  {"header_field"}, {})
      PROVE  IInv'
  <2> DEFINE p == [Now EXCEPT !.state = "header_field", !.header_state = <<h, h = "general">>]
  <2>1. "header_field" \in States /\ <<h, h = "general">> \in Looking
    BY DEF States, HeaderStates, Looking
  <2>2. /\ p \in Parsers /\ p.http_errno = "OK" /\ p.state = "header_field"
        /\ p.header_state = <<h, h = "general">>
    <3>1. PICK now \in Parsers, f \in Looking :
            now = Now /\ now.http_errno = "OK" /\ f = <<h, h = "general">>
      BY <2>1, NowIs
    <3>2. PICK q : q = WithLooking(now, "header_field", f)
      OBVIOUS
    <3>3. p = q
      BY <3>1, <3>2 DEF WithLooking
    <3>4. q \in Parsers /\ q.http_errno = "OK" /\ q.state = "header_field" /\ q.header_state = f
      BY <2>1, <3>1, <3>2, LookingSet
    <3> HIDE DEF p
    <3> QED BY <3>1, <3>3, <3>4
  <2>3. Step(b, p, {"header_field"}, {})
    BY <1>3
  <2> HIDE DEF p
  <2>4. Sound(p)
    BY <2>2 DEF Sound, ChunkStates
  <2> QED
    BY <1>2, <2>2, <2>3, <2>4, MarksAre, StepKeeps
<1>4. \/ To(b, "headers_almost_done")
      \/ Fail
      \/ \E h \in {"general"} \cup KnownNames :
           Step(b, [Now EXCEPT !.state = "header_field", !.header_state = <<h, h = "general">>],
                {"header_field"}, {})
  BY DEF FieldStart
<1> QED
  BY <1>1, <1>2, <1>3, <1>4, ToKeeps, FailKeeps

LEMMA Product ==
  ASSUME NEW S, NEW T, NEW x \in S \X T
  PROVE  \E a \in S, c \in T : x = <<a, c>>
OBVIOUS

LEMMA Pairs ==
  ASSUME NEW S, NEW T, NEW a \in S, NEW c \in T
  PROVE  <<a, c>> \in S \X T /\ <<a, c>>[1] = a /\ <<a, c>>[2] = c
OBVIOUS

(* What is looked for is no other thing after another byte.                 *)
LEMMA MatchedIs ==
  ASSUME NEW b, parser.header_state \in Looking
  PROVE  /\ Matched(b) \in Looking
         /\ Matched(b)[1] \in {"general", parser.header_state[1]}
<1>1. PICK name \in HeaderStates, whole \in BOOLEAN : parser.header_state = <<name, whole>>
  BY Product DEF Looking
<1>2. Matched(b) = <<"general", TRUE>> \/ Matched(b) = <<name, TRUE>>
  <2>1. Matched(b) = <<"general", TRUE>> \/ Matched(b) = <<parser.header_state[1], TRUE>>
    BY DEF Matched, General
  <2>2. parser.header_state[1] = name
    BY <1>1, Pairs
  <2> QED BY <2>1, <2>2, Zenon
<1>3. "general" \in HeaderStates
  BY DEF HeaderStates
<1>4. PICK yes \in BOOLEAN : yes = TRUE
  OBVIOUS
<1>5. Matched(b) = <<"general", yes>> \/ Matched(b) = <<name, yes>>
  BY <1>2, <1>4, Zenon
<1>6. parser.header_state[1] = name
  BY <1>1, Pairs
<1> QED BY <1>3, <1>5, <1>6, Pairs DEF Looking

LEMMA FieldKeeps ==
  ASSUME IInv, running, NEW b \in Byte, Field(b)
  PROVE  IInv'
<1>1. {"header_value_start", "header_almost_done", "header_field_start"} \subseteq Plain
  BY DEF Plain, States, LineStates, ChunkStates, UrlStates, EndableUrl, BodyStates
<1>2. parser.state = "header_field" /\ DOMAIN marks \subseteq {"header_field"}
  BY MarksNow DEF Field
<1>3. CASE Step(b, [Now EXCEPT !.header_state = Matched(b)], {}, {})
  <2> DEFINE h == parser.header_state
             p == [Now EXCEPT !.header_state = Matched(b)]
  <2>1. h \in Looking /\ h[1] \in {"general"} \cup KnownNames
    BY <1>2 DEF IInv, TypeOK, Parsers, Sound, Looking
  <2>3. Matched(b) \in Looking /\ Matched(b)[1] \in {"general"} \cup KnownNames
    BY <2>1, MatchedIs
  <2>4. /\ p \in Parsers /\ p.http_errno = "OK" /\ p.state = "header_field"
        /\ p.header_state = Matched(b)
    BY <1>2, <2>3, NowIs, ParsersAre
  <2> HIDE DEF p
  <2>5. Sound(p)
    BY <2>3, <2>4 DEF Sound, ChunkStates
  <2> QED
    BY <1>2, <1>3, <2>4, <2>5, MarksAre, StepKeeps DEF p
<1>4. \/ Step(b, [Now EXCEPT !.header_state = Matched(b)], {}, {})
      \/ \E s \in {"header_value_start", "header_almost_done", "header_field_start"} :
           Tell(b, s, "header_field")
      \/ Fail
  BY DEF Field
<1> QED
  BY <1>1, <1>2, <1>3, <1>4, TellKeeps, FailKeeps

(* A value begins.                                                          *)
ValueNames == {"general", "content_length"} \cup KnownValues

LEMMA StateSet ==
  ASSUME NEW p \in Parsers, NEW s \in States
  PROVE  LET r == [p EXCEPT !.state = s]
         IN  /\ r \in Parsers /\ r.http_errno = p.http_errno
             /\ r.state = s /\ r.header_state = p.header_state
  BY ParsersAre

LEMMA ValueBegins ==
  ASSUME IInv, running, DOMAIN marks = {}, NEW b \in Byte,
         NEW u \in Parsers, u.http_errno = "OK", u.header_state[1] \in ValueNames,
         Step(b, [u EXCEPT !.state = "header_value"], {"header_value"}, {})
  PROVE  IInv'
<1>1. PICK p : p = [u EXCEPT !.state = "header_value"]
  OBVIOUS
<1>2. "header_value" \in States
  BY DEF States
<1>3. /\ p \in Parsers /\ p.http_errno = "OK" /\ p.state = "header_value"
      /\ p.header_state = u.header_state
  BY <1>1, <1>2, StateSet
<1>4. Sound(p)
  BY <1>3 DEF Sound, ChunkStates, ValueNames
<1> QED
  BY <1>1, <1>3, <1>4, MarksAre, StepKeeps

LEMMA GeneralIs == General \in Looking /\ General[1] = "general"
  BY DEF General, HeaderStates, Looking

LEMMA ValueStartKeeps ==
  ASSUME IInv, running, NEW b \in Byte, ValueStart(b)
  PROVE  IInv'
<1>1. {"header_value_start", "header_almost_done", "header_field_start"} \subseteq Plain \cap Bare
  BY DEF Plain, Bare, States, LineStates, ChunkStates, UrlStates, EndableUrl, BodyStates
<1>2. DOMAIN marks = {}
  BY <1>1, MarksNow DEF ValueStart
<1> DEFINE value(p) == Step(b, [p EXCEPT !.state = "header_value"], {"header_value"}, {})
<1>3. PICK now \in Parsers : now = Now /\ now.http_errno = "OK" /\ now.header_state = parser.header_state
  BY NowIs
<1>4. PICK whole \in Looking : whole = General /\ whole[1] = "general"
  BY GeneralIs
<1>5. ASSUME Step(b, [Now EXCEPT !.state = "header_almost_done", !.header_state = General],
                  {"header_value"}, {"header_value"})
      PROVE  IInv'
  <2>1. PICK p : p = WithLooking(now, "header_almost_done", whole)
    OBVIOUS
  <2>2. p \in Parsers /\ p.http_errno = "OK" /\ p.state = "header_almost_done"
    BY <1>1, <1>3, <2>1, LookingSet DEF Plain
  <2>3. Step(b, p, {"header_value"}, {"header_value"})
    BY <1>3, <1>4, <1>5, <2>1 DEF WithLooking
  <2> QED
    BY <1>1, <1>2, <2>2, <2>3, PlainStepKeeps
<1>6. ASSUME Step(b, [Now EXCEPT !.state = "header_field_start"], {"header_value"}, {"header_value"})
      PROVE  IInv'
  <2>1. PICK p : p = [now EXCEPT !.state = "header_field_start"]
    OBVIOUS
  <2>2. p \in Parsers /\ p.http_errno = "OK" /\ p.state = "header_field_start"
    BY <1>1, <1>3, <2>1, ParsersAre DEF Plain
  <2> QED
    BY <1>1, <1>2, <1>3, <1>6, <2>1, <2>2, PlainStepKeeps
<1>7. ASSUME parser.header_state = <<"content_length", TRUE>>, b \in Digit,
             value([Now EXCEPT !.content_length = NumeralValue[b]])
      PROVE  IInv'
  <2>1. PICK d \in 0..10 : d = NumeralValue[b]
    BY <1>7, DigitsAreNumbers
  <2>2. PICK n \in Lengths : n = d
    BY WidthAssumption DEF Lengths
  <2>3. PICK u : u = [now EXCEPT !.content_length = n]
    OBVIOUS
  <2>4. u \in Parsers /\ u.http_errno = "OK" /\ u.header_state = now.header_state
    BY <1>3, <2>3, ParsersAre
  <2>5. now.header_state[1] \in ValueNames
    BY <1>3, <1>7 DEF ValueNames
  <2> QED
    BY <1>2, <1>3, <1>7, <2>1, <2>2, <2>3, <2>4, <2>5, ValueBegins
<1>8. ASSUME value([Now EXCEPT !.flags = @ \cup {"UPGRADE"}, !.header_state = General])
      PROVE  IInv'
  <2>1. PICK f \in SUBSET Flags : f = now.flags \cup {"UPGRADE"}
    <3>1. now.flags \in SUBSET Flags
      BY ParsersAre DEF Flags
    <3>2. now.flags \cup {"UPGRADE"} \in SUBSET Flags
      BY <3>1 DEF Flags
    <3> QED BY <3>2
  <2>2. PICK x : x = [now EXCEPT !.flags = f]
    OBVIOUS
  <2>3. x \in Parsers /\ x.http_errno = "OK"
    BY <1>3, <2>2, ParsersAre DEF Flags
  <2>4. PICK u : u = [x EXCEPT !.header_state = whole]
    OBVIOUS
  <2>5. u \in Parsers /\ u.http_errno = "OK" /\ u.header_state = whole
    BY <2>3, <2>4, ParsersAre
  <2>6. u = [now EXCEPT !.flags = @ \cup {"UPGRADE"}, !.header_state = whole]
    BY <2>1, <2>2, <2>4, ParsersAre
  <2>7. value(u)
    BY <1>3, <1>4, <1>8, <2>6
  <2> QED
    BY <1>2, <1>4, <2>5, <2>7, ValueBegins DEF ValueNames
<1>9. ASSUME NEW v \in KnownValues, value([Now EXCEPT !.header_state = <<v, FALSE>>])
      PROVE  IInv'
  <2>1. PICK h \in Looking : h = <<v, FALSE>> /\ h[1] = v
    <3>1. v \in HeaderStates /\ FALSE \in BOOLEAN
      BY DEF HeaderStates
    <3>2. <<v, FALSE>> \in Looking /\ <<v, FALSE>>[1] = v
      BY <3>1, Pairs DEF Looking
    <3> QED BY <3>2
  <2>2. PICK u : u = [now EXCEPT !.header_state = h]
    OBVIOUS
  <2>3. u \in Parsers /\ u.http_errno = "OK" /\ u.header_state = h
    BY <1>3, <2>2, ParsersAre
  <2>4. value(u)
    BY <1>3, <1>9, <2>1, <2>2
  <2> QED
    BY <1>2, <2>1, <2>3, <2>4, ValueBegins DEF ValueNames
<1>10. ASSUME value([Now EXCEPT !.header_state = General])
       PROVE  IInv'
  <2>1. PICK u : u = [now EXCEPT !.header_state = whole]
    OBVIOUS
  <2>2. u \in Parsers /\ u.http_errno = "OK" /\ u.header_state = whole
    BY <1>3, <2>1, ParsersAre
  <2>3. value(u)
    BY <1>3, <1>4, <1>10, <2>1
  <2> QED
    BY <1>2, <1>4, <2>2, <2>3, ValueBegins DEF ValueNames
<1>11. \/ To(b, "header_value_start")
       \/ Step(b, [Now EXCEPT !.state = "header_almost_done", !.header_state = General],
               {"header_value"}, {"header_value"})
       \/ Step(b, [Now EXCEPT !.state = "header_field_start"], {"header_value"}, {"header_value"})
       \/ /\ parser.header_state = <<"content_length", TRUE>> /\ b \in Digit
          /\ value([Now EXCEPT !.content_length = NumeralValue[b]])
       \/ value([Now EXCEPT !.flags = @ \cup {"UPGRADE"}, !.header_state = General])
       \/ \E v \in KnownValues : value([Now EXCEPT !.header_state = <<v, FALSE>>])
       \/ value([Now EXCEPT !.header_state = General])
       \/ Fail
  <2> HIDE DEF value
  <2>1. \/ b \in Blank
        \/ b = "CR"
        \/ b = "LF"
        \/ b \notin Blank \cup Eol
    BY DEF Eol
  <2>2. CASE b \notin Blank \cup Eol
    BY <2>2 DEF ValueStart, Eol, value
  <2> QED
    BY <2>1, <2>2 DEF ValueStart, Blank, Eol
<1> HIDE DEF value
<1> QED
  BY <1>1, <1>2, <1>5, <1>6, <1>7, <1>8, <1>9, <1>10, <1>11, ToKeeps, FailKeeps DEF value

(* The length that another digit makes.                                     *)
LEMMA ShiftedIs ==
  ASSUME NEW c \in Lengths, NEW base \in Nat, NEW d \in 0..10
  PROVE  Shifted(c, base, d) \in Lengths
<1>1. c * base + d \in Nat
  BY DEF Lengths
<1> QED
  BY <1>1, WidthAssumption DEF Shifted, Lengths

LEMMA ValueKeeps ==
  ASSUME IInv, running, NEW b \in Byte, Value(b)
  PROVE  IInv'
<1>1. {"header_almost_done"} \subseteq Plain \cap Bare
  BY DEF Plain, Bare, States, LineStates, ChunkStates, UrlStates, EndableUrl, BodyStates
<1>2. parser.state = "header_value" /\ DOMAIN marks \subseteq {"header_value"}
  BY MarksNow DEF Value
<1>3. PICK now \in Parsers : now = Now /\ now.http_errno = "OK" /\ now.state = "header_value"
                             /\ now.header_state = parser.header_state
  BY <1>2, NowIs
<1>4. now.header_state \in Looking /\ now.header_state[1] \in ValueNames
  BY <1>2, <1>3 DEF IInv, TypeOK, Parsers, Sound, ValueNames, Looking
<1>5. ASSUME NEW p \in Parsers, p.http_errno = "OK", p.state = "header_value",
             p.header_state[1] \in ValueNames, Step(b, p, {}, {})
      PROVE  IInv'
  <2>1. Sound(p)
    BY <1>5 DEF Sound, ChunkStates, ValueNames
  <2> QED
    BY <1>2, <1>5, <2>1, MarksAre, StepKeeps
<1>6. ASSUME b \in Digit,
             Step(b, [Now EXCEPT !.content_length = Shifted(@, 10, NumeralValue[b])], {}, {})
      PROVE  IInv'
  <2>1. PICK d \in 0..10 : d = NumeralValue[b]
    BY <1>6, DigitsAreNumbers
  <2>2. now.content_length \in Lengths
    BY ParsersAre DEF Lengths
  <2>3. PICK n \in Lengths : n = Shifted(now.content_length, 10, d)
    BY <2>2, ShiftedIs
  <2>4. PICK p : p = [now EXCEPT !.content_length = n]
    OBVIOUS
  <2>5. /\ p \in Parsers /\ p.http_errno = "OK" /\ p.state = "header_value"
        /\ p.header_state = now.header_state
    BY <1>3, <2>4, ParsersAre
  <2>6. Step(b, p, {}, {})
    BY <1>3, <1>6, <2>1, <2>3, <2>4
  <2> QED
    BY <1>4, <1>5, <2>5, <2>6
<1>7. ASSUME NEW h \in {parser.header_state, Matched(b)},
             Step(b, [Now EXCEPT !.header_state = h], {}, {})
      PROVE  IInv'
  <2>1. h \in Looking /\ h[1] \in ValueNames
    BY <1>3, <1>4, MatchedIs DEF ValueNames
  <2>2. PICK p : p = [now EXCEPT !.header_state = h]
    OBVIOUS
  <2>3. p \in Parsers /\ p.http_errno = "OK" /\ p.state = "header_value" /\ p.header_state = h
    BY <1>3, <2>1, <2>2, ParsersAre
  <2> QED
    BY <1>3, <1>5, <1>7, <2>1, <2>2, <2>3
<1>8. \/ Tell(b, "header_almost_done", "header_value")
      \/ Step(b, EndLine, {}, {"header_value"})
      \/ Step(b, Now, {}, {})
      \/ b \in Digit /\ Step(b, [Now EXCEPT !.content_length = Shifted(@, 10, NumeralValue[b])], {}, {})
      \/ \E h \in {parser.header_state, Matched(b)} : Step(b, [Now EXCEPT !.header_state = h], {}, {})
      \/ Fail
  <2>1. Now.header_state = parser.header_state
    BY NowIs
  <2> QED
    BY <2>1 DEF Value, ContentLength
<1>9. CASE Step(b, EndLine, {}, {"header_value"})
  BY <1>2, <1>9, EndLineIs, PlainStepKeeps
<1> QED
  BY <1>1, <1>2, <1>3, <1>4, <1>5, <1>6, <1>7, <1>8, <1>9, TellKeeps, FailKeeps

-----------------------------------------------------------------------------
(* A parser after a message is where the next one begins, or dead.          *)
LEMMA InitialIs ==
  ASSUME NEW type \in {"REQUEST", "RESPONSE"}
  PROVE  Initial(type) \in Parsers /\ Initial(type).http_errno = "OK" /\ Initial(type).state = "start"
<1>1. "start" \in States
  BY DEF States
<1>2. PICK zero \in Short : zero = 0
  BY DEF Short
<1>3. PICK n \in Lengths : n = 0
  BY WidthAssumption DEF Lengths
<1>4. PICK h \in Looking : h = General
  BY GeneralIs
<1>5. Initial(type) =
        [type |-> type, state |-> "start", header_state |-> h, flags |-> {},
         content_length |-> n, nread |-> 0, major |-> zero, minor |-> zero,
         status_code |-> zero, method |-> "none", http_errno |-> "OK"]
  BY <1>2, <1>3, <1>4 DEF Initial
<1> QED
  BY <1>1, <1>5, ParsersAre DEF Types, Verbs

LEMMA CompletedIs ==
  ASSUME NEW p \in Parsers, p.http_errno = "OK", NEW ok
  PROVE  /\ Completed(p, ok) \in Parsers
         /\ Completed(p, ok).http_errno = "OK"
         /\ Completed(p, ok).state \in Plain \cap Bare
<1>1. {"start", "dead"} \subseteq Plain \cap Bare
  BY DEF Plain, Bare, States, LineStates, ChunkStates, UrlStates, EndableUrl, BodyStates
<1>2. CASE ok /\ p.type = "REQUEST"
  <2>1. Completed(p, ok) = Initial("REQUEST")
    BY <1>2 DEF Completed
  <2> QED
    BY <1>1, <2>1, InitialIs
<1>3. CASE ~(ok /\ p.type = "REQUEST")
  <2>1. PICK s \in {"start", "dead"} : Completed(p, ok) = [p EXCEPT !.state = s]
    BY <1>3 DEF Completed
  <2>2. s \in States
    BY <1>1 DEF Plain
  <2> QED
    BY <1>1, <2>1, <2>2, StateSet
<1> QED
  BY <1>2, <1>3

LEMMA Events ==
  /\ MessageComplete \in Call /\ HeadersComplete \in Call
  /\ <<MessageComplete>> \in Seq(Call) /\ <<HeadersComplete>> \in Seq(Call)
  /\ <<HeadersComplete, MessageComplete>> \in Seq(Call)
<1>1. <<>> \in Seq(Byte)
  BY ShortSequences
<1>2. MessageComplete \in Call /\ HeadersComplete \in Call
  BY <1>1 DEF MessageComplete, HeadersComplete, Call
<1> HIDE DEF Call
<1> QED
  BY <1>2, ShortSequences

(* A step that leaves no mark, whatever it calls.                           *)
LEMMA NotifyKeeps ==
  ASSUME IInv, NEW q \in Parsers, q.http_errno = "OK", Sound(q),
         parser' = q, DOMAIN marks' = {}, calls' \in Seq(Call), running' \in BOOLEAN
  PROVE  IInv'
<1>1. TypeOK'
  BY TypesKept
<1>2. Marked'
  BY DEF Marked
<1> QED
  BY <1>1, <1>2 DEF IInv

LEMMA EndOfHeadersKeeps ==
  ASSUME IInv, running, NEW b \in Byte, NEW ok, EndOfHeaders(b, ok)
  PROVE  IInv'
<1>1. {"headers_almost_done", "header_field_start", "header_value_lws"} \subseteq Bare
  BY DEF Bare, States, LineStates, ChunkStates, UrlStates, EndableUrl, BodyStates
<1>2. DOMAIN marks = {}
  BY <1>1, MarksNow DEF EndOfHeaders, AtFieldStart
<1> DEFINE p == [Now EXCEPT !.nread = 0]
           s == IF "CHUNKED" \in p.flags THEN "chunk_size_start"
                ELSE IF NeedsEof(p) THEN "body_identity_eof" ELSE "body_identity"
           notify(q, events) == parser' = q /\ calls' = events /\ UNCHANGED marks
<1>3. p \in Parsers /\ p.http_errno = "OK" /\ p.nread = 0
  BY NowIs, ParsersAre
<1>4. \/ Fail
      \/ /\ \/ notify(Completed(Now, ok), <<MessageComplete>>)
            \/ notify(Completed(p, ok), <<HeadersComplete, MessageComplete>>)
            \/ ~Ends(p) /\ notify([p EXCEPT !.state = s], <<HeadersComplete>>)
         /\ running' \in BOOLEAN
  <2>1. running \in BOOLEAN
    BY DEF IInv, TypeOK
  <2> HIDE DEF p, s
  <2>2. CASE b = "LF"
    <3>1. CASE "TRAILING" \in p.flags
      BY <2>1, <2>2, <3>1 DEF EndOfHeaders, p, s
    <3>2. CASE "TRAILING" \notin p.flags /\ ("UPGRADE" \in p.flags \/ p.method = "CONNECT")
      BY <2>1, <2>2, <3>2 DEF EndOfHeaders, p, s
    <3>3. CASE "TRAILING" \notin p.flags /\ ~("UPGRADE" \in p.flags \/ p.method = "CONNECT")
      BY <2>1, <2>2, <3>3 DEF EndOfHeaders, p, s
    <3> QED
      BY <3>1, <3>2, <3>3
  <2> QED
    BY <2>2 DEF EndOfHeaders
<1> HIDE DEF p
<1>5. ASSUME NEW q \in Parsers, q.http_errno = "OK", NEW events \in Seq(Call),
             notify(Completed(q, ok), events), running' \in BOOLEAN
      PROVE  IInv'
  BY <1>2, <1>5, CompletedIs, PlainIsSound, NotifyKeeps
<1>6. ASSUME ~Ends(p), notify([p EXCEPT !.state = s], <<HeadersComplete>>), running' \in BOOLEAN
      PROVE  IInv'
  <2>1. PICK n \in Parsers : n = p
    BY <1>3
  <2>2. PICK t : t = s
    OBVIOUS
  <2>3. t \in States
    BY <2>2 DEF States, ChunkStates, BodyStates
  <2>4. PICK q : q = [n EXCEPT !.state = t]
    OBVIOUS
  <2>5. /\ q \in Parsers /\ q.http_errno = "OK" /\ q.state = t /\ q.nread = 0
        /\ q.flags = n.flags /\ q.content_length = n.content_length
    BY <1>3, <2>1, <2>3, <2>4, ParsersAre
  <2>6. t = "body_identity" => n.content_length \notin {0, Width - 1}
    BY <1>6, <2>1, <2>2 DEF Ends
  <2>7. t = "chunk_size_start" => "CHUNKED" \in n.flags
    BY <2>1, <2>2
  <2>8. t \in {"chunk_size_start", "body_identity_eof", "body_identity"}
    BY <2>2
  <2>9. Sound(q)
    BY <2>5, <2>6, <2>7, <2>8 DEF Sound, ChunkStates
  <2> QED
    BY <1>2, <1>6, <2>1, <2>2, <2>4, <2>5, <2>9, Events, NotifyKeeps
<1>7. PICK now \in Parsers : now = Now /\ now.http_errno = "OK"
  BY NowIs
<1>8. PICK m \in Parsers : m = p /\ m.http_errno = "OK"
  BY <1>3
<1> HIDE DEF notify, s
<1> QED
  BY <1>4, <1>5, <1>6, <1>7, <1>8, Events, FailKeeps

-----------------------------------------------------------------------------
LEMMA BodyIsPlain == "body_identity_eof" \in Plain /\ "chunk_data_done" \in States
  BY DEF Plain, States, ChunkStates, BodyStates

LEMMA BodyIdentityKeeps ==
  ASSUME IInv, running, NEW b \in Byte, NEW ok, BodyIdentity(b, ok)
  PROVE  IInv'
<1>1. parser.state = "body_identity" /\ DOMAIN marks \subseteq {"body"}
  BY MarksNow DEF BodyIdentity, BodyStates
<1>2. PICK now \in Parsers : /\ now = Now /\ now.http_errno = "OK" /\ now.state = "body_identity"
                             /\ now.content_length = parser.content_length
  BY <1>1, NowIs
<1>3. PICK n : n = parser.content_length - 1
  OBVIOUS
<1>4. n \in Lengths /\ n # Width - 1
  <2>1. parser.http_errno = "OK"
    BY DEF IInv
  <2>2. parser.content_length # 0 /\ parser.content_length \in Lengths
    BY <1>1, <1>2, <2>1, ParsersAre DEF IInv, Sound, Lengths
  <2> QED BY <1>3, <2>2, WidthAssumption DEF Lengths
<1>5. PICK p : p = [now EXCEPT !.content_length = n]
  OBVIOUS
<1>6. p = [Now EXCEPT !.content_length = @ - 1]
  BY <1>2, <1>3, <1>5, ParsersAre
<1>7. p \in Parsers /\ p.http_errno = "OK" /\ p.state = "body_identity" /\ p.content_length = n
  BY <1>2, <1>4, <1>5, ParsersAre
<1> DEFINE body == IF "body" \in DOMAIN marks THEN Append(marks["body"], b) ELSE <<b>>
<1>8. CASE n > 0 /\ Step(b, p, {"body"}, {})
  <2>1. Sound(p)
    BY <1>4, <1>7, <1>8 DEF Sound, ChunkStates
  <2> QED
    BY <1>1, <1>7, <1>8, <2>1, MarksAre, StepKeeps DEF BodyStates
<1>9. CASE /\ parser' = Completed(p, ok)
           /\ marks' = [k \in DOMAIN marks \ {"body"} |-> Append(marks[k], b)]
           /\ calls' = <<<<"body", body>>, MessageComplete>>
           /\ UNCHANGED running
  <2>1. body \in Seq(Byte)
    BY ShortSequences DEF IInv, TypeOK
  <2> HIDE DEF body
  <2>2. <<"body", body>> \in Call
    BY <2>1 DEF Call
  <2>3. calls' \in Seq(Call)
    BY <1>9, <2>2, Events, ShortSequences
  <2>4. DOMAIN marks' = {} /\ running' \in BOOLEAN
    BY <1>1, <1>9 DEF IInv, TypeOK
  <2> QED
    BY <1>7, <1>9, <2>3, <2>4, CompletedIs, PlainIsSound, NotifyKeeps
<1> HIDE DEF body
<1>10. IF p.content_length > 0 THEN Step(b, p, {"body"}, {})
       ELSE /\ parser' = Completed(p, ok)
            /\ marks' = [k \in DOMAIN marks \ {"body"} |-> Append(marks[k], b)]
            /\ calls' = <<<<"body", body>>, MessageComplete>>
            /\ UNCHANGED running
  BY <1>6 DEF BodyIdentity, body
<1> QED
  BY <1>7, <1>8, <1>9, <1>10

LEMMA BodyIdentityEofKeeps ==
  ASSUME IInv, running, NEW b \in Byte, BodyIdentityEof(b)
  PROVE  IInv'
<1>1. DOMAIN marks \subseteq {"body"} /\ parser.state = "body_identity_eof"
  BY MarksNow DEF BodyIdentityEof, BodyStates
<1>2. PICK now \in Parsers : now = Now /\ now.http_errno = "OK" /\ now.state = "body_identity_eof"
  BY <1>1, NowIs
<1>3. Step(b, now, {"body"}, {})
  BY <1>2 DEF BodyIdentityEof
<1> QED
  BY <1>1, <1>2, <1>3, BodyIsPlain, MarksAre, PlainStepKeeps DEF BodyStates

-----------------------------------------------------------------------------
(* Chunks.                                                                  *)
LEMMA ChunkSizeKeeps ==
  ASSUME IInv, running, NEW b \in Byte, ChunkSize(b)
  PROVE  IInv'
<1>1. {"chunk_size_start", "chunk_size", "chunk_parameters", "chunk_size_almost_done"}
        \subseteq Bare \cap ChunkStates
  BY DEF Bare, States, ChunkStates, UrlStates, EndableUrl, BodyStates
<1>2. parser.state \in {"chunk_size_start", "chunk_size"} /\ DOMAIN marks = {}
  BY <1>1, MarksNow DEF ChunkSize
<1>3. PICK now \in Parsers : /\ now = Now /\ now.http_errno = "OK" /\ now.state = parser.state
                             /\ now.flags = parser.flags
                             /\ now.content_length = parser.content_length
  BY NowIs
<1>4. /\ "CHUNKED" \in now.flags
      /\ now.state = "chunk_size" => now.content_length # Width - 1
  BY <1>1, <1>2, <1>3 DEF IInv, Sound
<1>5. ASSUME NEW n \in Lengths, n # Width - 1,
             NEW s \in {"chunk_size", "chunk_parameters", "chunk_size_almost_done"},
             NEW p \in Parsers, p.http_errno = "OK", p.state = s, p.content_length = n,
             p.flags = now.flags, Step(b, p, {}, {})
      PROVE  IInv'
  <2>1. Sound(p)
    BY <1>4, <1>5 DEF Sound
  <2> QED
    BY <1>2, <1>5, <2>1, StepKeeps
<1>6. ASSUME NEW s \in {"chunk_parameters", "chunk_size_almost_done"},
             parser.state = "chunk_size", To(b, s)
      PROVE  IInv'
  <2>1. PICK p : p = [now EXCEPT !.state = s]
    OBVIOUS
  <2>2. s \in States
    BY DEF States, ChunkStates
  <2>3. /\ p \in Parsers /\ p.http_errno = "OK" /\ p.state = s
        /\ p.flags = now.flags /\ p.content_length = now.content_length
    BY <1>3, <2>1, <2>2, ParsersAre
  <2>4. now.content_length \in Lengths
    BY ParsersAre DEF Lengths
  <2>5. Step(b, p, {}, {})
    BY <1>3, <1>6, <2>1 DEF To
  <2> QED
    BY <1>3, <1>4, <1>5, <1>6, <2>3, <2>4, <2>5
<1>7. ASSUME b \in DOMAIN Hex, parser.state = "chunk_size_start",
             Step(b, [Now EXCEPT !.state = "chunk_size", !.content_length = Hex[b]], {}, {})
      PROVE  IInv'
  <2>1. PICK n \in Lengths : n = Hex[b] /\ n # Width - 1
    <3>1. Hex[b] \in 0..10
      BY <1>7, HexAreNumbers
    <3> QED BY <3>1, WidthAssumption DEF Lengths
  <2>2. PICK p : p = WithLength(now, "chunk_size", n)
    OBVIOUS
  <2>3. "chunk_size" \in States
    BY DEF States, ChunkStates
  <2>4. /\ p \in Parsers /\ p.http_errno = "OK" /\ p.state = "chunk_size"
        /\ p.flags = now.flags /\ p.content_length = n
    BY <1>3, <2>2, <2>3, LengthSet
  <2>5. Step(b, p, {}, {})
    BY <1>3, <1>7, <2>1, <2>2 DEF WithLength
  <2> QED
    BY <1>5, <2>1, <2>4, <2>5
<1>8. ASSUME b \in DOMAIN Hex, parser.state = "chunk_size",
             ~Overflow(parser.content_length, 16, Hex[b]),
             Step(b, [Now EXCEPT !.content_length = Shifted(@, 16, Hex[b])], {}, {})
      PROVE  IInv'
  <2>1. PICK d \in 0..10 : d = Hex[b]
    BY <1>8, HexAreNumbers
  <2>2. now.content_length \in Lengths
    BY ParsersAre DEF Lengths
  <2>3. PICK n \in Lengths : n = Shifted(now.content_length, 16, d)
    BY <2>2, ShiftedIs
  <2>4. n # Width - 1
    BY <1>3, <1>8, <2>1, <2>3 DEF Overflow
  <2>5. PICK p : p = [now EXCEPT !.content_length = n]
    OBVIOUS
  <2>6. /\ p \in Parsers /\ p.http_errno = "OK" /\ p.state = "chunk_size"
        /\ p.flags = now.flags /\ p.content_length = n
    BY <1>3, <1>8, <2>5, ParsersAre
  <2>7. Step(b, p, {}, {})
    BY <1>3, <1>8, <2>1, <2>3, <2>5
  <2> QED
    BY <1>5, <2>4, <2>6, <2>7
<1>9. \/ Fail
      \/ \E s \in {"chunk_parameters", "chunk_size_almost_done"} :
           parser.state = "chunk_size" /\ To(b, s)
      \/ /\ b \in DOMAIN Hex /\ parser.state = "chunk_size_start"
         /\ Step(b, [Now EXCEPT !.state = "chunk_size", !.content_length = Hex[b]], {}, {})
      \/ /\ b \in DOMAIN Hex /\ parser.state = "chunk_size"
         /\ ~Overflow(parser.content_length, 16, Hex[b])
         /\ Step(b, [Now EXCEPT !.content_length = Shifted(@, 16, Hex[b])], {}, {})
  BY DEF ChunkSize
<1> QED
  BY <1>6, <1>7, <1>8, <1>9, FailKeeps

LEMMA ChunkSizeAlmostDoneKeeps ==
  ASSUME IInv, running, NEW b \in Byte, ChunkSizeAlmostDone(b)
  PROVE  IInv'
<1>1. "chunk_size_almost_done" \in Bare \cap ChunkStates /\ "header_field_start" \in Plain
      /\ "chunk_data" \in States
  BY DEF Bare, Plain, States, ChunkStates, UrlStates, LineStates, EndableUrl, BodyStates
<1>2. parser.state = "chunk_size_almost_done" /\ DOMAIN marks = {}
  BY <1>1, MarksNow DEF ChunkSizeAlmostDone
<1>3. PICK now \in Parsers : /\ now = Now /\ now.http_errno = "OK"
                             /\ now.flags = parser.flags
                             /\ now.content_length = parser.content_length
  BY NowIs
<1>4. "CHUNKED" \in now.flags /\ now.content_length # Width - 1 /\ now.content_length \in Lengths
  BY <1>1, <1>2, <1>3, ParsersAre DEF IInv, Sound, Lengths
<1>5. PICK p : p = [now EXCEPT !.nread = 0]
  OBVIOUS
<1>6. /\ p \in Parsers /\ p.http_errno = "OK" /\ p.flags = now.flags
      /\ p.content_length = now.content_length
  BY <1>3, <1>5, ParsersAre
<1>7. ASSUME p.content_length > 0, Step(b, [p EXCEPT !.state = "chunk_data"], {}, {})
      PROVE  IInv'
  <2>1. PICK q : q = [p EXCEPT !.state = "chunk_data"]
    OBVIOUS
  <2>2. /\ q \in Parsers /\ q.http_errno = "OK" /\ q.state = "chunk_data" /\ q.flags = p.flags
        /\ q.content_length = p.content_length
    BY <1>1, <1>6, <2>1, ParsersAre
  <2>3. Sound(q)
    BY <1>4, <1>6, <1>7, <2>2 DEF Sound
  <2> QED
    BY <1>2, <1>7, <2>1, <2>2, <2>3, StepKeeps
<1>8. ASSUME Step(b, [p EXCEPT !.state = "header_field_start", !.flags = @ \cup {"TRAILING"}], {}, {})
      PROVE  IInv'
  <2>1. PICK f \in SUBSET Flags : f = p.flags \cup {"TRAILING"}
    <3>1. p.flags \in SUBSET Flags
      BY <1>6, ParsersAre DEF Flags
    <3>2. p.flags \cup {"TRAILING"} \in SUBSET Flags
      BY <3>1 DEF Flags
    <3> QED BY <3>2
  <2>2. PICK q : q = WithFlags(p, "header_field_start", f)
    OBVIOUS
  <2>3. q = [p EXCEPT !.state = "header_field_start", !.flags = @ \cup {"TRAILING"}]
    BY <1>6, <2>1, <2>2, ParsersAre DEF WithFlags
  <2>4. q \in Parsers /\ q.http_errno = "OK" /\ q.state = "header_field_start"
    BY <1>1, <1>6, <2>2, FlagsSet DEF Plain
  <2> QED
    BY <1>1, <1>2, <1>8, <2>3, <2>4, PlainStepKeeps
<1>9. \/ Fail
      \/ p.content_length > 0 /\ Step(b, [p EXCEPT !.state = "chunk_data"], {}, {})
      \/ Step(b, [p EXCEPT !.state = "header_field_start", !.flags = @ \cup {"TRAILING"}], {}, {})
  BY <1>3, <1>5 DEF ChunkSizeAlmostDone
<1> QED
  BY <1>7, <1>8, <1>9, FailKeeps

LEMMA ChunkDataKeeps ==
  ASSUME IInv, running, NEW b \in Byte, ChunkData(b)
  PROVE  IInv'
<1>1. /\ {"chunk_data", "chunk_data_almost_done"} \subseteq BodyStates \ {"chunk_data_done"}
      /\ {"chunk_data", "chunk_data_almost_done", "chunk_data_done"} \subseteq ChunkStates \cap BodyStates
      /\ {"chunk_data_done", "chunk_size_start"} \subseteq Bare
      /\ ChunkStates \subseteq States
  BY DEF Bare, States, ChunkStates, UrlStates, EndableUrl, BodyStates
<1>2. parser.state \in {"chunk_data", "chunk_data_almost_done", "chunk_data_done"}
  BY DEF ChunkData
<1>3. PICK now \in Parsers : /\ now = Now /\ now.http_errno = "OK" /\ now.state = parser.state
                             /\ now.flags = parser.flags
                             /\ now.content_length = parser.content_length
  BY NowIs
<1>4. /\ "CHUNKED" \in now.flags
      /\ now.state = "chunk_data" => now.content_length \notin {0, Width - 1}
      /\ now.content_length \in Lengths
  BY <1>1, <1>2, <1>3, ParsersAre DEF IInv, Sound, Lengths
<1>5. CASE parser.state = "chunk_data"
  <2>1. PICK n : n = parser.content_length - 1
    OBVIOUS
  <2>2. n \in Lengths /\ n # Width - 1
    BY <1>3, <1>4, <1>5, <2>1, WidthAssumption DEF Lengths
  <2>3. PICK s : s = IF n = 0 THEN "chunk_data_almost_done" ELSE "chunk_data"
    OBVIOUS
  <2>4. PICK p : p = WithLength(now, s, n)
    OBVIOUS
  <2>5. s \in {"chunk_data", "chunk_data_almost_done"} /\ s \in States
    BY <1>1, <2>3
  <2>6. /\ p \in Parsers /\ p.http_errno = "OK" /\ p.state = s
        /\ p.flags = now.flags /\ p.content_length = n
    BY <1>3, <2>2, <2>4, <2>5, LengthSet
  <2>7. Step(b, p, {"body"}, {})
    <3>1. Step(b, [Now EXCEPT !.state = IF n = 0 THEN "chunk_data_almost_done" ELSE @,
                              !.content_length = n], {"body"}, {})
      BY <1>5, <2>1 DEF ChunkData
    <3>2. p = [Now EXCEPT !.state = IF n = 0 THEN "chunk_data_almost_done" ELSE @,
                          !.content_length = n]
      BY <1>3, <1>5, <2>3, <2>4 DEF WithLength
    <3> QED BY <3>1, <3>2
  <2>8. Sound(p)
    BY <1>4, <2>2, <2>3, <2>5, <2>6 DEF Sound
  <2>9. MarksIn(p.state) = {"body"} /\ DOMAIN marks \subseteq {"body"}
    BY <1>1, <1>5, <2>5, <2>6, MarksAre, MarksNow
  <2> QED
    BY <2>6, <2>7, <2>8, <2>9, StepKeeps
<1>6. CASE parser.state = "chunk_data_almost_done"
  <2>1. DOMAIN marks \subseteq {"body"}
    BY <1>1, <1>6, MarksNow
  <2>2. CASE Tell(b, "chunk_data_done", "body")
    <3>1. PICK p : p = [now EXCEPT !.state = "chunk_data_done"]
      OBVIOUS
    <3>2. p \in Parsers /\ p.http_errno = "OK" /\ p.state = "chunk_data_done" /\ p.flags = now.flags
      BY <1>1, <1>3, <3>1, ParsersAre
    <3>3. Sound(p)
      BY <1>4, <3>2 DEF Sound
    <3>4. Step(b, p, {}, {"body"})
      BY <1>3, <2>2, <3>1 DEF Tell
    <3> QED
      BY <2>1, <3>2, <3>3, <3>4, StepKeeps
  <2>3. Tell(b, "chunk_data_done", "body") \/ Fail
    BY <1>6 DEF ChunkData
  <2> QED
    BY <2>2, <2>3, FailKeeps
<1>7. CASE parser.state = "chunk_data_done"
  <2>1. DOMAIN marks = {}
    BY <1>1, <1>7, MarksNow
  <2>2. CASE Step(b, [Now EXCEPT !.nread = 0, !.state = "chunk_size_start"], {}, {})
    <3>1. PICK u : u = [now EXCEPT !.nread = 0]
      OBVIOUS
    <3>2. u \in Parsers /\ u.http_errno = "OK" /\ u.flags = now.flags /\ u.nread = 0
      BY <1>3, <3>1, ParsersAre
    <3>3. PICK p : p = [u EXCEPT !.state = "chunk_size_start"]
      OBVIOUS
    <3>4. /\ p \in Parsers /\ p.http_errno = "OK" /\ p.flags = now.flags /\ p.nread = 0
          /\ p.state = "chunk_size_start"
      BY <1>1, <3>2, <3>3, ParsersAre DEF Bare
    <3>5. p = [Now EXCEPT !.nread = 0, !.state = "chunk_size_start"]
      BY <1>3, <3>1, <3>3, ParsersAre
    <3>6. Sound(p)
      BY <1>4, <3>4 DEF Sound
    <3> QED
      BY <2>1, <2>2, <3>4, <3>5, <3>6, StepKeeps
  <2>3. Step(b, [Now EXCEPT !.nread = 0, !.state = "chunk_size_start"], {}, {}) \/ Fail
    BY <1>7 DEF ChunkData
  <2> QED
    BY <2>2, <2>3, FailKeeps
<1> QED
  BY <1>2, <1>5, <1>6, <1>7

-----------------------------------------------------------------------------
(* The end of a buffer tells the mark that is left; the next one sets it    *)
(* again, where the state needs it.                                         *)
LEMMA NextBufferKeeps ==
  ASSUME IInv, NextBuffer
  PROVE  IInv'
<1>1. parser' = parser /\ running' \in BOOLEAN /\ (running' => parser'.http_errno = "OK")
  BY DEF NextBuffer
<1>2. ResumedMark \subseteq MarksIn(parser.state) /\ ResumedMark \subseteq Kinds
  BY DEF ResumedMark, MarksIn, MarksOf, BodyStates, UrlStates, EndableUrl
<1>3. /\ DOMAIN marks' \subseteq ResumedMark
      /\ \A k \in DOMAIN marks' : marks'[k] = <<>>
  BY <1>1 DEF NextBuffer, NoMarks
<1>4. calls' \in Seq(Call)
  <2>1. CASE DOMAIN marks = {}
    BY <2>1, ShortSequences DEF NextBuffer
  <2>2. CASE DOMAIN marks # {}
    <3>1. PICK k \in DOMAIN marks : k = CHOOSE x \in DOMAIN marks : TRUE
      BY <2>2
    <3>2. PICK bytes \in Seq(Byte) : bytes = marks[k]
      BY DEF IInv, TypeOK
    <3>3. <<k, bytes>> \in Call
      BY DEF IInv, TypeOK, Call
    <3>4. calls' = <<<<k, bytes>>>>
      BY <2>2, <3>1, <3>2 DEF NextBuffer
    <3> QED
      BY <3>3, <3>4, ShortSequences
  <2> QED
    BY <2>1, <2>2
<1>5. TypeOK'
  <2>1. parser' \in Parsers
    BY <1>1 DEF IInv, TypeOK
  <2>2. \A k \in DOMAIN marks' : marks'[k] \in Seq(Byte)
    BY <1>3, ShortSequences
  <2> QED
    BY <1>1, <1>2, <1>3, <1>4, <2>1, <2>2, TypesKept
<1>6. Marked'
  BY <1>1, <1>2, <1>3 DEF Marked
<1> QED
  BY <1>1, <1>5, <1>6 DEF IInv

LEMMA InitSound ==
  ASSUME NEW type \in {"REQUEST", "RESPONSE"}, Init(type)
  PROVE  IInv
<1>1. parser \in Parsers /\ parser.http_errno = "OK" /\ parser.state = "start"
  BY InitialIs DEF Init
<1>2. "start" \in Plain
  BY DEF Plain, States, ChunkStates
<1>3. DOMAIN marks = {} /\ running = TRUE /\ calls = <<>>
  BY DEF Init, NoMarks
<1>4. TypeOK
  BY <1>1, <1>3, ShortSequences DEF TypeOK
<1> QED
  BY <1>1, <1>2, <1>3, <1>4, PlainIsSound DEF IInv, Marked

LEMMA ExecuteKeeps ==
  ASSUME IInv, NEW b \in Byte, NEW ok \in BOOLEAN, Execute(b, ok)
  PROVE  IInv'
<1>1. running
  BY DEF Execute
<1>2. CASE Fail
  BY <1>2, FailKeeps
<1>3. CASE StartMessage(b) \/ MatchMethod(b) \/ BeginUrl(b) \/ MoveUrl(b) \/ MoveLine(b) \/ Version(b)
  BY <1>1, <1>3, StartMessageKeeps, MatchMethodKeeps, BeginUrlKeeps, MoveUrlKeeps,
     MoveLineKeeps, VersionKeeps
<1>4. CASE \/ FieldStart(b) \/ Field(b) \/ ValueStart(b) \/ Value(b)
           \/ HeaderAlmostDone(b) \/ Fold(b) \/ EndOfHeaders(b, ok)
  BY <1>1, <1>4, FieldStartKeeps, FieldKeeps, ValueStartKeeps, ValueKeeps,
     HeaderAlmostDoneKeeps, FoldKeeps, EndOfHeadersKeeps
<1>5. CASE \/ BodyIdentity(b, ok) \/ BodyIdentityEof(b)
           \/ ChunkSize(b) \/ ChunkSizeAlmostDone(b) \/ ChunkData(b)
  BY <1>1, <1>5, BodyIdentityKeeps, BodyIdentityEofKeeps, ChunkSizeKeeps,
     ChunkSizeAlmostDoneKeeps, ChunkDataKeeps
<1> QED
  BY <1>2, <1>3, <1>4, <1>5 DEF Execute

LEMMA StepSound == IInv /\ [Next]_parserVars => IInv'
<1> SUFFICES ASSUME IInv, [Next]_parserVars PROVE IInv'
  OBVIOUS
<1>1. CASE UNCHANGED <<parser, marks, running>> /\ calls' \in Seq(Call)
  <2>1. TypeOK'
    BY <1>1, TypesKept DEF IInv, TypeOK
  <2> QED
    BY <1>1, <2>1 DEF IInv, Marked
<1>2. CASE Ignore
  BY <1>1, <1>2, ShortSequences DEF Ignore
<1>3. CASE UNCHANGED parserVars
  BY <1>1, <1>3 DEF parserVars, IInv, TypeOK, Call
<1> QED
  BY <1>2, <1>3, ExecuteKeeps, NextBufferKeeps DEF Next

LEMMA Invariant == Spec => []IInv
<1>1. (\E type \in {"REQUEST", "RESPONSE"} : Init(type)) => IInv
  BY InitSound
<1> QED
  BY <1>1, StepSound, PTL DEF Spec

-----------------------------------------------------------------------------
(* The struct, the marks and the callbacks have their types: no length,     *)
(* version or status code leaves its range, whatever the bytes.             *)
THEOREM TypeCorrect == Spec => []TypeOK
<1>1. IInv => TypeOK
  BY DEF IInv
<1> QED
  BY <1>1, Invariant, PTL

(* No assert() of http_parser_execute about the state it is in fails, for   *)
(* any bytes, cut into buffers anywhere, and any answer of the connection.  *)
THEOREM AssertionsHold == Spec => []Asserts
<1>1. IInv => Asserts
  BY DEF IInv, Sound, Asserts, KnownValues, KnownNames
<1> QED
  BY <1>1, Invariant, PTL

(* The assert() behind the loop holds at the end of every buffer: at most   *)
(* one mark is set, of what the parser is in the middle of.                 *)
THEOREM MarksFit == Spec => []MarkFits
<1>1. IInv => MarkFits
  BY DEF IInv, Marked, MarksIn, MarkFits
<1> QED
  BY <1>1, Invariant, PTL
=============================================================================
