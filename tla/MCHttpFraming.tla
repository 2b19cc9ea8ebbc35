--------------------------- MODULE MCHttpFraming ----------------------------
(***************************************************************************)
(* HttpFraming on encoded requests and replies, two of them pipelined, and *)
(* on the same streams with one byte replaced.                             *)
(***************************************************************************)
EXTENDS HttpFraming

Crlf == <<"CR", "LF">>
Name == [length |-> <<"Content-", "Length">>, coding |-> <<"Transfer-", "Encoding">>,
         connection |-> <<"Conn", "ection">>, upgrade |-> <<"Up", "grade">>,
         expect |-> <<"Expect">>, other |-> <<"a">>]
Line(name, value) == Name[name] \o <<":", "SP">> \o value \o Crlf
Http(minor) == <<"H", "T", "T", "P", "/", "1", ".", minor>>

Lines(headers) == FlattenSeq([i \in 1..Len(headers) |-> Line(headers[i][1], headers[i][2])])
HeaderMap(headers) ==
  [n \in {Name[headers[i][1]] : i \in 1..Len(headers)} |->
     headers[CHOOSE i \in 1..Len(headers) :
               /\ Name[headers[i][1]] = n
               /\ \A j \in i+1..Len(headers) : Name[headers[j][1]] # n][2]]

(* A request or a reply: what is sent, and what it is to be.                *)
Sent(bytes, type, url, headers, body, verb, status) ==
  [bytes |-> bytes, type |-> type,
   message |-> [url |-> url, headers |-> HeaderMap(headers), body |-> body,
                error |-> "OK", verb |-> verb, status |-> status]]

Req(method, url, minor, headers, body, raw) ==
  Sent(<<method, "SP">> \o url \o <<"SP">> \o Http(minor) \o Crlf \o Lines(headers) \o Crlf \o raw,
       "REQUEST", url, headers, body, method, 0)
Rep(code, headers, body, raw) ==
  Sent(Http("1") \o <<"SP">> \o code \o Crlf \o Lines(headers) \o Crlf \o raw,
       "RESPONSE", <<>>, headers, body, "GET",
       NumeralValue[code[1]] * 100 + NumeralValue[code[2]] * 10 + NumeralValue[code[3]])

Stream(list) ==
  [type |-> list[1].type, bytes |-> FlattenSeq([i \in 1..Len(list) |-> list[i].bytes]),
   messages |-> [i \in 1..Len(list) |-> list[i].message]]

Get == Req("GET", <<"/", "a">>, "1", <<>>, <<>>, <<>>)
Post == Req("POST", <<"/">>, "1", <<<<"length", <<"2">>>>>>, <<"CR", "GET">>, <<"CR", "GET">>)
Chunked ==
  Req("POST", <<"*">>, "1", <<<<"length", <<"4">>>>, <<"coding", <<"chun", "ked">>>>>>,
      <<"0", "LF", "a">>,
      <<"2", ";", "a", "CR", "LF", "0", "LF", "CR", "LF", "0", "1", "CR", "LF", "a", "CR", "LF", "0", "CR", "LF">>
        \o <<"a", ":", "a">> \o Crlf \o Crlf)
KeptAlive ==
  Req("GET", <<"a", ":", "/", "/", "a", "@", "a", "?", "a", "#", "a">>, "0",
      <<<<"other", <<"a", "SP", "a">>>>, <<"connection", <<"keep-", "alive">>>>>>, <<>>, <<>>)
Ok == Rep(<<"2", "0", "0">>, <<<<"length", <<"0", "3">>>>, <<"other", <<>>>>>>,
          <<"LF", "0", "a">>, <<"LF", "0", "a">>)
Continue == Rep(<<"1", "0", "0">>, <<>>, <<>>, <<>>)
OkChunked == Rep(<<"2", "0", "0">>, <<<<"coding", <<"chun", "ked">>>>>>, <<"a", "a">>,
                 <<"2", "CR", "LF", "a", "a", "CR", "LF", "0", "CR", "LF", "CR", "LF">>)
NoContent == Rep(<<"2", "0", "4">>, <<>>, <<>>, <<>>)

Requests == {Get, Post, Chunked, KeptAlive}
Replies == {Ok, OkChunked, NoContent}

Whole1 == {Stream(<<r>>) : r \in Requests \cup Replies}
Whole2 == {Stream(<<r, s>>) : r \in Requests, s \in Requests}
          \cup {Stream(<<Continue, r>>) : r \in Replies}

(* Messages that are refused, cut off, folded, or have no end; and lengths  *)
(* with a space in or behind them.                                          *)
Odd ==
  {[type |-> "REQUEST", messages |-> <<>>, bytes |-> bytes] : bytes \in
     { <<"GET", "SP", "/", "a", "a", "a">> \o <<"SP">> \o Http("1") \o Crlf \o Crlf \o Get.bytes,
       <<"GET", "SP", "/", "CR", "LF", "CR", "LF">> \o Get.bytes,
       <<"POST", "SP", "/", "SP">> \o Http("1") \o Crlf \o Line("expect", <<"100-continue">>)
         \o Line("length", <<"7">>) \o Crlf \o Get.bytes,
       <<"POST", "SP", "/", "SP">> \o Http("1") \o Crlf \o Line("length", <<"1", "SP", "2">>)
         \o Crlf \o Get.bytes,
       <<"POST", "SP", "/", "SP">> \o Http("1") \o Crlf \o Line("length", <<"2", "SP">>)
         \o Crlf \o <<"a", "a">> \o Get.bytes,
       <<"CONNECT", "SP", "a", "SP">> \o Http("1") \o Crlf \o Crlf \o Get.bytes,
       <<"GET", "SP", "/", "SP">> \o Http("1") \o Crlf \o Line("upgrade", <<"a">>) \o Crlf \o Get.bytes,
       <<"GET", "SP", "/", "SP">> \o Http("1") \o Crlf \o Line("connection", <<"cl", "ose", "SP">>)
         \o <<"a", ":", "CR", "LF", "SP", "a", "LF", "LF">> \o Get.bytes }}
  \cup {[type |-> "RESPONSE", messages |-> <<>>, bytes |-> bytes] : bytes \in
     { Http("1") \o <<"SP", "2", "0", "0", "SP", "a", "CR", "LF", "CR", "LF">> \o Get.bytes,
       Http("1") \o <<"SP", "2", "0", "0", "LF">> \o Line("length", <<"9", "9">>) \o Crlf \o Get.bytes,
       Http("1") \o <<"SP", "2", "0", "0", "LF">> \o Line("length", <<"1", "LF", "SP", "2">>)
         \o Crlf \o <<"a", "a", "a">>}}

Replacements == {"CR", "LF", "SP", ":", "0", "9", "a", "NUL", "HIGH", "Length", "GET"}

Replaced(s) ==
  {[type |-> s.type, messages |-> <<>>, bytes |-> [s.bytes EXCEPT ![i] = b]] :
     i \in 1..Len(s.bytes), b \in Replacements}

(* Numbers of four digits.                                                  *)
TooMany ==
  {[type |-> "REQUEST", messages |-> <<>>,
    bytes |-> <<"GET", "SP", "/", "SP", "H", "T", "T", "P", "/">> \o number] :
     number \in {<<"1", "0", "0", "0">>, <<"1", ".", "1", "0", "0", "0">>}}
  \cup {[type |-> "RESPONSE", messages |-> <<>>, bytes |-> Http("1") \o <<"SP", "1", "0", "0", "0">>]}

(* Blank lines before a request count as header.                            *)
TooLong == [type |-> "REQUEST", messages |-> <<>>,
            bytes |-> [i \in 1..MaxHeader |-> "LF"] \o Get.bytes]

MCInput == {TooLong} \cup TooMany \cup Whole1 \cup Whole2 \cup Odd \cup UNION {Replaced(s) : s \in Whole1 \cup Odd}
=============================================================================
