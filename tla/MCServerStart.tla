--------------------------- MODULE MCServerStart ----------------------------
(***************************************************************************)
(* ServerStart with a few routes and URLs with up to three arguments.      *)
(***************************************************************************)
EXTENDS ServerStart

MCPrefix == {<<"/">>, <<"/", "a">>, <<"/", "a", "?">>}

Paths == {<<"/">>, <<"/", "a">>, <<"/", "a", "a">>, <<"*">>}

(* An argument, as a name and a value, and how it is written.               *)
Piece == [name : {<<>>, <<"a">>}, value : {<<>>, <<"=", "?">>}, bare : BOOLEAN]
Writable == {p \in Piece : p.bare => p.value = <<>>}
Written(p) == IF p.bare THEN p.name ELSE p.name \o <<"=">> \o p.value

QueryOf(list) ==
  FlattenSeq([i \in 1..Len(list) |-> <<IF i = 1 THEN "?" ELSE "&">> \o Written(list[i])])

MCUrl ==
  {[text |-> path, meant |-> <<>>] : path \in Paths}
  \cup {[text |-> <<"/", "a">> \o QueryOf(list), meant |-> list] :
          list \in UNION {[1..n -> Writable] : n \in 1..3}}
=============================================================================
