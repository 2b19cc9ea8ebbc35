------------------------------ MODULE Routing -------------------------------
(***************************************************************************)
(* What a request's URL decides: the handler that Dispatcher::get finds    *)
(* (dispatcher.cpp) and the arguments that extract_query_string finds      *)
(* (request.cpp).  URLs are sequences of characters.                       *)
(***************************************************************************)
EXTENDS Naturals, Sequences, SequencesExt

NoHandler == <<"none">>

(* Dispatcher::get: of routes <<prefix, handler>>, the first that matches.  *)
Dispatch(routes, url) ==
  LET matching == {i \in 1..Len(routes) : IsPrefix(routes[i][1], url)}
  IN  IF matching = {} THEN NoHandler
      ELSE routes[CHOOSE i \in matching : \A j \in matching : i <= j][2]

NoArguments == [name \in {} |-> <<>>]

(* Fault: the last value of a name counts.                                  *)
Insert_Replaces(arguments, name, value) ==
  [n \in DOMAIN arguments \cup {name} |-> IF n = name THEN value ELSE arguments[n]]

(* map::insert: a name that is there keeps its value.                       *)
Insert(arguments, name, value) ==
  IF name \in DOMAIN arguments THEN arguments
  ELSE [n \in DOMAIN arguments \cup {name} |-> IF n = name THEN value ELSE arguments[n]]

(* One piece between separators: a name and a value if there is an equal    *)
(* sign, which an empty name is skipped for; else a name, even an empty one.*)
AddPiece(arguments, piece) ==
  LET equals == {i \in 1..Len(piece) : piece[i] = "="}
      first == CHOOSE i \in equals : \A j \in equals : i <= j
  IN  IF equals = {} THEN Insert(arguments, piece, <<>>)
      ELSE IF first = 1 THEN arguments
      ELSE Insert(arguments, SubSeq(piece, 1, first - 1), SubSeq(piece, first + 1, Len(piece)))

(* extract_query_string: pieces begin behind the first ? and every & after  *)
(* it, and end before the next & or with the URL.                           *)
QueryString(url) ==
  LET marks == {i \in 1..Len(url) : url[i] = "?"}
      start == CHOOSE i \in marks : \A j \in marks : i <= j
      cuts == {start} \cup {i \in start + 1..Len(url) : url[i] = "&"}
      pieces == [i \in cuts |->
                   LET later == {j \in cuts : j > i}
                       end == IF later = {} THEN Len(url)
                              ELSE (CHOOSE j \in later : \A k \in later : j <= k) - 1
                   IN  SubSeq(url, i + 1, end)]
      inOrder == SetToSortSeq(cuts, <)
  IN  IF marks = {} THEN NoArguments
      ELSE FoldLeft(LAMBDA arguments, i : AddPiece(arguments, pieces[i]), NoArguments, inOrder)
=============================================================================
