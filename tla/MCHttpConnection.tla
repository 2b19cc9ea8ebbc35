-------------------------- MODULE MCHttpConnection --------------------------
(***************************************************************************)
(* HttpConnection on short pipelines.                                      *)
(***************************************************************************)
EXTENDS HttpConnection

(* A message for each path through the parser's callbacks and process.      *)
Varied ==
  { {}, {"body"}, {"close"}, {"http10", "body"}, {"long", "expect"},
    {"large", "body"}, {"expect", "body"}, {"long"}, {"malformed"},
    {"body", "upgrade"} }

WithExpect == { {"expect", "body"} }
=============================================================================
