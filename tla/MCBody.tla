------------------------------- MODULE MCBody -------------------------------
(***************************************************************************)
(* Body for one request or reply and a copy of it.                          *)
(***************************************************************************)
EXTENDS Body

CONSTANTS r, c1

MCOriginals == {r}
MCCopies == {c1}
MCByte == 1..6
MCFragments == {<<1>>, <<2, 3>>}
MCExisting == <<4, 5, 6>>
=============================================================================
