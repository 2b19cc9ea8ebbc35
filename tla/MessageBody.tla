---------------------------- MODULE MessageBody -----------------------------
(***************************************************************************)
(* What a message's body promises: the bytes that are added, in order,     *)
(* then sent in that order.  Where they are kept is not seen.              *)
(***************************************************************************)
EXTENDS Naturals, Sequences

CONSTANTS
  Bodies,
  Bytes,
  Contents  \* what a body may be at once: nothing, or what a file holds

VARIABLES
  adding,  \* the bytes that a call of add_body has still to add
  content, \* the body
  sent,    \* the bytes of it that have been sent
  outcome  \* of sending it: "none", "sending", "sent" or "failed"

promise == <<adding, content, sent, outcome>>

PromiseInit ==
  /\ adding = [b \in Bodies |-> <<>>]
  /\ content = [b \in Bodies |-> <<>>]
  /\ sent = [b \in Bodies |-> <<>>]
  /\ outcome = [b \in Bodies |-> "none"]

Become(b, bytes) ==
  /\ content' = [content EXCEPT ![b] = bytes]
  /\ sent' = [sent EXCEPT ![b] = <<>>]
  /\ outcome' = [outcome EXCEPT ![b] = "none"]
  /\ UNCHANGED adding

(* Bytes are added at the end, all of them or the first few; the rest may   *)
(* be given up.                                                             *)
Offer(b) ==
  /\ adding[b] = <<>>
  /\ adding'[b] \in Seq(Bytes)
  /\ adding' = [adding EXCEPT ![b] = adding'[b]]
  /\ UNCHANGED <<content, sent, outcome>>

Accept(b) ==
  /\ outcome[b] = "none"
  /\ \E n \in 1..Len(adding[b]) :
       /\ content' = [content EXCEPT ![b] = @ \o SubSeq(adding[b], 1, n)]
       /\ adding' = [adding EXCEPT ![b] = SubSeq(@, n + 1, Len(@))]
  /\ UNCHANGED <<sent, outcome>>

GiveUp(b) ==
  /\ adding[b] # <<>>
  /\ adding' = [adding EXCEPT ![b] = <<>>]
  /\ UNCHANGED <<content, sent, outcome>>

(* A copy has the same bytes, or, without a descriptor, the first of them;  *)
(* from then on neither sees what becomes of the other.                     *)
Duplicate(b, c) == \E n \in 0..Len(content[b]) : Become(c, SubSeq(content[b], 1, n))

Replace(b) == \E bytes \in Contents : Become(b, bytes)

(* A body is sent from its first byte to its last.                          *)
Send(b) ==
  /\ outcome[b] = "none"
  /\ outcome' = [outcome EXCEPT ![b] = "sending"]
  /\ UNCHANGED <<adding, content, sent>>

SendMore(b) ==
  /\ outcome[b] = "sending"
  /\ \E n \in Len(sent[b]) + 1..Len(content[b]) :
       sent' = [sent EXCEPT ![b] = SubSeq(content[b], 1, n)]
  /\ UNCHANGED <<adding, content, outcome>>

Finish(b) ==
  /\ outcome[b] = "sending"
  /\ \/ sent[b] = content[b] /\ outcome' = [outcome EXCEPT ![b] = "sent"]
     \/ outcome' = [outcome EXCEPT ![b] = "failed"]
  /\ UNCHANGED <<adding, content, sent>>

PromiseNext ==
  \E b \in Bodies :
    \/ Offer(b)
    \/ Accept(b)
    \/ GiveUp(b)
    \/ Replace(b)
    \/ \E c \in Bodies \ {b} : Duplicate(b, c)
    \/ Send(b)
    \/ SendMore(b)
    \/ Finish(b)

PromiseSpec == PromiseInit /\ [][PromiseNext]_promise
=============================================================================
