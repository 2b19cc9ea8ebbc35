-------------------------------- MODULE Body --------------------------------
(***************************************************************************)
(* http::Body (body.cpp), with the loops that fill it                      *)
(* (Message::add_body) and send it (IOStrategy::send_raw and               *)
(* send_buffered_body).  The first MAX_BUFFER_SIZE bytes are kept in       *)
(* memory, the rest in a temporary file.  A copy shares the file through a *)
(* duplicated descriptor.  Files are numbers; a file's descriptors share   *)
(* its offset, which is at the end, since all they do is write and         *)
(* sendfile does not use it.                                               *)
(***************************************************************************)
EXTENDS Integers, Sequences, FiniteSets

CONSTANTS
  Originals,     \* bodies that are added to or given a file: requests, replies
  Copies,        \* bodies of the requests that handlers make as copies
  Byte,
  Fragments,     \* what add_body is called with
  MaxBytes,      \* bound: bytes in a body
  MaxBufferSize, \* MAX_BUFFER_SIZE
  MaxInt,        \* the largest int
  Existing,      \* contents of a file on disk
  ShortSendfile  \* sendfile may send less than it could

ASSUME MaxBufferSizeAssumption == MaxBufferSize \in Nat \ {0}
ASSUME MaxIntAssumption == MaxInt \in Nat
ASSUME FiniteAssumption == IsFiniteSet(Originals) /\ IsFiniteSet(Copies)
ASSUME CopiesAssumption == Originals \cap Copies = {}
ASSUME BytesAssumption == Fragments \subseteq Seq(Byte) \ {<<>>} /\ Existing \in Seq(Byte)

Bodies == Originals \cup Copies

VARIABLES
  body,    \* the Body objects
  file,    \* what is in each file
  open,    \* of each file, how many descriptors there are
  linked,  \* the files that have a name
  adding,  \* of a running add_body, the bytes that are left, for each body
  transfer \* of each body, how far it has been sent

vars == <<body, file, open, linked, adding, transfer>>

None == 0
NamedFile == 1
Files == 1..Cardinality(Bodies) + 2

Cleared == [data |-> <<>>, fd |-> None, size |-> 0, unlink |-> FALSE, filename |-> None]
Idle == [outcome |-> "none", sent |-> <<>>, announced |-> {}, offset |-> 0, remain |-> 0]

Init ==
  /\ body = [b \in Bodies |-> Cleared]
  /\ file = [f \in Files |-> IF f = NamedFile THEN Existing ELSE <<>>]
  /\ open = [f \in Files |-> 0]
  /\ linked = {NamedFile}
  /\ adding = [b \in Bodies |-> <<>>]
  /\ transfer = [b \in Bodies |-> Idle]

SizeOnDisk(o) == o.size - Len(o.data)

(* What is behind a body's descriptor, as much of it as the body's.         *)
OnDisk(o) ==
  IF o.fd = None THEN <<>>
  ELSE SubSeq(file[o.fd], 1, IF SizeOnDisk(o) < Len(file[o.fd]) THEN SizeOnDisk(o) ELSE Len(file[o.fd]))

Content(o) == o.data \o OnDisk(o)

(* No add_body is running; it is not interrupted.                           *)
Quiet == \A b \in Bodies : adding[b] = <<>>

-----------------------------------------------------------------------------
(* Message::add_body, called with a fragment.  No code adds to a body that  *)
(* was given a file, or to a copy.                                          *)
AddBody(b) ==
  /\ Quiet
  /\ b \in Originals
  /\ body[b].fd # NamedFile
  /\ transfer[b].outcome = "none"
  /\ \E bytes \in Fragments :
       /\ body[b].size + Len(bytes) <= MaxBytes
       /\ adding' = [adding EXCEPT ![b] = bytes]
  /\ UNCHANGED <<body, file, open, linked, transfer>>

Added(b, n) == adding' = [adding EXCEPT ![b] = SubSeq(@, n + 1, Len(@))]

(* Fault: there is always room.                                             *)
BufferInMemory_All(b) ==
  /\ adding[b] # <<>>
  /\ Len(body[b].data) # MaxBufferSize
  /\ body' = [body EXCEPT ![b].data = @ \o adding[b], ![b].size = @ + Len(adding[b])]
  /\ Added(b, Len(adding[b]))
  /\ UNCHANGED <<file, open, linked, transfer>>

(* Fault: all that was offered is counted, not what there was room for.     *)
BufferInMemory_Asked(b) ==
  /\ adding[b] # <<>>
  /\ Len(body[b].data) # MaxBufferSize
  /\ LET avail == MaxBufferSize - Len(body[b].data)
         insert == IF Len(adding[b]) > avail THEN avail ELSE Len(adding[b])
     IN  /\ body' = [body EXCEPT ![b].data = @ \o SubSeq(adding[b], 1, insert),
                                 ![b].size = @ + Len(adding[b])]
         /\ Added(b, insert)
  /\ UNCHANGED <<file, open, linked, transfer>>

(* buffer_in_memory: as much as there is room for.                          *)
BufferInMemory(b) ==
  /\ adding[b] # <<>>
  /\ Len(body[b].data) # MaxBufferSize
  /\ LET avail == MaxBufferSize - Len(body[b].data)
         insert == IF Len(adding[b]) > avail THEN avail ELSE Len(adding[b])
     IN  /\ body' = [body EXCEPT ![b].data = @ \o SubSeq(adding[b], 1, insert),
                                 ![b].size = @ + insert]
         /\ Added(b, insert)
  /\ UNCHANGED <<file, open, linked, transfer>>

(* create_file, where there is no file yet: one that nobody has.            *)
UnusedFile == CHOOSE f \in Files : f \notin linked /\ open[f] = 0

CreateFile(b) ==
  /\ adding[b] # <<>>
  /\ Len(body[b].data) = MaxBufferSize
  /\ body[b].fd = None
  /\ body' = [body EXCEPT ![b].fd = UnusedFile, ![b].filename = UnusedFile, ![b].unlink = TRUE]
  /\ open' = [open EXCEPT ![UnusedFile] = 1]
  /\ linked' = linked \cup {UnusedFile}
  /\ UNCHANGED <<file, adding, transfer>>

(* buffer_on_disk, of which write takes n bytes.                            *)
BufferOnDisk(b) ==
  /\ adding[b] # <<>>
  /\ Len(body[b].data) = MaxBufferSize
  /\ body[b].fd # None
  /\ \E n \in 1..Len(adding[b]) :
       /\ file' = [file EXCEPT ![body[b].fd] = @ \o SubSeq(adding[b], 1, n)]
       /\ body' = [body EXCEPT ![b].size = @ + n]
       /\ Added(b, n)
  /\ UNCHANGED <<open, linked, transfer>>

(* mkstemp or write fails: add_body returns, the rest is not added.         *)
BufferOnDiskFails(b) ==
  /\ adding[b] # <<>>
  /\ Len(body[b].data) = MaxBufferSize
  /\ adding' = [adding EXCEPT ![b] = <<>>]
  /\ UNCHANGED <<body, file, open, linked, transfer>>

-----------------------------------------------------------------------------
(* clear: the descriptor is closed, a file of its own is unlinked.          *)
Closed(o) == [f \in Files |-> IF f = o.fd THEN open[f] - 1 ELSE open[f]]
Unlinked(o) == IF o.unlink THEN linked \ {o.filename} ELSE linked

(* A file without a name or a descriptor is gone.                           *)
Freed == [f \in Files |-> IF open'[f] = 0 /\ f \notin linked' THEN <<>> ELSE file[f]]

(* Fault: the file stays.                                                   *)
Clear_Leaves(b) ==
  /\ Quiet
  /\ transfer[b].outcome # "sending"
  /\ body' = [body EXCEPT ![b] = Cleared]
  /\ open' = Closed(body[b])
  /\ transfer' = [transfer EXCEPT ![b] = Idle]
  /\ UNCHANGED <<file, linked, adding>>

Clear(b) ==
  /\ Quiet
  /\ transfer[b].outcome # "sending"
  /\ body' = [body EXCEPT ![b] = Cleared]
  /\ open' = Closed(body[b])
  /\ linked' = Unlinked(body[b])
  /\ transfer' = [transfer EXCEPT ![b] = Idle]
  /\ file' = Freed
  /\ UNCHANGED adding

(* set_file: what was buffered is dropped for a file that can be opened;    *)
(* its size may not be found out, and is 0 then.                            *)
FromFile(size) == [Cleared EXCEPT !.fd = NamedFile, !.filename = NamedFile, !.size = size]

(* Fault: what was in memory stays.                                         *)
SetFile_KeepsData(b) ==
  /\ Quiet
  /\ b \in Originals
  /\ transfer[b].outcome = "none"
  /\ \E size \in {0, Len(Existing)} :
       body' = [body EXCEPT ![b] = [FromFile(size + Len(body[b].data)) EXCEPT !.data = body[b].data]]
  /\ open' = [Closed(body[b]) EXCEPT ![NamedFile] = @ + 1]
  /\ linked' = Unlinked(body[b])
  /\ file' = Freed
  /\ UNCHANGED <<adding, transfer>>

SetFile(b) ==
  /\ Quiet
  /\ b \in Originals
  /\ transfer[b].outcome = "none"
  /\ \E size \in {0, Len(Existing)} : body' = [body EXCEPT ![b] = FromFile(size)]
  /\ open' = [Closed(body[b]) EXCEPT ![NamedFile] = @ + 1]
  /\ linked' = Unlinked(body[b])
  /\ file' = Freed
  /\ UNCHANGED <<adding, transfer>>

(* The copy constructor; dup may fail.                                      *)
Copy(b, c) ==
  /\ Quiet
  /\ c \in Copies \ {b}
  /\ body[c] = Cleared
  /\ transfer[c] = Idle
  /\ \E fd \in {body[b].fd, None} :
       /\ body' = [body EXCEPT ![c] = [body[b] EXCEPT !.fd = fd, !.unlink = FALSE]]
       /\ open' = [f \in Files |-> IF f = fd THEN open[f] + 1 ELSE open[f]]
  /\ UNCHANGED <<file, linked, adding, transfer>>

-----------------------------------------------------------------------------
(* What add_header makes of a size: it takes an int.                        *)
AsInt(n) == ((n + MaxInt + 1) % (2 * (MaxInt + 1))) - (MaxInt + 1)

(* prepare announces the size, in Content-Length; but for a GET request,    *)
(* whose Content-Length is left as it is found: nothing is said of its      *)
(* body, which is sent all the same.                                        *)
Prepare(b) ==
  /\ Quiet
  /\ transfer[b].outcome = "none"
  /\ \E announced \in {{AsInt(body[b].size)}, {}} :
       transfer' = [transfer EXCEPT ![b] = [Idle EXCEPT !.outcome = "sending",
                                                        !.announced = announced,
                                                        !.remain = SizeOnDisk(body[b])]]
  /\ UNCHANGED <<body, file, open, linked, adding>>

Sending(b) ==
  /\ Quiet
  /\ transfer[b].outcome = "sending"
  /\ UNCHANGED <<body, file, open, linked, adding>>

(* send_raw: what is in memory, behind the headers or, after a 100, alone.  *)
SendRaw(b) ==
  /\ Sending(b)
  /\ LET done == Len(transfer[b].sent)
     IN  \E n \in 1..Len(body[b].data) - done :
           transfer' = [transfer EXCEPT ![b].sent = @ \o SubSeq(body[b].data, done + 1, done + n)]

(* send_buffered_body: nothing where there is no descriptor, else sendfile  *)
(* until all has been sent.  It moves the offset on, and so does the loop.  *)
SentRaw(b) == Len(transfer[b].sent) >= Len(body[b].data)
OnDiskLeft(b) == Len(file[body[b].fd]) - transfer[b].offset

SendFile(b) ==
  /\ Sending(b)
  /\ SentRaw(b)
  /\ body[b].fd # None
  /\ LET t == transfer[b]
         most == IF t.remain < OnDiskLeft(b) THEN t.remain ELSE OnDiskLeft(b)
     IN  \E n \in 1..most :
           /\ n = most \/ ShortSendfile
           /\ transfer' = [transfer EXCEPT ![b].sent = @ \o SubSeq(file[body[b].fd], t.offset + 1, t.offset + n),
                                           ![b].offset = @ + n + n,
                                           ![b].remain = @ - n]

(* The end of a transfer, which may fail at any call.                       *)
Sent(b) ==
  /\ Sending(b)
  /\ SentRaw(b)
  /\ body[b].fd = None \/ transfer[b].remain = 0
  /\ transfer' = [transfer EXCEPT ![b].outcome = "sent"]

SendFails(b) ==
  /\ Sending(b)
  /\ transfer' = [transfer EXCEPT ![b].outcome = "failed"]

-----------------------------------------------------------------------------
Next ==
  \E b \in Bodies :
    \/ AddBody(b)
    \/ BufferInMemory(b)
    \/ CreateFile(b)
    \/ BufferOnDisk(b)
    \/ BufferOnDiskFails(b)
    \/ Clear(b)
    \/ SetFile(b)
    \/ \E c \in Copies : Copy(b, c)
    \/ Prepare(b)
    \/ SendRaw(b)
    \/ SendFile(b)
    \/ Sent(b)
    \/ SendFails(b)

Spec == Init /\ [][Next]_vars

-----------------------------------------------------------------------------
TypeOK ==
  /\ \A b \in Bodies :
       /\ body[b].data \in Seq(Byte) /\ Len(body[b].data) <= MaxBufferSize
       /\ body[b].fd \in Files \cup {None}
       /\ body[b].size \in Nat /\ body[b].size >= Len(body[b].data)
       /\ body[b].unlink \in BOOLEAN
       /\ body[b].filename \in Files \cup {None}
  /\ file \in [Files -> Seq(Byte)]
  /\ open \in [Files -> Nat]
  /\ linked \subseteq Files
  /\ adding \in [Bodies -> Seq(Byte)]
  /\ \A b \in Bodies :
       /\ transfer[b].outcome \in {"none", "sending", "sent", "failed"}
       /\ transfer[b].sent \in Seq(Byte)

(* No descriptor or temporary file is left behind, or taken from a body     *)
(* that uses it: each open descriptor is some body's, and each name in /tmp *)
(* that of one body, which will unlink it.                                  *)
NoLeftovers ==
  /\ \A f \in Files : open[f] = Cardinality({b \in Bodies : body[b].fd = f})
  /\ linked = {NamedFile} \cup {body[b].filename : b \in {o \in Bodies : body[o].unlink}}
  /\ \A b, c \in Bodies :
       body[b].unlink /\ body[c].unlink /\ b # c => body[b].filename # body[c].filename

(* A body whose sending succeeded is as long as the Content-Length that     *)
(* prepare made of its size, so that the peer finds the end of the message  *)
(* where it is; but for a copy whose descriptor could not be duplicated, of *)
(* which the part on disk is taken to be empty, and for a size that is no   *)
(* int, of which another number is announced.  Of the body of a GET request *)
(* prepare announces nothing, and nothing is said here.                     *)
CutOff(b) == b \in Copies /\ body[b].fd = None /\ SizeOnDisk(body[b]) > 0

AnnouncedIsSent ==
  \A b \in Bodies :
    transfer[b].outcome = "sent" /\ ~CutOff(b) /\ body[b].size <= MaxInt
      => \A n \in transfer[b].announced : Len(transfer[b].sent) = n

(* What has been sent of a body is the beginning of it ("send disk-backed   *)
(* body").                                                                  *)
SentInOrder ==
  \A b \in Bodies :
    /\ Len(transfer[b].sent) <= Len(Content(body[b]))
    /\ transfer[b].sent = SubSeq(Content(body[b]), 1, Len(transfer[b].sent))

(* Memory and file together are one sequence of bytes: what a call adds     *)
(* comes behind what was there, a copy is not changed when its original is  *)
(* cleared and its file unlinked, and all of it is sent, in order.          *)
Promise == INSTANCE MessageBody
  WITH Bytes <- Byte,
       Contents <- {<<>>, Existing},
       content <- [b \in Bodies |-> Content(body[b])],
       sent <- [b \in Bodies |-> transfer[b].sent],
       outcome <- [b \in Bodies |-> transfer[b].outcome]

KeepsPromise == Promise!PromiseSpec
=============================================================================
