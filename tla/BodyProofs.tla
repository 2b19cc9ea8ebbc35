----------------------------- MODULE BodyProofs -----------------------------
(***************************************************************************)
(* The body buffer, for any number of messages and copies, any fragments   *)
(* and any size of the memory buffer: no descriptor or file is left behind *)
(* and, where sendfile sends all it is asked for, memory and file are one  *)
(* sequence of bytes, as MessageBody says.                                 *)
(***************************************************************************)
EXTENDS Body, TLAPS, FiniteSetTheorems, SequenceTheorems

Object ==
  [data : Seq(Byte), fd : Files \cup {None}, size : Nat, unlink : BOOLEAN,
   filename : Files \cup {None}]

Progress ==
  [outcome : {"none", "sending", "sent", "failed"}, sent : Seq(Byte), announced : SUBSET Int,
   offset : Nat, remain : Nat]

Types ==
  /\ body \in [Bodies -> Object]
  /\ transfer \in [Bodies -> Progress]
  /\ file \in [Files -> Seq(Byte)]
  /\ open \in [Files -> Nat]
  /\ linked \subseteq Files
  /\ adding \in [Bodies -> Seq(Byte)]

(* Who has a file: a body that made one will unlink it, and only it writes  *)
(* to it; a copy may have the same file, the named file is nobody's.        *)
Owned(b) ==
  /\ Len(body[b].data) <= MaxBufferSize
  /\ Len(body[b].data) <= body[b].size
  /\ body[b].unlink =>
       /\ b \in Originals
       /\ body[b].filename = body[b].fd
       /\ body[b].fd \notin {None, NamedFile}
       /\ Len(body[b].data) = MaxBufferSize
       /\ SizeOnDisk(body[b]) = Len(file[body[b].fd])
  /\ b \in Originals /\ body[b].fd \notin {None, NamedFile} => body[b].unlink
  /\ b \in Originals /\ body[b].fd = None => SizeOnDisk(body[b]) = 0
  /\ body[b].fd # None => SizeOnDisk(body[b]) <= Len(file[body[b].fd])

Ownership == \A b \in Bodies : Owned(b)

(* A file that is used anew is empty.                                       *)
Fresh ==
  /\ file[NamedFile] = Existing
  /\ \A f \in Files : open[f] = 0 /\ f \notin linked => file[f] = <<>>

Adding ==
  \A b \in Bodies :
    adding[b] # <<>> => b \in Originals /\ body[b].fd # NamedFile /\ transfer[b].outcome = "none"

IInv == Types /\ Ownership /\ Fresh /\ Adding /\ NoLeftovers

(* What is sent is the body from its beginning: first what is in memory,    *)
(* then all that is on disk at once.                                        *)
UnderWay(b) ==
  \/ /\ transfer[b].offset = 0
     /\ transfer[b].remain = SizeOnDisk(body[b])
     /\ Len(transfer[b].sent) <= Len(body[b].data)
     /\ transfer[b].sent = SubSeq(body[b].data, 1, Len(transfer[b].sent))
  \/ /\ transfer[b].remain = 0
     /\ body[b].fd # None
     /\ transfer[b].sent = Content(body[b])

Transferred(b) ==
  /\ transfer[b].outcome = "none" => transfer[b] = Idle
  /\ transfer[b].outcome \in {"sending", "sent"} => transfer[b].announced \subseteq {AsInt(body[b].size)}
  /\ transfer[b].outcome = "sending" => UnderWay(b)
  /\ transfer[b].outcome = "sent" => transfer[b].sent = Content(body[b])

Transfers == \A b \in Bodies : Transferred(b)

Holders(f) == {b \in Bodies : body[b].fd = f}
Temporary == {body[b].filename : b \in {o \in Bodies : body[o].unlink}}

-----------------------------------------------------------------------------
(* Sets of bodies are finite, so descriptors can be counted.                *)
LEMMA BodiesFinite == IsFiniteSet(Bodies) /\ Cardinality(Bodies) \in Nat
BY FiniteAssumption, FS_Union, FS_CardinalityType DEF Bodies

LEMMA FilesSane ==
  /\ NamedFile \in Files /\ None \notin Files /\ NamedFile # None
  /\ IsFiniteSet(Files) /\ Cardinality(Files) = Cardinality(Bodies) + 2
<1>1. Cardinality(Bodies) + 2 \in Int /\ Cardinality(Bodies) + 2 >= 1
  BY BodiesFinite
<1>2. IsFiniteSet(Files) /\ Cardinality(Files) = Cardinality(Bodies) + 2
  BY <1>1, FS_Interval, SMT DEF Files
<1> QED BY <1>1, <1>2 DEF Files, NamedFile, None

(* An Object's fields.                                                      *)
LEMMA ObjectFields ==
  ASSUME NEW o \in Object
  PROVE  /\ o.data \in Seq(Byte) /\ Len(o.data) \in Nat
         /\ o.fd \in Files \cup {None} /\ o.size \in Nat /\ o.unlink \in BOOLEAN
         /\ o.filename \in Files \cup {None}
BY DEF Object

LEMMA Fields ==
  ASSUME Types, NEW b \in Bodies
  PROVE  /\ body[b] \in Object
         /\ body[b].data \in Seq(Byte) /\ Len(body[b].data) \in Nat
         /\ body[b].fd \in Files \cup {None} /\ body[b].size \in Nat
         /\ body[b].unlink \in BOOLEAN /\ body[b].filename \in Files \cup {None}
         /\ SizeOnDisk(body[b]) \in Int
         /\ adding[b] \in Seq(Byte) /\ Len(adding[b]) \in Nat
<1>1. body[b] \in Object /\ adding[b] \in Seq(Byte)
  BY DEF Types
<1> QED BY <1>1, ObjectFields DEF SizeOnDisk

LEMMA HoldersFinite ==
  ASSUME NEW f
  PROVE  /\ IsFiniteSet(Holders(f)) /\ Cardinality(Holders(f)) \in Nat
         /\ (Cardinality(Holders(f)) = 0 <=> Holders(f) = {})
<1>1. Holders(f) \in SUBSET Bodies
  BY DEF Holders
<1> QED BY <1>1, BodiesFinite, FS_Subset, FS_CardinalityType, FS_EmptySet

LEMMA LeftoversAre ==
  NoLeftovers <=> /\ \A f \in Files : open[f] = Cardinality(Holders(f))
                  /\ linked = {NamedFile} \cup Temporary
                  /\ \A b, c \in Bodies :
                       body[b].unlink /\ body[c].unlink /\ b # c => body[b].filename # body[c].filename
BY DEF NoLeftovers, Holders, Temporary

LEMMA LeftoversWillBe ==
  NoLeftovers' <=> /\ \A f \in Files : open'[f] = Cardinality(Holders(f)')
                   /\ linked' = {NamedFile} \cup Temporary'
                   /\ \A b, c \in Bodies : body'[b].unlink /\ body'[c].unlink /\ b # c
                                             => body'[b].filename # body'[c].filename
BY DEF NoLeftovers, Holders, Temporary

(* How many descriptors a file has when one body's descriptor changes.      *)
LEMMA HoldersOf ==
  ASSUME Types, NEW b \in Bodies, \A d \in Bodies \ {b} : body'[d] = body[d], NEW f \in Files
  PROVE  Cardinality(Holders(f)') =
           Cardinality(Holders(f)) + (IF body'[b].fd = f THEN 1 ELSE 0) - (IF body[b].fd = f THEN 1 ELSE 0)
<1>1. IsFiniteSet(Holders(f)) /\ Cardinality(Holders(f)) \in Nat
  BY HoldersFinite
<1>2. CASE body'[b].fd = f /\ body[b].fd = f
  <2>1. Holders(f)' = Holders(f)
    BY <1>2 DEF Holders
  <2> QED BY <1>1, <1>2, <2>1
<1>3. CASE body'[b].fd = f /\ body[b].fd # f
  <2>1. Holders(f)' = Holders(f) \cup {b} /\ b \notin Holders(f)
    BY <1>3 DEF Holders
  <2>2. Cardinality(Holders(f)') = Cardinality(Holders(f)) + 1
    BY <1>1, <2>1, FS_AddElement, Zenon
  <2> QED BY <1>1, <1>3, <2>2
<1>4. CASE body'[b].fd # f /\ body[b].fd = f
  <2>1. Holders(f)' = Holders(f) \ {b} /\ b \in Holders(f)
    BY <1>4 DEF Holders
  <2>2. Cardinality(Holders(f)') = Cardinality(Holders(f)) - 1
    BY <1>1, <2>1, FS_RemoveElement, Zenon
  <2> QED BY <1>1, <1>4, <2>2
<1>5. CASE body'[b].fd # f /\ body[b].fd # f
  <2>1. Holders(f)' = Holders(f)
    BY <1>5 DEF Holders
  <2> QED BY <1>1, <1>5, <2>1
<1> QED BY <1>2, <1>3, <1>4, <1>5

(* There are two more files than bodies, one of them is the named one and   *)
(* no body has two: create_file finds one that nobody has.                  *)
LEMMA AnUnusedFile ==
  ASSUME Types, Ownership, NoLeftovers
  PROVE  UnusedFile \in Files \ (linked \cup {None, NamedFile}) /\ open[UnusedFile] = 0
<1>1. \E f \in Files : f \notin linked /\ open[f] = 0
  <2> SUFFICES ASSUME \A f \in Files : f \in linked \/ open[f] # 0
               PROVE  FALSE
    OBVIOUS
  <2> DEFINE Others == Files \ {NamedFile}
             holder == [f \in Others |-> CHOOSE b \in Bodies : body[b].fd = f]
  <2>1. ASSUME NEW f \in Others PROVE \E b \in Bodies : body[b].fd = f
    <3>1. CASE f \in linked
      <4>1. PICK b \in Bodies : body[b].unlink /\ body[b].filename = f
        BY <3>1, LeftoversAre DEF Temporary
      <4> QED BY <4>1 DEF Ownership, Owned
    <3>2. CASE open[f] # 0
      <4>1. Cardinality(Holders(f)) # 0
        BY <3>2, LeftoversAre
      <4> QED BY <4>1, HoldersFinite DEF Holders
    <3> QED BY <3>1, <3>2
  <2>2. \A f \in Others : holder[f] \in Bodies /\ body[holder[f]].fd = f
    BY <2>1
  <2>3. holder \in [Others -> Bodies]
    BY <2>2
  <2>4. IsFiniteSet(Others) /\ Cardinality(Others) = Cardinality(Bodies) + 1
    <3>1. /\ IsFiniteSet(Others)
          /\ Cardinality(Others) = IF NamedFile \in Files THEN Cardinality(Files) - 1 ELSE Cardinality(Files)
      BY FilesSane, FS_RemoveElement, Zenon
    <3> QED BY <3>1, FilesSane, BodiesFinite
  <2> HIDE DEF Others, holder
  <2>5. Cardinality(Bodies) < Cardinality(Others)
    BY <2>4, BodiesFinite
  <2>6. PICK x, y \in Others : x # y /\ holder[x] = holder[y]
    BY <2>3, <2>4, <2>5, BodiesFinite, FS_PigeonHole, Zenon
  <2> QED BY <2>2, <2>6
<1>2. UnusedFile \in Files /\ UnusedFile \notin linked /\ open[UnusedFile] = 0
  BY <1>1 DEF UnusedFile
<1>3. NamedFile \in linked
  BY LeftoversAre
<1> QED BY <1>2, <1>3, FilesSane

-----------------------------------------------------------------------------
(* What the steps do to the bodies, field by field.                         *)
Kept(b) ==
  body'[b].fd = body[b].fd /\ body'[b].unlink = body[b].unlink /\ body'[b].filename = body[b].filename

LEMMA AddedBytes ==
  ASSUME Types, NEW b \in Bodies, NEW n \in 1..Len(adding[b]), Added(b, n)
  PROVE  /\ adding' \in [Bodies -> Seq(Byte)]
         /\ adding'[b] = SubSeq(adding[b], n + 1, Len(adding[b]))
         /\ \A d \in Bodies \ {b} : adding'[d] = adding[d]
         /\ SubSeq(adding[b], 1, n) \in Seq(Byte) /\ Len(SubSeq(adding[b], 1, n)) = n
<1> DEFINE rest == SubSeq(adding[b], n + 1, Len(adding[b]))
<1>1. adding[b] \in Seq(Byte) /\ adding \in [Bodies -> Seq(Byte)] /\ Len(adding[b]) \in Nat
  BY Fields DEF Types
<1>2. rest \in Seq(Byte) /\ SubSeq(adding[b], 1, n) \in Seq(Byte) /\ Len(SubSeq(adding[b], 1, n)) = n
  BY <1>1
<1>3. adding' = [adding EXCEPT ![b] = rest]
  BY DEF Added
<1> HIDE DEF rest
<1>4. adding' \in [Bodies -> Seq(Byte)] /\ adding'[b] = rest /\ \A d \in Bodies \ {b} : adding'[d] = adding[d]
  BY <1>1, <1>2, <1>3
<1> QED BY <1>2, <1>4 DEF rest

(* An object some of whose fields are changed is still made of five fields. *)
LEMMA NewSize ==
  ASSUME NEW o \in Object, NEW size
  PROVE  [o EXCEPT !.size = size] =
           [data |-> o.data, fd |-> o.fd, size |-> size, unlink |-> o.unlink, filename |-> o.filename]
BY DEF Object

LEMMA NewData ==
  ASSUME NEW o \in Object, NEW data, NEW size
  PROVE  [o EXCEPT !.data = data, !.size = size] =
           [data |-> data, fd |-> o.fd, size |-> size, unlink |-> o.unlink, filename |-> o.filename]
<1> DEFINE p == [data |-> data, fd |-> o.fd, size |-> o.size, unlink |-> o.unlink, filename |-> o.filename]
<1>1. [o EXCEPT !.data = data] = p
  BY DEF Object
<1>2. [p EXCEPT !.size = size] =
        [data |-> data, fd |-> o.fd, size |-> size, unlink |-> o.unlink, filename |-> o.filename]
  OBVIOUS
<1>3. [o EXCEPT !.data = data, !.size = size] = [[o EXCEPT !.data = data] EXCEPT !.size = size]
  OBVIOUS
<1> HIDE DEF p
<1> QED BY <1>1, <1>2, <1>3

LEMMA NewFile ==
  ASSUME NEW o \in Object, NEW f, NEW own
  PROVE  [o EXCEPT !.fd = f, !.filename = f, !.unlink = own] =
           [data |-> o.data, fd |-> f, size |-> o.size, unlink |-> own, filename |-> f]
<1> DEFINE p == [data |-> o.data, fd |-> f, size |-> o.size, unlink |-> o.unlink, filename |-> o.filename]
           q == [data |-> o.data, fd |-> f, size |-> o.size, unlink |-> o.unlink, filename |-> f]
<1>1. [o EXCEPT !.fd = f] = p
  BY DEF Object
<1>2. [p EXCEPT !.filename = f] = q
  OBVIOUS
<1>3. [q EXCEPT !.unlink = own] =
        [data |-> o.data, fd |-> f, size |-> o.size, unlink |-> own, filename |-> f]
  OBVIOUS
<1>4. [o EXCEPT !.fd = f, !.filename = f, !.unlink = own] =
        [[[o EXCEPT !.fd = f] EXCEPT !.filename = f] EXCEPT !.unlink = own]
  OBVIOUS
<1> HIDE DEF p, q
<1> QED BY <1>1, <1>2, <1>3, <1>4

(* A body that grows by n bytes in memory.                                  *)
LEMMA MemoryStep ==
  ASSUME Types, Ownership, NEW b \in Bodies, BufferInMemory(b)
  PROVE  \E n \in 1..Len(adding[b]) :
           /\ Added(b, n)
           /\ body' \in [Bodies -> Object]
           /\ body'[b].data = body[b].data \o SubSeq(adding[b], 1, n)
           /\ body'[b].size = body[b].size + n
           /\ Len(body[b].data) + n <= MaxBufferSize
           /\ Kept(b)
           /\ \A d \in Bodies \ {b} : body'[d] = body[d]
           /\ UNCHANGED <<file, open, linked, transfer>>
<1> DEFINE avail == MaxBufferSize - Len(body[b].data)
           n == IF Len(adding[b]) > avail THEN avail ELSE Len(adding[b])
           more == SubSeq(adding[b], 1, n)
           data == body[b].data \o more
           size == body[b].size + n
<1>1. /\ Len(body[b].data) <= MaxBufferSize /\ Len(body[b].data) # MaxBufferSize
      /\ MaxBufferSize \in Nat /\ adding[b] # <<>>
  BY MaxBufferSizeAssumption DEF Ownership, Owned, BufferInMemory
<1>2. n \in 1..Len(adding[b]) /\ Len(body[b].data) + n <= MaxBufferSize
  <2>1. Len(adding[b]) >= 1 /\ Len(adding[b]) \in Nat
    BY <1>1, Fields, EmptySeq
  <2>2. Len(body[b].data) \in Nat
    BY Fields
  <2>3. avail \in Nat /\ avail >= 1 /\ Len(body[b].data) + avail = MaxBufferSize
    BY <1>1, <2>2
  <2> HIDE DEF avail
  <2>4. n \in Nat /\ n >= 1 /\ n <= Len(adding[b]) /\ n <= avail
    BY <2>1, <2>3
  <2> HIDE DEF n
  <2> QED BY <2>1, <2>2, <2>3, <2>4
<1>3. Added(b, n)
  BY DEF BufferInMemory
<1>4. more \in Seq(Byte)
  BY <1>2, Fields
<1>5. data \in Seq(Byte) /\ size \in Nat
  BY <1>2, <1>4, Fields
<1>6. body' = [body EXCEPT ![b].data = @ \o more, ![b].size = @ + n]
  BY DEF BufferInMemory
<1>7. UNCHANGED <<file, open, linked, transfer>>
  BY DEF BufferInMemory
<1> HIDE DEF avail, n, more
<1> DEFINE new == [data |-> data, fd |-> body[b].fd, size |-> size, unlink |-> body[b].unlink,
                   filename |-> body[b].filename]
<1>8. body' = [body EXCEPT ![b] = new]
  <2>1. body' = [body EXCEPT ![b] = [body[b] EXCEPT !.data = data, !.size = size]]
    BY <1>6, ZenonT(40)
  <2>2. [body[b] EXCEPT !.data = data, !.size = size] = new
    <3> HIDE DEF data, size
    <3>1. body[b] \in Object
      BY Fields
    <3> QED BY <3>1, NewData
  <2> QED BY <2>1, <2>2
<1>9. new \in Object
  BY <1>5, Fields DEF Object
<1>10. body' \in [Bodies -> Object] /\ body'[b] = new /\ \A d \in Bodies \ {b} : body'[d] = body[d]
  <2> HIDE DEF new
  <2> QED BY <1>8, <1>9 DEF Types
<1>11. body'[b].data = data /\ body'[b].size = size /\ Kept(b)
  BY <1>10 DEF Kept
<1> QED BY <1>2, <1>3, <1>7, <1>10, <1>11 DEF more

(* A body that grows by n bytes on disk.                                    *)
LEMMA DiskStep ==
  ASSUME Types, NEW b \in Bodies, BufferOnDisk(b)
  PROVE  /\ body[b].fd \in Files /\ Len(body[b].data) = MaxBufferSize
         /\ \E n \in 1..Len(adding[b]) :
              /\ Added(b, n)
              /\ file' \in [Files -> Seq(Byte)]
              /\ file'[body[b].fd] = file[body[b].fd] \o SubSeq(adding[b], 1, n)
              /\ \A f \in Files \ {body[b].fd} : file'[f] = file[f]
              /\ body' \in [Bodies -> Object]
              /\ body'[b].data = body[b].data
              /\ body'[b].size = body[b].size + n
              /\ Kept(b)
              /\ \A d \in Bodies \ {b} : body'[d] = body[d]
              /\ UNCHANGED <<open, linked, transfer>>
<1>1. PICK n \in 1..Len(adding[b]) :
         /\ file' = [file EXCEPT ![body[b].fd] = @ \o SubSeq(adding[b], 1, n)]
         /\ body' = [body EXCEPT ![b].size = @ + n]
         /\ Added(b, n)
  BY DEF BufferOnDisk
<1>2. body[b].fd \in Files /\ Len(body[b].data) = MaxBufferSize /\ UNCHANGED <<open, linked, transfer>>
  BY Fields DEF BufferOnDisk
<1> DEFINE more == SubSeq(adding[b], 1, n)
           bytes == file[body[b].fd] \o more
           size == body[b].size + n
           new == [data |-> body[b].data, fd |-> body[b].fd, size |-> size, unlink |-> body[b].unlink,
                   filename |-> body[b].filename]
<1>3. more \in Seq(Byte) /\ size \in Nat
  BY Fields
<1>4. bytes \in Seq(Byte)
  BY <1>2, <1>3 DEF Types
<1>5. file' \in [Files -> Seq(Byte)] /\ file'[body[b].fd] = bytes
      /\ \A f \in Files \ {body[b].fd} : file'[f] = file[f]
  <2>1. file' = [file EXCEPT ![body[b].fd] = bytes]
    BY <1>1
  <2> HIDE DEF bytes
  <2> QED BY <2>1, <1>2, <1>4 DEF Types
<1>6. body' = [body EXCEPT ![b] = new]
  <2>1. body' = [body EXCEPT ![b] = [body[b] EXCEPT !.size = size]]
    BY <1>1
  <2>2. [body[b] EXCEPT !.size = size] = new
    BY Fields, NewSize
  <2> QED BY <2>1, <2>2
<1>7. new \in Object
  BY <1>3, Fields DEF Object
<1>8. body' \in [Bodies -> Object] /\ body'[b] = new /\ \A d \in Bodies \ {b} : body'[d] = body[d]
  <2> HIDE DEF new
  <2> QED BY <1>6, <1>7 DEF Types
<1>9. body'[b].data = body[b].data /\ body'[b].size = size /\ Kept(b)
  BY <1>8 DEF Kept
<1> QED BY <1>1, <1>2, <1>5, <1>8, <1>9

(* A body that gets a file of its own.                                      *)
LEMMA CreateStep ==
  ASSUME Types, Ownership, NoLeftovers, NEW b \in Bodies, CreateFile(b)
  PROVE  /\ body' \in [Bodies -> Object]
         /\ body'[b].data = body[b].data /\ body'[b].size = body[b].size
         /\ body'[b].fd = UnusedFile /\ body'[b].filename = UnusedFile /\ body'[b].unlink = TRUE
         /\ \A d \in Bodies \ {b} : body'[d] = body[d]
         /\ open' \in [Files -> Nat] /\ open'[UnusedFile] = 1
         /\ \A f \in Files \ {UnusedFile} : open'[f] = open[f]
         /\ linked' = linked \cup {UnusedFile}
         /\ adding[b] # <<>> /\ Len(body[b].data) = MaxBufferSize /\ body[b].fd = None
         /\ UNCHANGED <<file, adding, transfer>>
<1> DEFINE new == [data |-> body[b].data, fd |-> UnusedFile, size |-> body[b].size, unlink |-> TRUE,
                   filename |-> UnusedFile]
<1>1. UnusedFile \in Files
  BY AnUnusedFile
<1>2. body' = [body EXCEPT ![b] = new]
  <2> DEFINE made == [body[b] EXCEPT !.fd = UnusedFile, !.filename = UnusedFile, !.unlink = TRUE]
  <2>1. body' = [body EXCEPT ![b] = made]
    BY DEF CreateFile
  <2>2. body[b] \in Object
    BY Fields
  <2>3. \A own : [body[b] EXCEPT !.fd = UnusedFile, !.filename = UnusedFile, !.unlink = own] =
                   [data |-> body[b].data, fd |-> UnusedFile, size |-> body[b].size, unlink |-> own,
                    filename |-> UnusedFile]
    BY <2>2, NewFile
  <2>4. made = new
    BY <2>3
  <2> HIDE DEF made
  <2> QED BY <2>1, <2>4
<1>3. new \in Object
  BY <1>1, Fields DEF Object
<1>4. body' \in [Bodies -> Object] /\ body'[b] = new /\ \A d \in Bodies \ {b} : body'[d] = body[d]
  <2> HIDE DEF new
  <2> QED BY <1>2, <1>3 DEF Types
<1>5. /\ body'[b].data = body[b].data /\ body'[b].size = body[b].size
      /\ body'[b].fd = UnusedFile /\ body'[b].filename = UnusedFile /\ body'[b].unlink = TRUE
  BY <1>4
<1>6. open' \in [Files -> Nat] /\ open'[UnusedFile] = 1 /\ \A f \in Files \ {UnusedFile} : open'[f] = open[f]
  BY <1>1 DEF CreateFile, Types
<1> QED BY <1>4, <1>5, <1>6 DEF CreateFile

(* A body whose file and bytes are dropped, for nothing or the named file.  *)
Dropped(b) ==
  /\ body' \in [Bodies -> Object]
  /\ \A d \in Bodies \ {b} : body'[d] = body[d]
  /\ body'[b].data = <<>> /\ body'[b].unlink = FALSE
  /\ \/ body'[b].fd = None /\ body'[b].size = 0
     \/ body'[b].fd = NamedFile /\ body'[b].size <= Len(Existing)
  /\ open' \in [Files -> Int]
  /\ \A f \in Files : open'[f] = open[f] + (IF body'[b].fd = f THEN 1 ELSE 0)
                                         - (IF body[b].fd = f THEN 1 ELSE 0)
  /\ linked' = Unlinked(body[b])
  /\ file' = Freed
  /\ Quiet
  /\ UNCHANGED adding

LEMMA NewObjects ==
  /\ Cleared \in Object /\ Cleared.data = <<>> /\ Cleared.unlink = FALSE /\ Cleared.fd = None
  /\ Cleared.size = 0
  /\ \A size \in Nat :
       /\ FromFile(size) \in Object /\ FromFile(size).data = <<>> /\ FromFile(size).unlink = FALSE
       /\ FromFile(size).fd = NamedFile /\ FromFile(size).size = size
<1>1. <<>> \in Seq(Byte) /\ 0 \in Nat
  BY EmptySeq
<1>2. Cleared \in Object
  BY <1>1 DEF Cleared, Object
<1>3. /\ Cleared.data = <<>> /\ Cleared.unlink = FALSE /\ Cleared.fd = None /\ Cleared.size = 0
  BY DEF Cleared
<1>4. ASSUME NEW size \in Nat
      PROVE  /\ FromFile(size) \in Object /\ FromFile(size).data = <<>> /\ FromFile(size).unlink = FALSE
             /\ FromFile(size).fd = NamedFile /\ FromFile(size).size = size
  <2> DEFINE o == [data |-> <<>>, fd |-> NamedFile, size |-> size, unlink |-> FALSE, filename |-> NamedFile]
  <2> DEFINE none(own) == [data |-> <<>>, fd |-> None, size |-> 0, unlink |-> own, filename |-> None]
             one(own) == [data |-> <<>>, fd |-> NamedFile, size |-> 0, unlink |-> own, filename |-> None]
             two(own) == [data |-> <<>>, fd |-> NamedFile, size |-> 0, unlink |-> own, filename |-> NamedFile]
             all(own) == [data |-> <<>>, fd |-> NamedFile, size |-> size, unlink |-> own, filename |-> NamedFile]
  <2>1. FromFile(size) = o
    <3>1. \A own : [none(own) EXCEPT !.fd = NamedFile] = one(own)
      OBVIOUS
    <3>2. \A own : [one(own) EXCEPT !.filename = NamedFile] = two(own)
      OBVIOUS
    <3>3. \A own : [two(own) EXCEPT !.size = size] = all(own)
      OBVIOUS
    <3>4. Cleared = none(FALSE) /\ o = all(FALSE)
      BY DEF Cleared
    <3>5. FromFile(size) =
            [[[Cleared EXCEPT !.fd = NamedFile] EXCEPT !.filename = NamedFile] EXCEPT !.size = size]
      BY DEF FromFile
    <3> HIDE DEF none, one, two, all, o
    <3> QED BY <3>1, <3>2, <3>3, <3>4, <3>5
  <2>2. o \in Object
    BY <1>1, FilesSane DEF Object
  <2> QED BY <2>1, <2>2
<1> QED BY <1>2, <1>3, <1>4

LEMMA ClearDrops ==
  ASSUME Types, NEW b \in Bodies, Clear(b)
  PROVE  Dropped(b) /\ transfer' = [transfer EXCEPT ![b] = Idle]
<1>1. body' = [body EXCEPT ![b] = Cleared] /\ Cleared \in Object
  BY NewObjects DEF Clear
<1>2. body' \in [Bodies -> Object] /\ body'[b] = Cleared /\ \A d \in Bodies \ {b} : body'[d] = body[d]
  BY <1>1 DEF Types
<1>3. /\ body'[b].data = <<>> /\ body'[b].unlink = FALSE /\ body'[b].fd = None /\ body'[b].size = 0
  BY <1>2, NewObjects
<1>4. /\ open' \in [Files -> Int]
      /\ \A f \in Files : open'[f] = IF f = body[b].fd THEN open[f] - 1 ELSE open[f]
  BY DEF Clear, Closed, Types
<1>5. \A f \in Files : open'[f] = open[f] + (IF body'[b].fd = f THEN 1 ELSE 0)
                                          - (IF body[b].fd = f THEN 1 ELSE 0)
  BY <1>3, <1>4, FilesSane DEF Types
<1> QED BY <1>2, <1>3, <1>4, <1>5 DEF Dropped, Clear

LEMMA SetFileDrops ==
  ASSUME Types, NEW b \in Bodies, SetFile(b)
  PROVE  /\ Dropped(b) /\ UNCHANGED transfer
         /\ body'[b].fd = NamedFile /\ body'[b].size \in {0, Len(Existing)}
<1>1. PICK size \in {0, Len(Existing)} : body' = [body EXCEPT ![b] = FromFile(size)]
  BY DEF SetFile
<1>2. size \in Nat /\ size <= Len(Existing)
  BY BytesAssumption, LenProperties
<1>3. body' \in [Bodies -> Object] /\ body'[b] = FromFile(size) /\ \A d \in Bodies \ {b} : body'[d] = body[d]
  BY <1>1, <1>2, NewObjects DEF Types
<1>4. /\ body'[b].data = <<>> /\ body'[b].unlink = FALSE /\ body'[b].fd = NamedFile
      /\ body'[b].size = size
  BY <1>2, <1>3, NewObjects
<1> DEFINE closed == [f \in Files |-> IF f = body[b].fd THEN open[f] - 1 ELSE open[f]]
<1>5. open' = [closed EXCEPT ![NamedFile] = closed[NamedFile] + 1] /\ closed \in [Files -> Int]
  BY DEF SetFile, Closed, Types
<1>6. \A f \in Files : closed[f] = open[f] - (IF body[b].fd = f THEN 1 ELSE 0)
  BY DEF Types
<1> HIDE DEF closed
<1>7. /\ open' \in [Files -> Int]
      /\ \A f \in Files : open'[f] = closed[f] + (IF NamedFile = f THEN 1 ELSE 0)
  BY <1>5, FilesSane
<1>8. \A f \in Files : open'[f] = open[f] + (IF body'[b].fd = f THEN 1 ELSE 0)
                                          - (IF body[b].fd = f THEN 1 ELSE 0)
  BY <1>4, <1>6, <1>7, FilesSane DEF Types
<1> QED BY <1>1, <1>2, <1>3, <1>4, <1>7, <1>8 DEF Dropped, SetFile

(* A copy: another body's fields, with a descriptor of its own or none.     *)
LEMMA CopyStep ==
  ASSUME Types, NEW b \in Bodies, NEW c \in Copies, Copy(b, c)
  PROVE  /\ c \in Bodies /\ c # b /\ c \notin Originals /\ Quiet
         /\ body[c] = Cleared /\ transfer[c] = Idle
         /\ body' \in [Bodies -> Object]
         /\ \A d \in Bodies \ {c} : body'[d] = body[d]
         /\ body'[c].data = body[b].data /\ body'[c].size = body[b].size /\ body'[c].unlink = FALSE
         /\ body'[c].fd \in {body[b].fd, None}
         /\ open' \in [Files -> Nat]
         /\ \A f \in Files : open'[f] = open[f] + (IF body'[c].fd = f THEN 1 ELSE 0)
         /\ UNCHANGED <<file, linked, adding, transfer>>
<1>1. c \in Bodies /\ c # b /\ c \notin Originals
  BY CopiesAssumption DEF Copy, Bodies
<1>2. PICK fd \in {body[b].fd, None} :
        /\ body' = [body EXCEPT ![c] = [body[b] EXCEPT !.fd = fd, !.unlink = FALSE]]
        /\ open' = [f \in Files |-> IF f = fd THEN open[f] + 1 ELSE open[f]]
  BY DEF Copy
<1> DEFINE o == body[b]
           one == [data |-> o.data, fd |-> fd, size |-> o.size, unlink |-> o.unlink, filename |-> o.filename]
           new == [data |-> o.data, fd |-> fd, size |-> o.size, unlink |-> FALSE, filename |-> o.filename]
           made == [o EXCEPT !.fd = fd, !.unlink = FALSE]
<1>3. made = new
  <2>1. [o EXCEPT !.fd = fd] = one
    BY Fields DEF Object
  <2>2. \A own : [one EXCEPT !.unlink = own] =
          [data |-> o.data, fd |-> fd, size |-> o.size, unlink |-> own, filename |-> o.filename]
    OBVIOUS
  <2>3. \A own : [o EXCEPT !.fd = fd, !.unlink = own] = [[o EXCEPT !.fd = fd] EXCEPT !.unlink = own]
    OBVIOUS
  <2> HIDE DEF one, o
  <2>4. \A own : [o EXCEPT !.fd = fd, !.unlink = own] =
          [data |-> o.data, fd |-> fd, size |-> o.size, unlink |-> own, filename |-> o.filename]
    BY <2>1, <2>2, <2>3
  <2> QED BY <2>4
<1>4. new \in Object
  BY Fields DEF Object
<1>5. body' \in [Bodies -> Object] /\ body'[c] = new /\ \A d \in Bodies \ {c} : body'[d] = body[d]
  <2>1. body' = [body EXCEPT ![c] = made]
    BY <1>2
  <2> HIDE DEF made, new
  <2> QED BY <2>1, <1>1, <1>3, <1>4 DEF Types
<1>6. /\ body'[c].data = body[b].data /\ body'[c].size = body[b].size /\ body'[c].unlink = FALSE
      /\ body'[c].fd = fd
  BY <1>5
<1>7. open' \in [Files -> Nat] /\ \A f \in Files : open'[f] = open[f] + (IF body'[c].fd = f THEN 1 ELSE 0)
  BY <1>2, <1>6 DEF Types
<1> QED BY <1>1, <1>5, <1>6, <1>7 DEF Copy

(* The steps of a transfer change nothing else.                             *)
SendStep(b) == Prepare(b) \/ SendRaw(b) \/ SendFile(b) \/ Sent(b) \/ SendFails(b)

LEMMA TransferFields ==
  ASSUME Types, NEW b \in Bodies
  PROVE  /\ transfer[b] \in Progress
         /\ transfer[b].outcome \in {"none", "sending", "sent", "failed"}
         /\ transfer[b].sent \in Seq(Byte) /\ Len(transfer[b].sent) \in Nat
         /\ transfer[b].offset \in Nat /\ transfer[b].remain \in Nat
BY DEF Types, Progress

LEMMA NewSent ==
  ASSUME NEW t \in Progress, NEW sent
  PROVE  [t EXCEPT !.sent = sent] =
           [outcome |-> t.outcome, sent |-> sent, announced |-> t.announced, offset |-> t.offset,
            remain |-> t.remain]
BY DEF Progress

LEMMA NewProgress ==
  ASSUME NEW t \in Progress, NEW sent, NEW offset, NEW remain
  PROVE  [t EXCEPT !.sent = sent, !.offset = offset, !.remain = remain] =
           [outcome |-> t.outcome, sent |-> sent, announced |-> t.announced, offset |-> offset,
            remain |-> remain]
<1> DEFINE one == [outcome |-> t.outcome, sent |-> sent, announced |-> t.announced,
                   offset |-> t.offset, remain |-> t.remain]
           two == [outcome |-> t.outcome, sent |-> sent, announced |-> t.announced,
                   offset |-> offset, remain |-> t.remain]
<1>1. [t EXCEPT !.sent = sent] = one
  BY NewSent
<1>2. [one EXCEPT !.offset = offset] = two
  OBVIOUS
<1>3. [two EXCEPT !.remain = remain] =
        [outcome |-> t.outcome, sent |-> sent, announced |-> t.announced, offset |-> offset,
         remain |-> remain]
  OBVIOUS
<1>4. [t EXCEPT !.sent = sent, !.offset = offset, !.remain = remain] =
        [[[t EXCEPT !.sent = sent] EXCEPT !.offset = offset] EXCEPT !.remain = remain]
  OBVIOUS
<1> HIDE DEF one, two
<1> QED BY <1>1, <1>2, <1>3, <1>4

LEMMA IdleTyped == Idle \in Progress /\ Idle.outcome = "none" /\ Idle.sent = <<>>
BY EmptySeq DEF Idle, Progress

LEMMA SendStepKeeps ==
  ASSUME NEW b \in Bodies, SendStep(b)
  PROVE  Quiet /\ UNCHANGED <<body, file, open, linked, adding>>
BY DEF SendStep, Prepare, SendRaw, SendFile, Sent, SendFails, Sending

LEMMA AsIntIs ==
  ASSUME NEW n \in Nat
  PROVE  AsInt(n) \in Int /\ (n <= MaxInt => AsInt(n) = n)
<1> DEFINE m == 2 * (MaxInt + 1)
<1>1. m \in Nat \ {0} /\ n + MaxInt + 1 \in Nat /\ MaxInt + 1 \in Nat
  BY MaxIntAssumption
<1>2. n <= MaxInt => n + MaxInt + 1 < m
  BY MaxIntAssumption
<1>3. AsInt(n) = ((n + MaxInt + 1) % m) - (MaxInt + 1)
  BY DEF AsInt
<1>4. \A i \in Nat, k \in Nat \ {0} : i % k \in Int /\ (i < k => i % k = i)
  OBVIOUS
<1>5. (n + MaxInt + 1) % m \in Int /\ (n <= MaxInt => (n + MaxInt + 1) % m = n + MaxInt + 1)
  <2> HIDE DEF m
  <2> QED BY <1>1, <1>2, <1>4
<1> HIDE DEF m
<1> QED BY <1>1, <1>3, <1>5, MaxIntAssumption

LEMMA PrepareIs ==
  ASSUME Types, Ownership, NEW b \in Bodies, Prepare(b)
  PROVE  /\ transfer[b].outcome = "none"
         /\ transfer' \in [Bodies -> Progress]
         /\ \A d \in Bodies \ {b} : transfer'[d] = transfer[d]
         /\ transfer'[b].outcome = "sending" /\ transfer'[b].announced \subseteq {AsInt(body[b].size)}
         /\ transfer'[b].remain = SizeOnDisk(body[b]) /\ transfer'[b].offset = 0
         /\ transfer'[b].sent = <<>>
<1>0. PICK announced : /\ announced \subseteq {AsInt(body[b].size)}
                       /\ transfer' = [transfer EXCEPT ![b] = [Idle EXCEPT !.outcome = "sending",
                                                                           !.announced = announced,
                                                                           !.remain = SizeOnDisk(body[b])]]
  BY DEF Prepare
<1> DEFINE new == [outcome |-> "sending", sent |-> <<>>, announced |-> announced, offset |-> 0,
                   remain |-> SizeOnDisk(body[b])]
<1>1. transfer' = [transfer EXCEPT ![b] = new]
  <2> DEFINE one == [outcome |-> "sending", sent |-> <<>>, announced |-> {}, offset |-> 0, remain |-> 0]
             two == [outcome |-> "sending", sent |-> <<>>, announced |-> announced, offset |-> 0,
                     remain |-> 0]
             made == [Idle EXCEPT !.outcome = "sending", !.announced = announced,
                                  !.remain = SizeOnDisk(body[b])]
  <2>1. [Idle EXCEPT !.outcome = "sending"] = one
    BY DEF Idle
  <2>2. [one EXCEPT !.announced = announced] = two
    OBVIOUS
  <2>3. [two EXCEPT !.remain = SizeOnDisk(body[b])] = new
    OBVIOUS
  <2>4. made = [[[Idle EXCEPT !.outcome = "sending"] EXCEPT !.announced = announced]
                  EXCEPT !.remain = SizeOnDisk(body[b])]
    OBVIOUS
  <2>5. transfer' = [transfer EXCEPT ![b] = made]
    BY <1>0
  <2> HIDE DEF one, two, made, new
  <2> QED BY <2>1, <2>2, <2>3, <2>4, <2>5
<1>2. new \in Progress
  <2>1. SizeOnDisk(body[b]) \in Nat
    BY Fields DEF SizeOnDisk, Ownership, Owned
  <2>2. body[b].size \in Nat
    BY Fields
  <2>3. announced \in SUBSET Int
    BY <1>0, <2>2, AsIntIs
  <2> QED BY <2>1, <2>3, EmptySeq DEF Progress
<1>3. transfer' \in [Bodies -> Progress] /\ transfer'[b] = new
      /\ \A d \in Bodies \ {b} : transfer'[d] = transfer[d]
  <2> HIDE DEF new
  <2> QED BY <1>1, <1>2 DEF Types
<1>4. /\ new.outcome = "sending" /\ new.announced = announced
      /\ new.remain = SizeOnDisk(body[b]) /\ new.offset = 0 /\ new.sent = <<>>
  OBVIOUS
<1> HIDE DEF new
<1>5. transfer[b].outcome = "none"
  BY DEF Prepare
<1> QED BY <1>0, <1>3, <1>4, <1>5

LEMMA SendRawIs ==
  ASSUME Types, NEW b \in Bodies, SendRaw(b)
  PROVE  /\ transfer[b].outcome = "sending"
         /\ transfer' \in [Bodies -> Progress]
         /\ \A d \in Bodies \ {b} : transfer'[d] = transfer[d]
         /\ transfer'[b].outcome = "sending"
         /\ transfer'[b].announced = transfer[b].announced
         /\ transfer'[b].remain = transfer[b].remain /\ transfer'[b].offset = transfer[b].offset
         /\ \E n \in 1..Len(body[b].data) - Len(transfer[b].sent) :
              transfer'[b].sent = transfer[b].sent
                \o SubSeq(body[b].data, Len(transfer[b].sent) + 1, Len(transfer[b].sent) + n)
<1> DEFINE t == transfer[b]
           done == Len(t.sent)
<1>1. t.outcome = "sending"
  BY DEF SendRaw, Sending
<1>2. PICK n \in 1..Len(body[b].data) - done :
        transfer' = [transfer EXCEPT ![b].sent = @ \o SubSeq(body[b].data, done + 1, done + n)]
  BY DEF SendRaw
<1> DEFINE sent == t.sent \o SubSeq(body[b].data, done + 1, done + n)
           new == [outcome |-> t.outcome, sent |-> sent, announced |-> t.announced,
                   offset |-> t.offset, remain |-> t.remain]
<1>3. sent \in Seq(Byte)
  BY Fields, TransferFields
<1>4. transfer' = [transfer EXCEPT ![b] = new]
  <2>1. transfer' = [transfer EXCEPT ![b] = [t EXCEPT !.sent = sent]]
    BY <1>2
  <2>2. [t EXCEPT !.sent = sent] = new
    BY TransferFields, NewSent
  <2> QED BY <2>1, <2>2
<1>5. new \in Progress
  BY <1>3, TransferFields DEF Progress
<1>6. transfer' \in [Bodies -> Progress] /\ transfer'[b] = new
      /\ \A d \in Bodies \ {b} : transfer'[d] = transfer[d]
  <2> HIDE DEF new
  <2> QED BY <1>4, <1>5 DEF Types
<1> QED BY <1>1, <1>2, <1>6

LEMMA SendFileIs ==
  ASSUME Types, NEW b \in Bodies, SendFile(b)
  PROVE  /\ transfer[b].outcome = "sending" /\ SentRaw(b)
         /\ body[b].fd # None /\ body[b].fd \in Files /\ file[body[b].fd] \in Seq(Byte)
         /\ transfer' \in [Bodies -> Progress]
         /\ \A d \in Bodies \ {b} : transfer'[d] = transfer[d]
         /\ transfer'[b].outcome = "sending"
         /\ transfer'[b].announced = transfer[b].announced
         /\ \E n \in 1..transfer[b].remain :
              /\ transfer[b].offset + n <= Len(file[body[b].fd])
              /\ \/ n = transfer[b].remain
                 \/ transfer[b].offset + n = Len(file[body[b].fd])
                 \/ ShortSendfile
              /\ transfer'[b].sent = transfer[b].sent
                   \o SubSeq(file[body[b].fd], transfer[b].offset + 1, transfer[b].offset + n)
              /\ transfer'[b].offset = transfer[b].offset + n + n
              /\ transfer'[b].remain = transfer[b].remain - n
<1> DEFINE t == transfer[b]
           bytes == file[body[b].fd]
           most == IF t.remain < OnDiskLeft(b) THEN t.remain ELSE OnDiskLeft(b)
<1>1. t.outcome = "sending" /\ SentRaw(b) /\ body[b].fd # None
  BY DEF SendFile, Sending
<1>2. body[b].fd \in Files /\ bytes \in Seq(Byte) /\ Len(bytes) \in Nat
  BY <1>1, Fields DEF Types
<1>3. PICK n \in 1..most :
        /\ n = most \/ ShortSendfile
        /\ transfer' = [transfer EXCEPT ![b].sent = @ \o SubSeq(bytes, t.offset + 1, t.offset + n),
                                        ![b].offset = @ + n + n,
                                        ![b].remain = @ - n]
  BY DEF SendFile
<1>4. /\ n \in 1..t.remain /\ t.offset + n <= Len(bytes)
      /\ n = t.remain \/ t.offset + n = Len(bytes) \/ ShortSendfile
  <2>1. OnDiskLeft(b) = Len(bytes) - t.offset /\ t.offset \in Nat /\ t.remain \in Nat
    BY TransferFields DEF OnDiskLeft
  <2>2. n \in 1..most /\ (n = most \/ ShortSendfile)
    BY <1>3
  <2> HIDE DEF t, bytes
  <2>3. n \in 1..t.remain /\ t.offset + n <= Len(bytes)
    BY <1>2, <2>1, <2>2
  <2>4. CASE n = most
    BY <1>2, <2>1, <2>4
  <2>5. CASE ShortSendfile
    BY <2>3, <2>5
  <2> QED BY <2>2, <2>3, <2>4, <2>5
<1> DEFINE sent == t.sent \o SubSeq(bytes, t.offset + 1, t.offset + n)
           offset == t.offset + n + n
           remain == t.remain - n
           new == [outcome |-> t.outcome, sent |-> sent, announced |-> t.announced,
                   offset |-> offset, remain |-> remain]
<1>5. sent \in Seq(Byte) /\ offset \in Nat /\ remain \in Nat
  BY <1>2, <1>4, TransferFields, SMTT(30)
<1>6. transfer' = [transfer EXCEPT ![b] = new]
  <2> DEFINE made(x, y, z) == [t EXCEPT !.sent = x, !.offset = y, !.remain = z]
  <2>1. transfer' = [transfer EXCEPT ![b] = made(sent, offset, remain)]
    BY <1>3
  <2>2. t \in Progress
    BY TransferFields
  <2>3. \A x, y, z : made(x, y, z) = [outcome |-> t.outcome, sent |-> x, announced |-> t.announced,
                                      offset |-> y, remain |-> z]
    BY <2>2, NewProgress
  <2> HIDE DEF made
  <2> QED BY <2>1, <2>3
<1>7. new \in Progress
  BY <1>5, TransferFields DEF Progress
<1>8. transfer' \in [Bodies -> Progress] /\ transfer'[b] = new
      /\ \A d \in Bodies \ {b} : transfer'[d] = transfer[d]
  <2> HIDE DEF new
  <2> QED BY <1>6, <1>7 DEF Types
<1>9. /\ transfer'[b].outcome = t.outcome /\ transfer'[b].announced = t.announced
      /\ transfer'[b].sent = sent /\ transfer'[b].offset = offset /\ transfer'[b].remain = remain
  <2> HIDE DEF sent, offset, remain
  <2> QED BY <1>8
<1> QED BY <1>1, <1>2, <1>4, <1>8, <1>9

LEMMA EndIs ==
  ASSUME Types, NEW b \in Bodies, NEW outcome \in {"sent", "failed"}, transfer[b].outcome = "sending",
         transfer' = [transfer EXCEPT ![b].outcome = outcome]
  PROVE  /\ transfer' \in [Bodies -> Progress]
         /\ \A d \in Bodies \ {b} : transfer'[d] = transfer[d]
         /\ transfer'[b].outcome = outcome
         /\ transfer'[b].announced = transfer[b].announced
         /\ transfer'[b].sent = transfer[b].sent
<1> DEFINE t == transfer[b]
           new == [outcome |-> outcome, sent |-> t.sent, announced |-> t.announced,
                   offset |-> t.offset, remain |-> t.remain]
<1>1. [t EXCEPT !.outcome = outcome] = new
  BY TransferFields DEF Progress
<1>2. new \in Progress
  BY TransferFields DEF Progress
<1>3. transfer' = [transfer EXCEPT ![b] = new]
  BY <1>1
<1>4. transfer' \in [Bodies -> Progress] /\ transfer'[b] = new
      /\ \A d \in Bodies \ {b} : transfer'[d] = transfer[d]
  <2> HIDE DEF new
  <2> QED BY <1>2, <1>3 DEF Types
<1> QED BY <1>4

LEMMA SendStepTyped ==
  ASSUME Types, Ownership, NEW b \in Bodies, SendStep(b)
  PROVE  transfer' \in [Bodies -> Progress]
<1>1. CASE Prepare(b)
  BY <1>1, PrepareIs
<1>2. CASE SendRaw(b)
  BY <1>2, SendRawIs
<1>3. CASE SendFile(b)
  BY <1>3, SendFileIs
<1>4. CASE Sent(b)
  BY <1>4, EndIs DEF Sent, Sending
<1>5. CASE SendFails(b)
  BY <1>5, EndIs DEF SendFails, Sending
<1> QED BY <1>1, <1>2, <1>3, <1>4, <1>5 DEF SendStep

-----------------------------------------------------------------------------
(* No descriptor is lost: the inductive invariant.                          *)
LEMMA TypeFromInvariant ==
  ASSUME Types, Ownership
  PROVE  TypeOK
<1>1. ASSUME NEW b \in Bodies
      PROVE  /\ body[b].data \in Seq(Byte) /\ Len(body[b].data) <= MaxBufferSize
             /\ body[b].fd \in Files \cup {None}
             /\ body[b].size \in Nat /\ body[b].size >= Len(body[b].data)
             /\ body[b].unlink \in BOOLEAN
             /\ body[b].filename \in Files \cup {None}
  <2>1. Len(body[b].data) <= MaxBufferSize /\ Len(body[b].data) <= body[b].size
    BY DEF Ownership, Owned
  <2> QED BY <2>1, Fields
<1>2. \A b \in Bodies : /\ transfer[b].outcome \in {"none", "sending", "sent", "failed"}
                        /\ transfer[b].sent \in Seq(Byte)
  BY TransferFields
<1> QED BY <1>1, <1>2 DEF TypeOK, Types

LEMMA InvariantInitially ==
  ASSUME Init
  PROVE  IInv
<1>1. <<>> \in Seq(Byte) /\ Len(<<>>) = 0 /\ Existing \in Seq(Byte)
  BY EmptySeq, BytesAssumption
<1>2. /\ body = [b \in Bodies |-> Cleared] /\ open = [f \in Files |-> 0] /\ linked = {NamedFile}
      /\ adding = [b \in Bodies |-> <<>>] /\ transfer = [b \in Bodies |-> Idle]
      /\ file = [f \in Files |-> IF f = NamedFile THEN Existing ELSE <<>>]
  BY DEF Init
<1>3. Types
  <2>1. body \in [Bodies -> Object]
    BY <1>2, NewObjects
  <2>2. transfer \in [Bodies -> Progress]
    BY <1>2, IdleTyped
  <2>3. file \in [Files -> Seq(Byte)] /\ open \in [Files -> Nat] /\ linked \subseteq Files
        /\ adding \in [Bodies -> Seq(Byte)]
    BY <1>1, <1>2, FilesSane
  <2> QED BY <2>1, <2>2, <2>3 DEF Types
<1>4. \A b \in Bodies : body[b].data = <<>> /\ body[b].unlink = FALSE /\ body[b].fd = None /\ body[b].size = 0
  BY <1>2, NewObjects
<1>5. Ownership
  BY <1>1, <1>4, MaxBufferSizeAssumption DEF Ownership, Owned, SizeOnDisk
<1>6. Fresh
  BY <1>2, FilesSane DEF Fresh
<1>7. Adding
  BY <1>2 DEF Adding
<1>8. NoLeftovers
  <2>1. ASSUME NEW f \in Files PROVE open[f] = Cardinality(Holders(f))
    <3>1. Holders(f) = {}
      BY <1>4, FilesSane DEF Holders
    <3> QED BY <1>2, <3>1, HoldersFinite
  <2>2. Temporary = {}
    BY <1>4 DEF Temporary
  <2> QED BY <1>2, <1>4, <2>1, <2>2, LeftoversAre
<1> QED BY <1>3, <1>5, <1>6, <1>7, <1>8 DEF IInv

(* As long as bodies keep their files, nothing changes for the files.       *)
LEMMA SameFiles ==
  ASSUME NoLeftovers, \A d \in Bodies : Kept(d), UNCHANGED <<open, linked>>
  PROVE  NoLeftovers'
<1>1. \A f : Holders(f)' = Holders(f)
  BY DEF Kept, Holders
<1>2. Temporary' = Temporary
  BY DEF Kept, Temporary
<1>3. \A f \in Files : open'[f] = Cardinality(Holders(f)')
  BY <1>1, LeftoversAre
<1>4. linked' = {NamedFile} \cup Temporary'
  BY <1>2, LeftoversAre
<1>5. \A b, c \in Bodies : body'[b].unlink /\ body'[c].unlink /\ b # c
                             => body'[b].filename # body'[c].filename
  BY LeftoversAre DEF Kept
<1> QED BY <1>3, <1>4, <1>5, LeftoversWillBe

LEMMA SendStepInvariant ==
  ASSUME IInv, NEW b \in Bodies, SendStep(b)
  PROVE  IInv'
<1>1. Quiet /\ UNCHANGED <<body, file, open, linked, adding>>
  BY SendStepKeeps
<1>2. Types'
  BY SendStepTyped, <1>1 DEF IInv, Types
<1>3. Ownership'
  BY <1>1 DEF IInv, Ownership, Owned, SizeOnDisk
<1>4. Fresh'
  BY <1>1 DEF IInv, Fresh
<1>5. Adding'
  BY <1>1 DEF Quiet, Adding
<1>6. NoLeftovers'
  <2>1. \A d \in Bodies : Kept(d)
    BY <1>1 DEF Kept
  <2> QED BY <1>1, <2>1, SameFiles DEF IInv
<1> QED BY <1>2, <1>3, <1>4, <1>5, <1>6 DEF IInv

LEMMA AddBodyInvariant ==
  ASSUME IInv, NEW b \in Bodies, AddBody(b)
  PROVE  IInv'
<1>1. UNCHANGED <<body, file, open, linked, transfer>>
      /\ b \in Originals /\ body[b].fd # NamedFile /\ transfer[b].outcome = "none" /\ Quiet
  BY DEF AddBody
<1>2. PICK bytes \in Fragments : adding' = [adding EXCEPT ![b] = bytes]
  BY DEF AddBody
<1>3. bytes \in Seq(Byte) /\ adding \in [Bodies -> Seq(Byte)]
  BY BytesAssumption DEF IInv, Types
<1>4. adding' \in [Bodies -> Seq(Byte)] /\ \A d \in Bodies \ {b} : adding'[d] = <<>>
  BY <1>1, <1>2, <1>3 DEF Quiet
<1>5. Types'
  BY <1>1, <1>4 DEF IInv, Types
<1>6. Ownership' /\ Fresh'
  BY <1>1 DEF IInv, Ownership, Owned, SizeOnDisk, Fresh
<1>7. Adding'
  BY <1>1, <1>4 DEF Adding
<1>8. NoLeftovers'
  BY <1>1, SameFiles DEF IInv, Kept
<1> QED BY <1>5, <1>6, <1>7, <1>8 DEF IInv

LEMMA GiveUpInvariant ==
  ASSUME IInv, NEW b \in Bodies, BufferOnDiskFails(b)
  PROVE  IInv'
<1>1. UNCHANGED <<body, file, open, linked, transfer>> /\ adding' = [adding EXCEPT ![b] = <<>>]
  BY DEF BufferOnDiskFails
<1>2. adding' \in [Bodies -> Seq(Byte)] /\ \A d \in Bodies : adding'[d] # <<>> => adding[d] # <<>>
  BY <1>1, EmptySeq DEF IInv, Types
<1>3. Types'
  BY <1>1, <1>2 DEF IInv, Types
<1>4. Ownership' /\ Fresh'
  BY <1>1 DEF IInv, Ownership, Owned, SizeOnDisk, Fresh
<1>5. Adding'
  BY <1>1, <1>2 DEF IInv, Adding
<1>6. NoLeftovers'
  BY <1>1, SameFiles DEF IInv, Kept
<1> QED BY <1>3, <1>4, <1>5, <1>6 DEF IInv

LEMMA MemoryStepInvariant ==
  ASSUME IInv, NEW b \in Bodies, BufferInMemory(b)
  PROVE  IInv'
<1> USE DEF IInv
<1>1. PICK n \in 1..Len(adding[b]) :
        /\ Added(b, n)
        /\ body' \in [Bodies -> Object]
        /\ body'[b].data = body[b].data \o SubSeq(adding[b], 1, n)
        /\ body'[b].size = body[b].size + n
        /\ Len(body[b].data) + n <= MaxBufferSize
        /\ Kept(b)
        /\ \A d \in Bodies \ {b} : body'[d] = body[d]
        /\ UNCHANGED <<file, open, linked, transfer>>
  BY MemoryStep
<1>2. /\ adding' \in [Bodies -> Seq(Byte)] /\ Len(SubSeq(adding[b], 1, n)) = n
      /\ SubSeq(adding[b], 1, n) \in Seq(Byte)
      /\ \A d \in Bodies \ {b} : adding'[d] = adding[d]
  BY <1>1, AddedBytes
<1>3. Len(body'[b].data) = Len(body[b].data) + n
  BY <1>1, <1>2, Fields
<1>4. adding[b] # <<>> /\ b \in Originals /\ body[b].fd # NamedFile /\ transfer[b].outcome = "none"
  BY DEF BufferInMemory, Adding
<1>5. \A d \in Bodies : Kept(d)
  BY <1>1 DEF Kept
<1>6. body[b].unlink = FALSE
  <2>1. Len(body[b].data) # MaxBufferSize
    BY DEF BufferInMemory
  <2> QED BY <2>1, Fields DEF Ownership, Owned
<1>7. SizeOnDisk(body'[b]) = SizeOnDisk(body[b])
  BY <1>1, <1>3, Fields DEF SizeOnDisk
<1>8. Types'
  BY <1>1, <1>2 DEF Types
<1>9. Ownership'
  <2>1. ASSUME NEW d \in Bodies, d # b
        PROVE  body'[d] = body[d] /\ SizeOnDisk(body'[d]) = SizeOnDisk(body[d])
    BY <1>1, <2>1
  <2>2. /\ Len(body'[b].data) <= MaxBufferSize
        /\ Len(body'[b].data) <= body'[b].size
    BY <1>1, <1>3, Fields DEF Ownership, Owned
  <2>3. body'[b].unlink = FALSE /\ body'[b].fd = body[b].fd
    BY <1>1, <1>6 DEF Kept
  <2> QED BY <1>1, <1>6, <1>7, <2>1, <2>2, <2>3 DEF Ownership, Owned
<1>10. Fresh'
  BY <1>1 DEF Fresh
<1>11. Adding'
  BY <1>1, <1>2, <1>4, <1>5 DEF Adding, Kept
<1>12. NoLeftovers'
  BY <1>1, <1>5, SameFiles
<1> QED BY <1>8, <1>9, <1>10, <1>11, <1>12

LEMMA DiskStepInvariant ==
  ASSUME IInv, NEW b \in Bodies, BufferOnDisk(b)
  PROVE  IInv'
<1> USE DEF IInv
<1>1. body[b].fd \in Files /\ Len(body[b].data) = MaxBufferSize
  BY DiskStep
<1>2. PICK n \in 1..Len(adding[b]) :
        /\ Added(b, n)
        /\ file' \in [Files -> Seq(Byte)]
        /\ file'[body[b].fd] = file[body[b].fd] \o SubSeq(adding[b], 1, n)
        /\ \A f \in Files \ {body[b].fd} : file'[f] = file[f]
        /\ body' \in [Bodies -> Object]
        /\ body'[b].data = body[b].data
        /\ body'[b].size = body[b].size + n
        /\ Kept(b)
        /\ \A d \in Bodies \ {b} : body'[d] = body[d]
        /\ UNCHANGED <<open, linked, transfer>>
  BY DiskStep
<1>3. /\ adding' \in [Bodies -> Seq(Byte)] /\ Len(SubSeq(adding[b], 1, n)) = n
      /\ SubSeq(adding[b], 1, n) \in Seq(Byte)
      /\ \A d \in Bodies \ {b} : adding'[d] = adding[d]
  BY <1>2, AddedBytes
<1>4. /\ file[body[b].fd] \in Seq(Byte)
      /\ Len(file'[body[b].fd]) = Len(file[body[b].fd]) + n
  BY <1>1, <1>2, <1>3 DEF Types
<1>5. adding[b] # <<>> /\ b \in Originals /\ body[b].fd # NamedFile /\ transfer[b].outcome = "none"
  BY DEF BufferOnDisk, Adding
<1>6. body[b].unlink
  BY <1>1, <1>5, FilesSane DEF Ownership, Owned
<1>7. body[b].fd \in linked /\ body[b].fd # NamedFile /\ body[b].filename = body[b].fd
  <2>1. body[b].filename = body[b].fd /\ body[b].fd # NamedFile
    BY <1>6 DEF Ownership, Owned
  <2>2. body[b].filename \in Temporary
    BY <1>6 DEF Temporary
  <2> QED BY <2>1, <2>2, LeftoversAre
<1>8. \A d \in Bodies : Kept(d)
  BY <1>2 DEF Kept
<1>9. SizeOnDisk(body'[b]) = SizeOnDisk(body[b]) + n
  BY <1>2, Fields DEF SizeOnDisk
<1>10. Types'
  BY <1>2, <1>3 DEF Types
<1>11. Ownership'
  <2>1. ASSUME NEW d \in Bodies, d # b
        PROVE  body'[d] = body[d] /\ SizeOnDisk(body'[d]) = SizeOnDisk(body[d])
    BY <1>2, <2>1
  <2>2. ASSUME NEW d \in Bodies, d # b, body[d].unlink
        PROVE  body[d].fd # None /\ file'[body[d].fd] = file[body[d].fd]
    <3>1. body[d].fd = body[d].filename /\ body[d].fd # None
      BY <2>2 DEF Ownership, Owned
    <3>2. body[d].filename # body[b].filename
      BY <1>6, <2>2, LeftoversAre
    <3> QED BY <1>2, <1>7, <3>1, <3>2, Fields
  <2>3. ASSUME NEW d \in Bodies, d # b, body[d].fd # None
        PROVE  SizeOnDisk(body[d]) <= Len(file'[body[d].fd])
    <3>1. body[d].fd \in Files
      BY <2>3, Fields
    <3>2. SizeOnDisk(body[d]) <= Len(file[body[d].fd]) /\ SizeOnDisk(body[d]) \in Int
      BY <2>3, Fields DEF Ownership, Owned
    <3>3. CASE body[d].fd = body[b].fd
      BY <1>4, <3>2, <3>3
    <3>4. CASE body[d].fd # body[b].fd
      BY <1>2, <3>1, <3>2, <3>4
    <3> QED BY <3>3, <3>4
  <2>4. /\ Len(body'[b].data) = MaxBufferSize
        /\ Len(body'[b].data) <= body'[b].size
        /\ body'[b].unlink /\ body'[b].filename = body'[b].fd /\ body'[b].fd = body[b].fd
        /\ SizeOnDisk(body'[b]) = Len(file'[body[b].fd])
    <3>1. SizeOnDisk(body[b]) = Len(file[body[b].fd]) /\ Len(body[b].data) <= body[b].size
      BY <1>6 DEF Ownership, Owned
    <3>2. /\ body'[b].unlink /\ body'[b].filename = body'[b].fd /\ body'[b].fd = body[b].fd
      BY <1>6, <1>8 DEF Kept, Ownership, Owned
    <3>3. /\ Len(body'[b].data) = MaxBufferSize
          /\ Len(body'[b].data) <= body'[b].size
      BY <1>1, <1>2, <1>6, <3>1, Fields, SMTT(30) DEF Kept
    <3>4. SizeOnDisk(body'[b]) = Len(file'[body[b].fd])
      BY <1>2, <1>4, <1>6, <1>7, <1>9, <3>1, Fields, SMTT(30)
    <3> QED BY <3>2, <3>3, <3>4
  <2>5. /\ body'[b].fd \notin {None, NamedFile}
        /\ Len(body'[b].data) <= MaxBufferSize
        /\ SizeOnDisk(body'[b]) <= Len(file'[body'[b].fd])
    BY <1>1, <1>2, <1>4, <1>7, <2>4, FilesSane, MaxBufferSizeAssumption
  <2> HIDE DEF IInv
  <2>6. ASSUME NEW d \in Bodies, d # b PROVE Owned(d)'
    BY <2>1, <2>2, <2>3, <2>6 DEF Ownership, Owned, IInv
  <2> QED BY <1>5, <2>4, <2>5, <2>6 DEF Ownership, Owned
<1>12. Fresh'
  <2>1. file'[NamedFile] = file[NamedFile]
    BY <1>2, <1>7, FilesSane
  <2>2. \A f \in Files : f \notin linked => file'[f] = file[f]
    BY <1>2, <1>7
  <2> QED BY <1>2, <2>1, <2>2 DEF Fresh
<1>13. Adding'
  BY <1>2, <1>3, <1>5, <1>8 DEF Adding, Kept
<1>14. NoLeftovers'
  BY <1>2, <1>8, SameFiles
<1> QED BY <1>10, <1>11, <1>12, <1>13, <1>14

LEMMA CreateFileInvariant ==
  ASSUME IInv, NEW b \in Bodies, CreateFile(b)
  PROVE  IInv'
<1> USE DEF IInv
<1> DEFINE u == UnusedFile
<1>1. /\ body' \in [Bodies -> Object]
      /\ body'[b].data = body[b].data /\ body'[b].size = body[b].size
      /\ body'[b].fd = u /\ body'[b].filename = u /\ body'[b].unlink = TRUE
      /\ \A d \in Bodies \ {b} : body'[d] = body[d]
      /\ open' \in [Files -> Nat] /\ open'[u] = 1
      /\ \A f \in Files \ {u} : open'[f] = open[f]
      /\ linked' = linked \cup {u}
      /\ adding[b] # <<>> /\ Len(body[b].data) = MaxBufferSize /\ body[b].fd = None
      /\ UNCHANGED <<file, adding, transfer>>
  BY CreateStep
<1>2. u \in Files /\ u \notin linked /\ u # None /\ u # NamedFile /\ open[u] = 0
  BY AnUnusedFile
<1>3. file[u] = <<>> /\ Len(file[u]) = 0
  BY <1>2, EmptySeq DEF Fresh
<1>4. b \in Originals /\ transfer[b].outcome = "none" /\ body[b].unlink = FALSE
      /\ SizeOnDisk(body[b]) = 0
  <2>1. b \in Originals /\ transfer[b].outcome = "none"
    BY <1>1 DEF Adding
  <2> QED BY <1>1, <2>1, Fields DEF Ownership, Owned
<1> HIDE DEF u
<1>5. Types'
  BY <1>1, <1>2 DEF Types
<1>6. Ownership'
  <2>1. SizeOnDisk(body'[b]) = 0
    BY <1>1, <1>4 DEF SizeOnDisk
  <2>2. \A d \in Bodies \ {b} : SizeOnDisk(body'[d]) = SizeOnDisk(body[d])
    BY <1>1
  <2> QED BY <1>1, <1>2, <1>3, <1>4, <2>1, <2>2 DEF Ownership, Owned
<1>7. Fresh'
  BY <1>1, <1>2 DEF Fresh
<1>8. Adding'
  BY <1>1, <1>2 DEF Adding
<1>9. NoLeftovers'
  <2>1. ASSUME NEW f \in Files PROVE open'[f] = Cardinality(Holders(f)')
    <3>1. Cardinality(Holders(f)') = open[f] + (IF body'[b].fd = f THEN 1 ELSE 0)
                                             - (IF body[b].fd = f THEN 1 ELSE 0)
      BY <1>1, HoldersOf, LeftoversAre
    <3> QED BY <1>1, <1>2, <3>1, FilesSane DEF Types
  <2>2. linked' = {NamedFile} \cup Temporary'
    <3>1. Temporary' = Temporary \cup {u}
      BY <1>1, <1>4 DEF Temporary
    <3> QED BY <1>1, <3>1, LeftoversAre
  <2>3. \A c, d \in Bodies : body'[c].unlink /\ body'[d].unlink /\ c # d
                               => body'[c].filename # body'[d].filename
    <3>1. \A d \in Bodies : body[d].unlink => body[d].filename # u
      BY <1>2, LeftoversAre DEF Temporary
    <3> QED BY <1>1, <3>1, LeftoversAre
  <2> QED BY <2>1, <2>2, <2>3, LeftoversWillBe
<1> QED BY <1>5, <1>6, <1>7, <1>8, <1>9

(* A file that a body has a descriptor of, and the named one, are not freed. *)
LEMMA HeldFilesStay ==
  ASSUME IInv, NEW b \in Bodies, Dropped(b)
  PROVE  /\ NoLeftovers' /\ open' \in [Files -> Nat]
         /\ file'[NamedFile] = file[NamedFile]
         /\ \A d \in Bodies \ {b} : body[d].fd # None => file'[body[d].fd] = file[body[d].fd]
<1> USE DEF IInv
<1>1. \A f \in Files : open'[f] = Cardinality(Holders(f)')
  <2> TAKE f \in Files
  <2>1. Cardinality(Holders(f)') = open[f] + (IF body'[b].fd = f THEN 1 ELSE 0)
                                           - (IF body[b].fd = f THEN 1 ELSE 0)
    BY HoldersOf, LeftoversAre DEF Dropped
  <2> QED BY <2>1 DEF Dropped
<1>2. body'[b].unlink = FALSE /\ \A d \in Bodies \ {b} : body'[d] = body[d]
  BY DEF Dropped
<1>3. linked' = {NamedFile} \cup Temporary'
  <2>1. CASE body[b].unlink
    <3>1. linked' = linked \ {body[b].filename} /\ body[b].filename # NamedFile
      BY <2>1 DEF Dropped, Unlinked, Ownership, Owned
    <3>2. Temporary' = Temporary \ {body[b].filename}
      BY <1>2, <2>1, LeftoversAre DEF Temporary
    <3> QED BY <3>1, <3>2, LeftoversAre
  <2>2. CASE ~body[b].unlink
    <3>1. linked' = linked
      BY <2>2 DEF Dropped, Unlinked
    <3>2. Temporary' = Temporary
      BY <1>2, <2>2 DEF Temporary
    <3> QED BY <3>1, <3>2, LeftoversAre
  <2> QED BY <2>1, <2>2
<1>4. NoLeftovers'
  BY <1>1, <1>2, <1>3, LeftoversAre, LeftoversWillBe
<1>5. open' \in [Files -> Nat]
  <2>1. \A f \in Files : Cardinality(Holders(f)') \in Nat
    <3> TAKE f \in Files
    <3>1. Holders(f)' \in SUBSET Bodies
      BY DEF Holders
    <3> QED BY <3>1, BodiesFinite, FS_Subset, FS_CardinalityType
  <2> QED BY <1>1, <2>1 DEF Dropped
<1>6. \A f \in Files : file'[f] = IF open'[f] = 0 /\ f \notin linked' THEN <<>> ELSE file[f]
  BY DEF Dropped, Freed
<1>7. file'[NamedFile] = file[NamedFile]
  BY <1>3, <1>6, FilesSane
<1>8. ASSUME NEW d \in Bodies \ {b}, body[d].fd # None
      PROVE  file'[body[d].fd] = file[body[d].fd]
  <2>1. PICK f \in Files : f = body[d].fd
    BY <1>8, Fields
  <2>2. open'[f] # 0
    <3>1. d \in Holders(f)' /\ Holders(f)' \in SUBSET Bodies
      BY <1>2, <2>1 DEF Holders
    <3>2. IsFiniteSet(Holders(f)')
      BY <3>1, BodiesFinite, FS_Subset
    <3>3. \A S : IsFiniteSet(S) /\ d \in S => Cardinality(S) # 0
      BY FS_EmptySet
    <3>4. Cardinality(Holders(f)') # 0
      BY <3>1, <3>2, <3>3
    <3> QED BY <1>1, <2>1, <3>4
  <2> QED BY <1>6, <2>1, <2>2
<1> QED BY <1>4, <1>5, <1>7, <1>8

LEMMA DropInvariant ==
  ASSUME IInv, NEW b \in Bodies, Dropped(b), transfer' \in [Bodies -> Progress]
  PROVE  IInv'
<1> USE DEF IInv
<1>1. /\ NoLeftovers' /\ open' \in [Files -> Nat]
      /\ file'[NamedFile] = file[NamedFile]
      /\ \A d \in Bodies \ {b} : body[d].fd # None => file'[body[d].fd] = file[body[d].fd]
  BY HeldFilesStay
<1>2. /\ body' \in [Bodies -> Object]
      /\ \A d \in Bodies \ {b} : body'[d] = body[d]
      /\ body'[b].data = <<>> /\ body'[b].unlink = FALSE
      /\ \/ body'[b].fd = None /\ body'[b].size = 0
         \/ body'[b].fd = NamedFile /\ body'[b].size <= Len(Existing)
      /\ Quiet /\ UNCHANGED adding
  BY DEF Dropped
<1>3. file' \in [Files -> Seq(Byte)]
  BY EmptySeq DEF Dropped, Freed, Types
<1>4. linked' \subseteq Files
  BY DEF Dropped, Unlinked, Types
<1>5. Types'
  BY <1>1, <1>2, <1>3, <1>4 DEF Types
<1>6. Ownership'
  <2>1. ASSUME NEW d \in Bodies, d # b PROVE Owned(d)'
    <3>1. body'[d] = body[d] /\ SizeOnDisk(body'[d]) = SizeOnDisk(body[d])
      BY <1>2, <2>1
    <3>2. body[d].fd # None => file'[body[d].fd] = file[body[d].fd]
      BY <1>1, <2>1
    <3> QED BY <3>1, <3>2 DEF Ownership, Owned
  <2>2. Len(body'[b].data) = 0 /\ body'[b].size \in Nat /\ SizeOnDisk(body'[b]) = body'[b].size
    <3>1. body'[b].size \in Nat
      BY <1>2, ObjectFields
    <3> QED BY <1>2, <3>1, EmptySeq DEF SizeOnDisk
  <2>3. body'[b].fd # None => SizeOnDisk(body'[b]) <= Len(file'[body'[b].fd])
    BY <1>1, <1>2, <2>2, FilesSane DEF Fresh
  <2> QED BY <1>2, <2>1, <2>2, <2>3, FilesSane, MaxBufferSizeAssumption DEF Ownership, Owned
<1>7. Fresh'
  BY <1>1, FilesSane DEF Fresh, Dropped, Freed
<1>8. Adding'
  BY <1>2 DEF Quiet, Adding
<1> QED BY <1>1, <1>5, <1>6, <1>7, <1>8

LEMMA CopyInvariant ==
  ASSUME IInv, NEW b \in Bodies, NEW c \in Copies, Copy(b, c)
  PROVE  IInv'
<1> USE DEF IInv
<1>1. /\ c \in Bodies /\ c # b /\ c \notin Originals /\ Quiet
      /\ body[c] = Cleared /\ transfer[c] = Idle
      /\ body' \in [Bodies -> Object]
      /\ \A d \in Bodies \ {c} : body'[d] = body[d]
      /\ body'[c].data = body[b].data /\ body'[c].size = body[b].size /\ body'[c].unlink = FALSE
      /\ body'[c].fd \in {body[b].fd, None}
      /\ open' \in [Files -> Nat]
      /\ \A f \in Files : open'[f] = open[f] + (IF body'[c].fd = f THEN 1 ELSE 0)
      /\ UNCHANGED <<file, linked, adding, transfer>>
  BY CopyStep
<1>2. body[c].fd = None /\ body[c].unlink = FALSE
  BY <1>1, NewObjects
<1>3. Types'
  BY <1>1 DEF Types
<1>4. Ownership'
  <2>1. SizeOnDisk(body'[c]) = SizeOnDisk(body[b])
    BY <1>1 DEF SizeOnDisk
  <2>2. \A d \in Bodies \ {c} : SizeOnDisk(body'[d]) = SizeOnDisk(body[d])
    BY <1>1
  <2>3. \A d \in Bodies \ {c} : body'[d] = body[d]
    BY <1>1
  <2>4. /\ Len(body'[c].data) <= MaxBufferSize
        /\ Len(body'[c].data) <= body'[c].size
        /\ body'[c].fd # None => SizeOnDisk(body'[c]) <= Len(file[body'[c].fd])
    BY <1>1, <2>1 DEF Ownership, Owned
  <2>5. file' = file /\ body'[c].unlink = FALSE /\ c \notin Originals
    BY <1>1
  <2> HIDE DEF IInv
  <2>6. Ownership
    BY DEF IInv
  <2>7. ASSUME NEW d \in Bodies, d # c PROVE Owned(d)'
    BY <2>2, <2>3, <2>5, <2>6, <2>7 DEF Ownership, Owned
  <2>8. Owned(c)'
    BY <2>4, <2>5 DEF Owned
  <2> QED BY <2>7, <2>8 DEF Ownership
<1>5. Fresh'
  <2>1. ASSUME NEW f \in Files, open'[f] = 0 PROVE open[f] = 0
    <3>1. open[f] \in Nat /\ open'[f] = open[f] + (IF body'[c].fd = f THEN 1 ELSE 0)
      BY <1>1 DEF Types
    <3> QED BY <2>1, <3>1
  <2> QED BY <1>1, <2>1 DEF Fresh
<1>6. Adding'
  BY <1>1 DEF Quiet, Adding
<1>7. NoLeftovers'
  <2>1. ASSUME NEW f \in Files PROVE open'[f] = Cardinality(Holders(f)')
    <3>1. Cardinality(Holders(f)') = open[f] + (IF body'[c].fd = f THEN 1 ELSE 0)
                                             - (IF body[c].fd = f THEN 1 ELSE 0)
      BY <1>1, HoldersOf, LeftoversAre
    <3> QED BY <1>1, <1>2, <3>1, FilesSane DEF Types
  <2>2. Temporary' = Temporary
    BY <1>1, <1>2 DEF Temporary
  <2>3. \A x, y \in Bodies : body'[x].unlink /\ body'[y].unlink /\ x # y
                               => body'[x].filename # body'[y].filename
    BY <1>1, LeftoversAre
  <2> QED BY <1>1, <2>1, <2>2, <2>3, LeftoversAre, LeftoversWillBe
<1> QED BY <1>3, <1>4, <1>5, <1>6, <1>7

LEMMA InvariantKept ==
  ASSUME IInv, [Next]_vars
  PROVE  IInv'
<1>1. CASE UNCHANGED vars
  BY <1>1 DEF vars, IInv, Types, Ownership, Owned, SizeOnDisk, Fresh, Adding, NoLeftovers
<1>2. ASSUME NEW b \in Bodies, AddBody(b) PROVE IInv'
  BY <1>2, AddBodyInvariant
<1>3. ASSUME NEW b \in Bodies, BufferInMemory(b) PROVE IInv'
  BY <1>3, MemoryStepInvariant
<1>4. ASSUME NEW b \in Bodies, CreateFile(b) PROVE IInv'
  BY <1>4, CreateFileInvariant
<1>5. ASSUME NEW b \in Bodies, BufferOnDisk(b) PROVE IInv'
  BY <1>5, DiskStepInvariant
<1>6. ASSUME NEW b \in Bodies, BufferOnDiskFails(b) PROVE IInv'
  BY <1>6, GiveUpInvariant
<1>7. ASSUME NEW b \in Bodies, Clear(b) PROVE IInv'
  <2>1. Dropped(b) /\ transfer' = [transfer EXCEPT ![b] = Idle]
    BY <1>7, ClearDrops DEF IInv
  <2>2. transfer' \in [Bodies -> Progress]
    BY <2>1, IdleTyped DEF IInv, Types
  <2> QED BY <2>1, <2>2, DropInvariant
<1>8. ASSUME NEW b \in Bodies, SetFile(b) PROVE IInv'
  <2>1. Dropped(b) /\ transfer' \in [Bodies -> Progress]
    BY <1>8, SetFileDrops DEF IInv, Types
  <2> QED BY <2>1, DropInvariant
<1>9. ASSUME NEW b \in Bodies, NEW c \in Copies, Copy(b, c) PROVE IInv'
  BY <1>9, CopyInvariant
<1>10. ASSUME NEW b \in Bodies, SendStep(b) PROVE IInv'
  BY <1>10, SendStepInvariant
<1> QED
  BY <1>1, <1>2, <1>3, <1>4, <1>5, <1>6, <1>7, <1>8, <1>9, <1>10 DEF Next, SendStep

LEMMA Invariant == Spec => []IInv
<1>1. IInv /\ [Next]_vars => IInv'
  BY InvariantKept
<1> QED BY <1>1, InvariantInitially, PTL DEF Spec

(* The objects, the files and the bytes that are underway keep their form:  *)
(* no more than MAX_BUFFER_SIZE bytes of a body are in memory, and it has   *)
(* no negative part on disk.                                                *)
THEOREM TypeCorrect == Spec => []TypeOK
<1>1. IInv => TypeOK
  BY TypeFromInvariant DEF IInv
<1> QED BY <1>1, Invariant, PTL

(* Whatever is cleared, copied, given a file or fails: each descriptor is   *)
(* some body's, and each name in /tmp that of the one body that will unlink *)
(* it.                                                                      *)
THEOREM NothingLeftBehind == Spec => []NoLeftovers
<1>1. IInv => NoLeftovers
  BY DEF IInv
<1> QED BY <1>1, Invariant, PTL

-----------------------------------------------------------------------------
(* Sequences: what comes first, and what is put behind it.                  *)
LEMMA FirstOfConcat ==
  ASSUME NEW S, NEW s \in Seq(S), NEW t \in Seq(S), NEW n \in 0..Len(s)
  PROVE  SubSeq(s \o t, 1, n) = SubSeq(s, 1, n)
<1>1. CASE n = 0
  BY <1>1, SubSeqEmpty
<1>2. CASE n # 0
  <2>1. 1 \in 1..Len(s) /\ n \in 1..Len(s)
    BY <1>2, LenProperties
  <2> QED BY <2>1, SubSeqOfConcat1
<1> QED BY <1>1, <1>2

LEMMA FirstThenNext ==
  ASSUME NEW S, NEW s \in Seq(S), NEW m \in 0..Len(s), NEW n \in m..Len(s)
  PROVE  SubSeq(s, 1, m) \o SubSeq(s, m + 1, n) = SubSeq(s, 1, n)
<1>1. 1 \in 1..Len(s) + 1 /\ m \in 1 - 1..Len(s) /\ n \in m..Len(s)
  BY LenProperties
<1> QED BY <1>1, ConcatAdjacentSubSeq

LEMMA Behind ==
  ASSUME NEW S, NEW s \in Seq(S), NEW t \in Seq(S)
  PROVE  /\ Len(s) \in 0..Len(s \o t)
         /\ \A u \in Seq(S) : (s \o t) \o u = s \o (t \o u)
BY ConcatAssociative, ConcatProperties, LenProperties

(* What is in a body.                                                       *)
LEMMA ContentIs ==
  ASSUME Types, Ownership, NEW b \in Bodies
  PROVE  /\ Content(body[b]) \in Seq(Byte)
         /\ SizeOnDisk(body[b]) \in Nat
         /\ body[b].fd = None => Content(body[b]) = body[b].data
         /\ body[b].fd # None =>
              /\ file[body[b].fd] \in Seq(Byte)
              /\ SizeOnDisk(body[b]) \in 0..Len(file[body[b].fd])
              /\ OnDisk(body[b]) = SubSeq(file[body[b].fd], 1, SizeOnDisk(body[b]))
              /\ OnDisk(body[b]) \in Seq(Byte)
              /\ Len(OnDisk(body[b])) = SizeOnDisk(body[b])
              /\ Len(Content(body[b])) = body[b].size
<1>1. SizeOnDisk(body[b]) \in Nat
  BY Fields DEF SizeOnDisk, Ownership, Owned
<1>2. CASE body[b].fd = None
  <2>1. Content(body[b]) = body[b].data \o <<>>
    BY <1>2 DEF Content, OnDisk
  <2>2. Content(body[b]) = body[b].data
    BY <2>1, Fields, ConcatEmptySeq
  <2> QED BY <1>1, <1>2, <2>2, Fields
<1>3. CASE body[b].fd # None
  <2> DEFINE bytes == file[body[b].fd]
             n == SizeOnDisk(body[b])
  <2>1. bytes \in Seq(Byte) /\ Len(bytes) \in Nat /\ n \in 0..Len(bytes)
    <3>1. body[b].fd \in Files
      BY <1>3, Fields
    <3>2. n <= Len(bytes)
      BY <1>3 DEF Ownership, Owned
    <3>3. bytes \in Seq(Byte) /\ Len(bytes) \in Nat
      BY <3>1 DEF Types
    <3> QED BY <1>1, <3>2, <3>3
  <2>2. OnDisk(body[b]) = SubSeq(bytes, 1, IF n < Len(bytes) THEN n ELSE Len(bytes))
    BY <1>3 DEF OnDisk
  <2> HIDE DEF n, bytes
  <2>3. OnDisk(body[b]) = SubSeq(bytes, 1, n)
    BY <2>1, <2>2
  <2>4. OnDisk(body[b]) \in Seq(Byte) /\ Len(OnDisk(body[b])) = n
    BY <2>1, <2>3
  <2>5. /\ Content(body[b]) \in Seq(Byte)
        /\ Len(Content(body[b])) = Len(body[b].data) + n
    <3>1. body[b].data \in Seq(Byte)
      BY Fields
    <3>2. Content(body[b]) = body[b].data \o OnDisk(body[b])
      BY DEF Content
    <3> QED BY <2>4, <3>1, <3>2, ConcatProperties
  <2>6. Len(body[b].data) + n = body[b].size
    BY Fields DEF SizeOnDisk, n
  <2> QED BY <1>1, <1>3, <2>1, <2>3, <2>4, <2>5, <2>6 DEF n, bytes
<1> QED BY <1>2, <1>3

(* A body that keeps its bytes in memory, its size and its descriptor is    *)
(* not changed by what others write behind what it has in the file.         *)
LEMMA SameContent ==
  ASSUME Types, Ownership, Types', Ownership', NEW b \in Bodies,
         body'[b].data = body[b].data, body'[b].size = body[b].size, body'[b].fd = body[b].fd,
         body[b].fd # None =>
           \E more \in Seq(Byte) : file'[body[b].fd] = file[body[b].fd] \o more
  PROVE  Content(body[b])' = Content(body[b]) /\ SizeOnDisk(body'[b]) = SizeOnDisk(body[b])
<1>1. SizeOnDisk(body'[b]) = SizeOnDisk(body[b])
  BY DEF SizeOnDisk
<1>2. CASE body[b].fd = None
  BY <1>1, <1>2 DEF Content, OnDisk
<1>3. CASE body[b].fd # None
  <2> DEFINE bytes == file[body[b].fd]
             n == SizeOnDisk(body[b])
  <2>1. bytes \in Seq(Byte) /\ n \in 0..Len(bytes) /\ Len(bytes) \in Nat
    BY <1>3, ContentIs, LenProperties
  <2>2. PICK more \in Seq(Byte) : file'[body[b].fd] = bytes \o more
    BY <1>3
  <2>3. SubSeq(bytes \o more, 1, n) = SubSeq(bytes, 1, n)
    BY <2>1, FirstOfConcat
  <2>4. Len(bytes \o more) = Len(bytes) + Len(more) /\ Len(more) \in Nat
    BY <2>1, <2>2
  <2>5. OnDisk(body[b]) = SubSeq(bytes, 1, IF n < Len(bytes) THEN n ELSE Len(bytes))
    BY <1>3 DEF OnDisk
  <2>6. OnDisk(body[b])' =
          SubSeq(bytes \o more, 1, IF n < Len(bytes \o more) THEN n ELSE Len(bytes \o more))
    BY <1>1, <1>3, <2>2 DEF OnDisk
  <2> HIDE DEF bytes, n
  <2>7. OnDisk(body[b])' = OnDisk(body[b])
    <3>1. OnDisk(body[b]) = SubSeq(bytes, 1, n)
      BY <2>1, <2>5
    <3>2. OnDisk(body[b])' = SubSeq(bytes \o more, 1, n)
      BY <2>1, <2>4, <2>6
    <3> QED BY <2>3, <3>1, <3>2
  <2> QED BY <1>1, <2>7 DEF Content
<1> QED BY <1>2, <1>3

-----------------------------------------------------------------------------
(* What the steps make of a body as a sequence of bytes.                    *)
SameBody(d) ==
  /\ body'[d].data = body[d].data /\ body'[d].size = body[d].size /\ body'[d].fd = body[d].fd
  /\ Content(body[d])' = Content(body[d]) /\ SizeOnDisk(body'[d]) = SizeOnDisk(body[d])

LEMMA NothingBehind ==
  ASSUME NEW s \in Seq(Byte)
  PROVE  \E more \in Seq(Byte) : s = s \o more
<1>1. <<>> \in Seq(Byte) /\ s = s \o <<>>
  BY EmptySeq, ConcatEmptySeq
<1> QED BY <1>1

(* Bodies whose fields and file are as they were.                           *)
LEMMA Untouched ==
  ASSUME IInv, IInv', NEW d \in Bodies, body'[d] = body[d],
         body[d].fd # None => file'[body[d].fd] = file[body[d].fd]
  PROVE  SameBody(d)
<1>1. body[d].fd # None => \E more \in Seq(Byte) : file'[body[d].fd] = file[body[d].fd] \o more
  <2>1. ASSUME body[d].fd # None
        PROVE  \E more \in Seq(Byte) : file'[body[d].fd] = file[body[d].fd] \o more
    <3>1. file[body[d].fd] \in Seq(Byte)
      BY <2>1, ContentIs DEF IInv
    <3> QED BY <2>1, <3>1, NothingBehind
  <2> QED BY <2>1
<1>2. body'[d].data = body[d].data /\ body'[d].size = body[d].size /\ body'[d].fd = body[d].fd
  OBVIOUS
<1> QED BY <1>1, <1>2, SameContent DEF IInv, SameBody

LEMMA UntouchedAll ==
  ASSUME IInv, IInv', UNCHANGED <<body, file>>
  PROVE  \A d \in Bodies : SameBody(d)
BY Untouched

(* buffer_in_memory puts bytes behind those that are there: all of them are *)
(* in memory.                                                               *)
LEMMA MemoryContent ==
  ASSUME IInv, IInv', NEW b \in Bodies, BufferInMemory(b)
  PROVE  /\ transfer[b].outcome = "none" /\ UNCHANGED transfer
         /\ \A d \in Bodies \ {b} : SameBody(d)
         /\ \E n \in 1..Len(adding[b]) :
              /\ Added(b, n)
              /\ Content(body[b])' = Content(body[b]) \o SubSeq(adding[b], 1, n)
<1>1. PICK n \in 1..Len(adding[b]) :
        /\ Added(b, n)
        /\ body'[b].data = body[b].data \o SubSeq(adding[b], 1, n)
        /\ Kept(b)
        /\ \A d \in Bodies \ {b} : body'[d] = body[d]
        /\ UNCHANGED <<file, open, linked, transfer>>
  BY MemoryStep DEF IInv
<1>2. \A d \in Bodies \ {b} : SameBody(d)
  BY <1>1, Untouched
<1>3. adding[b] # <<>> /\ Len(body[b].data) # MaxBufferSize
  BY DEF BufferInMemory
<1>4. b \in Originals /\ body[b].fd # NamedFile /\ transfer[b].outcome = "none"
  BY <1>3 DEF IInv, Adding
<1>5. body[b].fd = None
  BY <1>3, <1>4 DEF IInv, Ownership, Owned
<1>6. Content(body[b]) = body[b].data
  BY <1>5, ContentIs DEF IInv
<1>7. Content(body[b])' = body'[b].data
  <2>1. Content(body[b])' = body'[b].data \o <<>>
    BY <1>1, <1>5 DEF Content, OnDisk, Kept
  <2>2. body'[b].data \in Seq(Byte)
    BY ObjectFields DEF IInv, Types
  <2> QED BY <2>1, <2>2, ConcatEmptySeq
<1> QED BY <1>1, <1>2, <1>4, <1>6, <1>7

(* buffer_on_disk does too: what is in memory is full, and all that is in   *)
(* the file is this body's.                                                 *)
LEMMA DiskContent ==
  ASSUME IInv, IInv', NEW b \in Bodies, BufferOnDisk(b)
  PROVE  /\ transfer[b].outcome = "none" /\ UNCHANGED transfer
         /\ \A d \in Bodies \ {b} : SameBody(d)
         /\ \E n \in 1..Len(adding[b]) :
              /\ Added(b, n)
              /\ Content(body[b])' = Content(body[b]) \o SubSeq(adding[b], 1, n)
<1>1. body[b].fd \in Files /\ Len(body[b].data) = MaxBufferSize
  BY DiskStep DEF IInv
<1>2. PICK n \in 1..Len(adding[b]) :
        /\ Added(b, n)
        /\ file'[body[b].fd] = file[body[b].fd] \o SubSeq(adding[b], 1, n)
        /\ \A f \in Files \ {body[b].fd} : file'[f] = file[f]
        /\ body'[b].data = body[b].data
        /\ body'[b].size = body[b].size + n
        /\ Kept(b)
        /\ \A d \in Bodies \ {b} : body'[d] = body[d]
        /\ UNCHANGED <<open, linked, transfer>>
  BY DiskStep DEF IInv
<1> DEFINE more == SubSeq(adding[b], 1, n)
           bytes == file[body[b].fd]
<1>3. more \in Seq(Byte) /\ Len(more) = n
  BY <1>2, AddedBytes DEF IInv
<1>4. body[b].fd # None /\ bytes \in Seq(Byte) /\ body[b].data \in Seq(Byte)
  BY <1>1, FilesSane, Fields DEF IInv, Types
<1>5. ASSUME NEW d \in Bodies \ {b} PROVE SameBody(d)
  <2>1. body'[d] = body[d]
    BY <1>2
  <2>2. CASE body[d].fd = body[b].fd
    <3>1. \E tail \in Seq(Byte) : file'[body[d].fd] = file[body[d].fd] \o tail
      BY <1>2, <1>3, <2>2
    <3> QED BY <2>1, <3>1, SameContent DEF IInv, SameBody
  <2>3. CASE body[d].fd # body[b].fd
    <3>1. body[d].fd # None => file'[body[d].fd] = file[body[d].fd]
      BY <1>2, <2>3, Fields DEF IInv
    <3> QED BY <2>1, <3>1, Untouched
  <2> QED BY <2>2, <2>3
<1>6. b \in Originals /\ transfer[b].outcome = "none" /\ body[b].unlink
      /\ SizeOnDisk(body[b]) = Len(bytes)
  <2>1. adding[b] # <<>>
    BY DEF BufferOnDisk
  <2>2. b \in Originals /\ body[b].fd # NamedFile /\ transfer[b].outcome = "none"
    BY <2>1 DEF IInv, Adding
  <2> QED BY <1>4, <2>2 DEF IInv, Ownership, Owned
<1>7. Content(body[b]) = body[b].data \o bytes
  <2>1. OnDisk(body[b]) = SubSeq(bytes, 1, Len(bytes))
    BY <1>4, <1>6, ContentIs DEF IInv
  <2>2. OnDisk(body[b]) = bytes
    BY <1>4, <2>1, SubSeqFull
  <2> QED BY <2>2 DEF Content
<1>8. Content(body[b])' = body[b].data \o (bytes \o more)
  <2>1. SizeOnDisk(body'[b]) = Len(bytes \o more)
    <3>1. SizeOnDisk(body'[b]) = SizeOnDisk(body[b]) + n
      BY <1>2, Fields DEF IInv, SizeOnDisk
    <3> QED BY <1>3, <1>4, <1>6, <3>1, ConcatProperties
  <2>2. OnDisk(body[b])' = SubSeq(bytes \o more, 1, Len(bytes \o more))
    BY <1>2, <1>4, <2>1 DEF OnDisk, Kept
  <2>3. OnDisk(body[b])' = bytes \o more
    BY <1>3, <1>4, <2>2, ConcatProperties, SubSeqFull
  <2> QED BY <1>2, <2>3 DEF Content
<1>9. Content(body[b])' = Content(body[b]) \o more
  <2>1. \A s, t, u \in Seq(Byte) : (s \o t) \o u = s \o (t \o u)
    BY Behind, SMTT(30)
  <2>2. (body[b].data \o bytes) \o more = body[b].data \o (bytes \o more)
    BY <1>3, <1>4, <2>1, Zenon
  <2> HIDE DEF bytes, more
  <2> QED BY <1>7, <1>8, <2>2
<1> QED BY <1>2, <1>5, <1>6, <1>9

(* A new file is empty.                                                     *)
LEMMA CreateContent ==
  ASSUME IInv, IInv', NEW b \in Bodies, CreateFile(b)
  PROVE  /\ transfer[b].outcome = "none" /\ UNCHANGED <<adding, transfer>>
         /\ \A d \in Bodies \ {b} : SameBody(d)
         /\ Content(body[b])' = Content(body[b])
<1>1. /\ body'[b].data = body[b].data /\ body'[b].size = body[b].size /\ body'[b].fd = UnusedFile
      /\ \A d \in Bodies \ {b} : body'[d] = body[d]
      /\ adding[b] # <<>> /\ body[b].fd = None
      /\ UNCHANGED <<file, adding, transfer>>
  BY CreateStep DEF IInv
<1>2. UnusedFile \in Files \ (linked \cup {None, NamedFile}) /\ open[UnusedFile] = 0
  BY AnUnusedFile DEF IInv
<1>3. file[UnusedFile] = <<>>
  BY <1>2 DEF IInv, Fresh
<1>4. \A d \in Bodies \ {b} : SameBody(d)
  BY <1>1, Untouched
<1>5. Content(body[b]) = body[b].data
  BY <1>1, ContentIs DEF IInv
<1>6. transfer[b].outcome = "none" /\ SizeOnDisk(body'[b]) = 0
  <2>1. b \in Originals /\ transfer[b].outcome = "none"
    BY <1>1 DEF IInv, Adding
  <2>2. SizeOnDisk(body[b]) = 0
    BY <1>1, <2>1 DEF IInv, Ownership, Owned
  <2> QED BY <1>1, <2>1, <2>2 DEF SizeOnDisk
<1>7. OnDisk(body[b])' = <<>>
  <2>1. Len(<<>>) = 0 /\ SubSeq(<<>>, 1, 0) = <<>>
    BY EmptySeq, SubSeqEmpty
  <2>2. OnDisk(body[b])' = SubSeq(<<>>, 1, IF 0 < Len(<<>>) THEN 0 ELSE Len(<<>>))
    BY <1>1, <1>2, <1>3, <1>6 DEF OnDisk
  <2> QED BY <2>1, <2>2
<1>8. Content(body[b])' = body[b].data \o <<>>
  BY <1>1, <1>7 DEF Content
<1>9. Content(body[b])' = body[b].data
  BY <1>8, Fields, ConcatEmptySeq DEF IInv
<1> QED BY <1>1, <1>4, <1>5, <1>6, <1>9

(* A body that is dropped is empty, or what the named file holds.           *)
LEMMA DropContent ==
  ASSUME IInv, IInv', NEW b \in Bodies, Dropped(b),
         body'[b].fd = NamedFile => body'[b].size \in {0, Len(Existing)}
  PROVE  /\ \A d \in Bodies \ {b} : SameBody(d)
         /\ Content(body[b])' \in {<<>>, Existing}
         /\ body'[b].fd = None => Content(body[b])' = <<>>
<1>1. /\ \A d \in Bodies \ {b} : body[d].fd # None => file'[body[d].fd] = file[body[d].fd]
      /\ \A d \in Bodies \ {b} : body'[d] = body[d]
  BY HeldFilesStay DEF Dropped
<1>2. \A d \in Bodies \ {b} : SameBody(d)
  BY <1>1, Untouched
<1>3. body'[b].data = <<>> /\ <<>> \in Seq(Byte) /\ Existing \in Seq(Byte) /\ Len(<<>>) = 0
  BY EmptySeq, BytesAssumption DEF Dropped
<1>4. CASE body'[b].fd = None
  <2>1. Content(body[b])' = <<>> \o <<>>
    BY <1>3, <1>4 DEF Content, OnDisk
  <2> QED BY <1>2, <1>3, <2>1, ConcatEmptySeq
<1>5. CASE body'[b].fd = NamedFile
  <2>1. file'[NamedFile] = Existing
    BY DEF IInv, Fresh
  <2>2. SizeOnDisk(body'[b]) = body'[b].size
    BY <1>3, <1>5, LenProperties DEF SizeOnDisk
  <2>3. OnDisk(body[b])' = SubSeq(Existing, 1, IF body'[b].size < Len(Existing) THEN body'[b].size
                                               ELSE Len(Existing))
    BY <1>5, <2>1, <2>2, FilesSane DEF OnDisk
  <2>4. Content(body[b])' = <<>> \o OnDisk(body[b])'
    BY <1>3 DEF Content
  <2>5. CASE body'[b].size = 0
    <3>1. OnDisk(body[b])' = SubSeq(Existing, 1, 0)
      BY <1>3, <2>3, <2>5, LenProperties
    <3>2. OnDisk(body[b])' = <<>>
      BY <3>1, SubSeqEmpty
    <3> QED BY <1>2, <1>3, <1>5, <2>4, <3>2, ConcatEmptySeq, FilesSane
  <2>6. CASE body'[b].size = Len(Existing)
    <3>1. OnDisk(body[b])' = SubSeq(Existing, 1, Len(Existing))
      BY <1>3, <2>3, <2>6, LenProperties
    <3>2. OnDisk(body[b])' = Existing
      BY <1>3, <3>1, SubSeqFull
    <3> QED BY <1>2, <1>3, <1>5, <2>4, <3>2, ConcatEmptySeq, FilesSane
  <2> QED BY <1>5, <2>5, <2>6
<1> QED BY <1>4, <1>5 DEF Dropped

(* A copy has all the bytes, or those in memory.                            *)
LEMMA CopyContent ==
  ASSUME IInv, IInv', NEW b \in Bodies, NEW c \in Copies, Copy(b, c)
  PROVE  /\ \A d \in Bodies \ {c} : SameBody(d)
         /\ \E n \in 0..Len(Content(body[b])) : Content(body[c])' = SubSeq(Content(body[b]), 1, n)
<1>1. /\ c \in Bodies /\ c # b
      /\ \A d \in Bodies \ {c} : body'[d] = body[d]
      /\ body'[c].data = body[b].data /\ body'[c].size = body[b].size
      /\ body'[c].fd \in {body[b].fd, None}
      /\ UNCHANGED file
  BY CopyStep DEF IInv
<1>2. \A d \in Bodies \ {c} : SameBody(d)
  BY <1>1, Untouched
<1>3. Content(body[b]) \in Seq(Byte) /\ body[b].data \in Seq(Byte) /\ Len(body[b].data) \in Nat
  BY ContentIs, Fields DEF IInv
<1>4. CASE body'[c].fd = body[b].fd
  <2>1. Content(body[c])' = Content(body[b])
    BY <1>1, <1>4 DEF Content, OnDisk, SizeOnDisk
  <2>2. Len(Content(body[b])) \in 0..Len(Content(body[b]))
    BY <1>3, LenProperties
  <2>3. Content(body[c])' = SubSeq(Content(body[b]), 1, Len(Content(body[b])))
    BY <1>3, <2>1, SubSeqFull
  <2> QED BY <1>2, <2>2, <2>3
<1>5. CASE body[b].fd # None /\ body'[c].fd = None
  <2>1. Content(body[c])' = body[b].data \o <<>>
    BY <1>1, <1>5 DEF Content, OnDisk
  <2>2. Content(body[c])' = body[b].data
    BY <1>3, <2>1, ConcatEmptySeq
  <2>3. OnDisk(body[b]) \in Seq(Byte)
    BY <1>5, ContentIs DEF IInv
  <2>4. /\ Content(body[b]) = body[b].data \o OnDisk(body[b])
        /\ Len(body[b].data) \in 0..Len(Content(body[b]))
    <3>1. Content(body[b]) = body[b].data \o OnDisk(body[b])
      BY DEF Content
    <3>2. Len(body[b].data) \in 0..Len(body[b].data \o OnDisk(body[b]))
      BY <1>3, <2>3, Behind
    <3> QED BY <3>1, <3>2
  <2>5. SubSeq(Content(body[b]), 1, Len(body[b].data)) = body[b].data
    <3>1. Len(body[b].data) \in 0..Len(body[b].data)
      BY <1>3
    <3>2. SubSeq(body[b].data \o OnDisk(body[b]), 1, Len(body[b].data))
            = SubSeq(body[b].data, 1, Len(body[b].data))
      BY <1>3, <2>3, <3>1, FirstOfConcat
    <3> QED BY <1>3, <2>4, <3>2, SubSeqFull
  <2> QED BY <1>2, <2>2, <2>4, <2>5
<1> QED BY <1>1, <1>4, <1>5

-----------------------------------------------------------------------------
(* Sending, where sendfile sends all that it is asked for.                  *)
LEMMA TransferKept ==
  ASSUME NEW d \in Bodies, Transferred(d), SameBody(d), transfer'[d] = transfer[d]
  PROVE  Transferred(d)'
BY DEF Transferred, UnderWay, SameBody

LEMMA IdleTransferred ==
  ASSUME NEW d \in Bodies, transfer'[d] = Idle
  PROVE  Transferred(d)'
BY IdleTyped DEF Transferred

(* prepare: the body is announced and nothing of it has been sent.          *)
LEMMA PrepareTransfers ==
  ASSUME IInv, IInv', Transfers, NEW b \in Bodies, Prepare(b)
  PROVE  /\ Transfers'
         /\ transfer[b].sent = <<>>
<1>1. /\ transfer[b].outcome = "none"
      /\ \A d \in Bodies \ {b} : transfer'[d] = transfer[d]
      /\ transfer'[b].outcome = "sending" /\ transfer'[b].announced \subseteq {AsInt(body[b].size)}
      /\ transfer'[b].remain = SizeOnDisk(body[b]) /\ transfer'[b].offset = 0
      /\ transfer'[b].sent = <<>>
  BY PrepareIs DEF IInv
<1>2. UNCHANGED <<body, file>>
  BY SendStepKeeps DEF SendStep
<1>3. \A d \in Bodies : SameBody(d)
  BY <1>2, UntouchedAll
<1>4. UnderWay(b)'
  <2>1. Len(<<>>) = 0 /\ <<>> = SubSeq(body[b].data, 1, 0) /\ Len(body[b].data) >= 0
    BY EmptySeq, SubSeqEmpty, Fields DEF IInv
  <2> QED BY <1>1, <1>2, <2>1 DEF UnderWay
<1>5. Transferred(b)'
  BY <1>1, <1>2, <1>4 DEF Transferred
<1>6. transfer[b].sent = <<>>
  BY <1>1, IdleTyped DEF Transfers, Transferred
<1> QED BY <1>1, <1>3, <1>5, <1>6, TransferKept DEF Transfers

(* send_raw: the next bytes of those in memory.                             *)
LEMMA SendRawTransfers ==
  ASSUME IInv, IInv', Transfers, NEW b \in Bodies, SendRaw(b)
  PROVE  /\ Transfers'
         /\ \E n \in Len(transfer[b].sent) + 1..Len(Content(body[b])) :
              transfer'[b].sent = SubSeq(Content(body[b]), 1, n)
<1>1. /\ transfer[b].outcome = "sending"
      /\ \A d \in Bodies \ {b} : transfer'[d] = transfer[d]
      /\ transfer'[b].outcome = "sending"
      /\ transfer'[b].announced = transfer[b].announced
      /\ transfer'[b].remain = transfer[b].remain /\ transfer'[b].offset = transfer[b].offset
  BY SendRawIs DEF IInv
<1> DEFINE done == Len(transfer[b].sent)
           data == body[b].data
<1>2. PICK n \in 1..Len(data) - done :
        transfer'[b].sent = transfer[b].sent \o SubSeq(data, done + 1, done + n)
  BY SendRawIs DEF IInv
<1>3. UNCHANGED <<body, file>>
  BY SendStepKeeps DEF SendStep
<1>4. data \in Seq(Byte) /\ Len(data) \in Nat /\ done \in Nat /\ Content(body[b]) \in Seq(Byte)
  BY Fields, TransferFields, ContentIs DEF IInv
<1>5. Len(data) <= Len(Content(body[b])) /\ Len(Content(body[b])) \in Nat
      /\ \A m \in 0..Len(data) : SubSeq(Content(body[b]), 1, m) = SubSeq(data, 1, m)
  <2>1. CASE body[b].fd = None
    BY <1>4, <2>1, ContentIs DEF IInv
  <2>2. CASE body[b].fd # None
    <3>1. OnDisk(body[b]) \in Seq(Byte) /\ Content(body[b]) = data \o OnDisk(body[b])
      BY <2>2, ContentIs DEF IInv, Content
    <3>2. Len(data) \in 0..Len(data \o OnDisk(body[b]))
      BY <1>4, <3>1, Behind
    <3>3. \A m \in 0..Len(data) : SubSeq(data \o OnDisk(body[b]), 1, m) = SubSeq(data, 1, m)
      BY <1>4, <3>1, FirstOfConcat
    <3>4. Len(Content(body[b])) \in Nat /\ Len(data) \in 0..Len(Content(body[b]))
      BY <1>4, <3>1, <3>2, LenProperties, Zenon
    <3> HIDE DEF data
    <3> QED BY <3>1, <3>3, <3>4
  <2> QED BY <2>1, <2>2
<1>6. /\ transfer[b].remain = SizeOnDisk(body[b]) /\ transfer[b].offset = 0
      /\ transfer[b].sent = SubSeq(data, 1, done) /\ done <= Len(data)
  <2>1. UnderWay(b)
    BY <1>1 DEF Transfers, Transferred
  <2>2. transfer[b].sent # Content(body[b])
    BY <1>2, <1>4, <1>5
  <2> QED BY <2>1, <2>2 DEF UnderWay
<1>7. transfer'[b].sent = SubSeq(data, 1, done + n) /\ done + n \in 0..Len(data)
  <2>1. done \in 0..Len(data) /\ done + n \in done..Len(data)
    BY <1>2, <1>4, <1>6
  <2>2. SubSeq(data, 1, done) \o SubSeq(data, done + 1, done + n) = SubSeq(data, 1, done + n)
    BY <1>4, <2>1, FirstThenNext
  <2>3. transfer'[b].sent = SubSeq(data, 1, done) \o SubSeq(data, done + 1, done + n)
    BY <1>2, <1>6
  <2> HIDE DEF data, done
  <2> QED BY <1>4, <2>1, <2>2, <2>3
<1>8. Len(transfer'[b].sent) = done + n
  <2> HIDE DEF done, data
  <2> QED BY <1>4, <1>7
<1>9. transfer'[b].sent = SubSeq(Content(body[b]), 1, done + n)
      /\ done + n \in done + 1..Len(Content(body[b]))
  BY <1>2, <1>4, <1>5, <1>7
<1>10. UnderWay(b)'
  BY <1>1, <1>3, <1>6, <1>7, <1>8 DEF UnderWay
<1>11. Transferred(b)'
  BY <1>1, <1>3, <1>10 DEF Transfers, Transferred
<1>12. \A d \in Bodies : SameBody(d)
  BY <1>3, UntouchedAll
<1> QED BY <1>1, <1>9, <1>11, <1>12, TransferKept DEF Transfers

(* sendfile: all that is on disk.                                           *)
LEMMA SendFileTransfers ==
  ASSUME ~ShortSendfile, IInv, IInv', Transfers, NEW b \in Bodies, SendFile(b)
  PROVE  /\ Transfers'
         /\ Len(transfer[b].sent) < Len(Content(body[b]))
         /\ transfer'[b].sent = Content(body[b])
<1>1. /\ transfer[b].outcome = "sending" /\ SentRaw(b)
      /\ body[b].fd # None /\ body[b].fd \in Files /\ file[body[b].fd] \in Seq(Byte)
      /\ \A d \in Bodies \ {b} : transfer'[d] = transfer[d]
      /\ transfer'[b].outcome = "sending"
      /\ transfer'[b].announced = transfer[b].announced
  BY SendFileIs DEF IInv
<1> DEFINE t == transfer[b]
           bytes == file[body[b].fd]
           onDisk == SizeOnDisk(body[b])
<1>2. PICK n \in 1..t.remain :
        /\ t.offset + n <= Len(bytes)
        /\ n = t.remain \/ t.offset + n = Len(bytes) \/ ShortSendfile
        /\ transfer'[b].sent = t.sent \o SubSeq(bytes, t.offset + 1, t.offset + n)
        /\ transfer'[b].remain = t.remain - n
  BY SendFileIs DEF IInv
<1>3. UNCHANGED <<body, file>>
  BY SendStepKeeps DEF SendStep
<1>4. /\ t.remain \in Nat /\ t.sent \in Seq(Byte) /\ Len(t.sent) \in Nat
      /\ body[b].data \in Seq(Byte) /\ Len(body[b].data) \in Nat /\ Len(bytes) \in Nat
      /\ onDisk \in Nat /\ onDisk <= Len(bytes)
      /\ OnDisk(body[b]) = SubSeq(bytes, 1, onDisk)
      /\ Len(Content(body[b])) = body[b].size /\ body[b].size = Len(body[b].data) + onDisk
  <2>1. onDisk \in 0..Len(bytes)
    BY <1>1, ContentIs DEF IInv
  <2>2. body[b].size = Len(body[b].data) + onDisk
    BY Fields DEF IInv, SizeOnDisk
  <2> QED BY <1>1, <2>1, <2>2, Fields, TransferFields, ContentIs, LenProperties DEF IInv
<1>5. /\ t.offset = 0 /\ t.remain = onDisk
      /\ Len(t.sent) <= Len(body[b].data) /\ t.sent = SubSeq(body[b].data, 1, Len(t.sent))
  <2>1. UnderWay(b)
    BY <1>1 DEF Transfers, Transferred
  <2>2. t.remain # 0
    BY <1>2, <1>4
  <2> QED BY <2>1, <2>2 DEF UnderWay
<1>6. t.sent = body[b].data
  <2>1. Len(t.sent) = Len(body[b].data)
    BY <1>1, <1>4, <1>5 DEF SentRaw
  <2> QED BY <1>4, <1>5, <2>1, SubSeqFull
<1>7. n = onDisk /\ n > 0
  <2> HIDE DEF t, bytes, onDisk
  <2> QED BY <1>2, <1>4, <1>5
<1>8. transfer'[b].sent = Content(body[b])
  <2>1. t.offset + 1 = 1 /\ t.offset + n = onDisk
    BY <1>4, <1>5, <1>7
  <2>2. transfer'[b].sent = body[b].data \o SubSeq(bytes, 1, onDisk)
    BY <1>2, <1>6, <2>1
  <2> HIDE DEF t, bytes, onDisk
  <2> QED BY <1>4, <2>2 DEF Content
<1>9. transfer'[b].remain = 0
  BY <1>2, <1>4, <1>5, <1>7
<1>10. Len(t.sent) < Len(Content(body[b]))
  BY <1>4, <1>6, <1>7
<1>11. Content(body[b])' = Content(body[b])
  BY <1>3 DEF Content, OnDisk, SizeOnDisk
<1>12. UnderWay(b)'
  BY <1>1, <1>3, <1>8, <1>9, <1>11 DEF UnderWay
<1>13. Transferred(b)'
  BY <1>1, <1>3, <1>12 DEF Transfers, Transferred
<1>14. \A d \in Bodies : SameBody(d)
  BY <1>3, UntouchedAll
<1> QED BY <1>1, <1>8, <1>10, <1>13, <1>14, TransferKept DEF Transfers

(* The end: all of the body has been sent.                                  *)
LEMMA SentTransfers ==
  ASSUME IInv, IInv', Transfers, NEW b \in Bodies, Sent(b)
  PROVE  /\ Transfers'
         /\ transfer[b].sent = Content(body[b])
<1>1. /\ transfer[b].outcome = "sending" /\ SentRaw(b)
      /\ body[b].fd = None \/ transfer[b].remain = 0
      /\ transfer' = [transfer EXCEPT ![b].outcome = "sent"]
  BY DEF Sent, Sending
<1>2. /\ \A d \in Bodies \ {b} : transfer'[d] = transfer[d]
      /\ transfer'[b].outcome = "sent"
      /\ transfer'[b].announced = transfer[b].announced
      /\ transfer'[b].sent = transfer[b].sent
  BY <1>1, EndIs DEF IInv
<1>3. UNCHANGED <<body, file>>
  BY SendStepKeeps DEF SendStep
<1>4. transfer[b].sent = Content(body[b])
  <2>1. UnderWay(b)
    BY <1>1 DEF Transfers, Transferred
  <2>2. CASE transfer[b].sent = Content(body[b])
    BY <2>2
  <2>3. CASE /\ transfer[b].remain = SizeOnDisk(body[b])
             /\ Len(transfer[b].sent) <= Len(body[b].data)
             /\ transfer[b].sent = SubSeq(body[b].data, 1, Len(transfer[b].sent))
    <3>1. transfer[b].sent = body[b].data
      <4>1. Len(transfer[b].sent) = Len(body[b].data)
        BY <1>1, <2>3, Fields, TransferFields DEF IInv, SentRaw
      <4> QED BY <2>3, <4>1, Fields, SubSeqFull DEF IInv
    <3>2. CASE body[b].fd = None
      BY <3>1, <3>2, ContentIs DEF IInv
    <3>3. CASE body[b].fd # None
      <4>1. OnDisk(body[b]) = SubSeq(file[body[b].fd], 1, 0)
        BY <1>1, <2>3, <3>3, ContentIs DEF IInv
      <4>2. OnDisk(body[b]) = <<>>
        BY <4>1, SubSeqEmpty
      <4> QED BY <3>1, <4>2, Fields, ConcatEmptySeq DEF IInv, Content
    <3> QED BY <3>2, <3>3
  <2> QED BY <2>1, <2>2, <2>3 DEF UnderWay
<1>5. Content(body[b])' = Content(body[b])
  BY <1>3 DEF Content, OnDisk, SizeOnDisk
<1>6. Transferred(b)'
  BY <1>1, <1>2, <1>3, <1>4, <1>5 DEF Transfers, Transferred
<1>7. \A d \in Bodies : SameBody(d)
  BY <1>3, UntouchedAll
<1> QED BY <1>2, <1>4, <1>6, <1>7, TransferKept DEF Transfers

LEMMA SendFailsTransfers ==
  ASSUME IInv, IInv', Transfers, NEW b \in Bodies, SendFails(b)
  PROVE  Transfers'
<1>1. /\ \A d \in Bodies \ {b} : transfer'[d] = transfer[d]
      /\ transfer'[b].outcome = "failed"
  BY EndIs DEF IInv, SendFails, Sending
<1>2. UNCHANGED <<body, file>>
  BY SendStepKeeps DEF SendStep
<1>3. Transferred(b)'
  BY <1>1 DEF Transferred
<1>4. \A d \in Bodies : SameBody(d)
  BY <1>2, UntouchedAll
<1> QED BY <1>1, <1>3, <1>4, TransferKept DEF Transfers

(* A body is not changed while it is sent, nor after that.                  *)
LEMMA TransfersKept ==
  ASSUME ~ShortSendfile, IInv, IInv', Transfers, [Next]_vars
  PROVE  Transfers'
<1>1. ASSUME NEW b \in Bodies, \A d \in Bodies \ {b} : SameBody(d),
             transfer[b].outcome = "none", UNCHANGED transfer
      PROVE  Transfers'
  <2>1. Transferred(b)'
    BY <1>1, IdleTransferred DEF Transfers, Transferred
  <2> QED BY <1>1, <2>1, TransferKept DEF Transfers
<1>2. ASSUME UNCHANGED <<body, file, transfer>> PROVE Transfers'
  BY <1>2, UntouchedAll, TransferKept DEF Transfers
<1>3. CASE UNCHANGED vars
  BY <1>2, <1>3 DEF vars
<1>4. ASSUME NEW b \in Bodies, AddBody(b) PROVE Transfers'
  BY <1>2, <1>4 DEF AddBody
<1>5. ASSUME NEW b \in Bodies, BufferInMemory(b) PROVE Transfers'
  BY <1>1, <1>5, MemoryContent
<1>6. ASSUME NEW b \in Bodies, CreateFile(b) PROVE Transfers'
  BY <1>1, <1>6, CreateContent
<1>7. ASSUME NEW b \in Bodies, BufferOnDisk(b) PROVE Transfers'
  BY <1>1, <1>7, DiskContent
<1>8. ASSUME NEW b \in Bodies, BufferOnDiskFails(b) PROVE Transfers'
  BY <1>2, <1>8 DEF BufferOnDiskFails
<1>9. ASSUME NEW b \in Bodies, Clear(b) PROVE Transfers'
  <2>1. Dropped(b) /\ transfer' = [transfer EXCEPT ![b] = Idle]
    BY <1>9, ClearDrops DEF IInv
  <2>2. /\ \A d \in Bodies \ {b} : body[d].fd # None => file'[body[d].fd] = file[body[d].fd]
        /\ \A d \in Bodies \ {b} : body'[d] = body[d]
    BY <2>1, HeldFilesStay DEF Dropped
  <2>3. \A d \in Bodies \ {b} : SameBody(d) /\ transfer'[d] = transfer[d]
    BY <2>1, <2>2, Untouched DEF IInv, Types
  <2>4. transfer'[b] = Idle
    BY <2>1 DEF IInv, Types
  <2> QED BY <2>3, <2>4, IdleTransferred, TransferKept DEF Transfers
<1>10. ASSUME NEW b \in Bodies, SetFile(b) PROVE Transfers'
  <2>1. Dropped(b) /\ UNCHANGED transfer /\ transfer[b].outcome = "none"
    BY <1>10, SetFileDrops DEF IInv, SetFile
  <2>2. /\ \A d \in Bodies \ {b} : body[d].fd # None => file'[body[d].fd] = file[body[d].fd]
        /\ \A d \in Bodies \ {b} : body'[d] = body[d]
    BY <2>1, HeldFilesStay DEF Dropped
  <2>3. \A d \in Bodies \ {b} : SameBody(d)
    BY <2>2, Untouched
  <2> QED BY <1>1, <2>1, <2>3
<1>11. ASSUME NEW b \in Bodies, NEW c \in Copies, Copy(b, c) PROVE Transfers'
  <2>1. c \in Bodies /\ transfer[c] = Idle /\ UNCHANGED transfer
    BY <1>11, CopyStep DEF IInv
  <2> QED BY <1>1, <1>11, <2>1, CopyContent, IdleTyped
<1>12. ASSUME NEW b \in Bodies, SendStep(b) PROVE Transfers'
  BY <1>12, PrepareTransfers, SendRawTransfers, SendFileTransfers, SentTransfers, SendFailsTransfers
  DEF SendStep
<1> QED
  BY <1>3, <1>4, <1>5, <1>6, <1>7, <1>8, <1>9, <1>10, <1>11, <1>12 DEF Next, SendStep

LEMMA TransfersInitially ==
  ASSUME Init
  PROVE  Transfers
BY IdleTyped DEF Init, Transfers, Transferred

LEMMA TransferInvariant ==
  ASSUME ~ShortSendfile
  PROVE  Spec => [](IInv /\ Transfers)
<1>1. IInv /\ Transfers /\ IInv' /\ [Next]_vars => Transfers'
  BY TransfersKept
<1>2. Init => Transfers
  BY TransfersInitially
<1> QED BY <1>1, <1>2, Invariant, PTL DEF Spec

(* Where sendfile sends all that it is asked for, a body whose sending      *)
(* succeeded is as long as the Content-Length that prepare made of its      *)
(* size, if it made one, but for a copy that lost what is on disk and for a *)
(* size that is no int.                                                     *)
THEOREM LengthAsAnnounced ==
  ASSUME ~ShortSendfile
  PROVE  Spec => []AnnouncedIsSent
<1>1. ASSUME IInv, Transfers PROVE AnnouncedIsSent
  <2> SUFFICES ASSUME NEW b \in Bodies, transfer[b].outcome = "sent", ~CutOff(b),
                      body[b].size <= MaxInt, NEW n \in transfer[b].announced
               PROVE  Len(transfer[b].sent) = n
    BY DEF AnnouncedIsSent
  <2>1. transfer[b].sent = Content(body[b]) /\ n = body[b].size
    <3>1. body[b].size \in Nat
      BY <1>1, Fields DEF IInv
    <3> QED BY <1>1, <3>1, AsIntIs DEF Transfers, Transferred
  <2>2. CASE body[b].fd # None
    BY <1>1, <2>1, <2>2, ContentIs DEF IInv
  <2>3. CASE body[b].fd = None
    <3>1. SizeOnDisk(body[b]) = 0
      <4>1. SizeOnDisk(body[b]) \in Nat
        BY <1>1, ContentIs DEF IInv
      <4>2. CASE b \in Originals
        BY <1>1, <2>3, <4>2 DEF IInv, Ownership, Owned
      <4>3. CASE b \in Copies
        BY <2>3, <4>1, <4>3 DEF CutOff
      <4> QED BY <4>2, <4>3 DEF Bodies
    <3>2. Content(body[b]) = body[b].data
      BY <1>1, <2>3, ContentIs DEF IInv
    <3> QED BY <1>1, <2>1, <3>1, <3>2, Fields DEF IInv, SizeOnDisk
  <2> QED BY <2>2, <2>3
<1> QED BY <1>1, TransferInvariant, PTL

-----------------------------------------------------------------------------
(* The Body objects and their files implement MessageBody: each step is one *)
(* of its steps, or changes nothing that it sees.                           *)
contents == [b \in Bodies |-> Content(body[b])]
sents == [b \in Bodies |-> transfer[b].sent]
outcomes == [b \in Bodies |-> transfer[b].outcome]

LEMMA Mapped ==
  /\ Promise!promise = <<adding, contents, sents, outcomes>>
  /\ \A b \in Bodies : /\ contents[b] = Content(body[b])
                       /\ sents[b] = transfer[b].sent /\ outcomes[b] = transfer[b].outcome
BY DEF Promise!promise, contents, sents, outcomes

LEMMA SameContents ==
  ASSUME \A d \in Bodies : Content(body[d])' = Content(body[d])
  PROVE  contents' = contents
BY DEF contents

LEMMA SameTransfers ==
  ASSUME UNCHANGED transfer
  PROVE  sents' = sents /\ outcomes' = outcomes
BY DEF sents, outcomes

LEMMA OneContent ==
  ASSUME NEW b \in Bodies, \A d \in Bodies \ {b} : SameBody(d)
  PROVE  contents' = [contents EXCEPT ![b] = Content(body[b])']
BY DEF contents, SameBody

LEMMA OneTransfer ==
  ASSUME NEW b \in Bodies, \A d \in Bodies \ {b} : transfer'[d] = transfer[d]
  PROVE  /\ sents' = [sents EXCEPT ![b] = transfer'[b].sent]
         /\ outcomes' = [outcomes EXCEPT ![b] = transfer'[b].outcome]
         /\ transfer'[b].sent = transfer[b].sent => sents' = sents
         /\ transfer'[b].outcome = transfer[b].outcome => outcomes' = outcomes
BY DEF sents, outcomes

LEMMA PromiseInitially ==
  ASSUME Init
  PROVE  Promise!PromiseInit
<1>1. IInv /\ Transfers
  BY InvariantInitially, TransfersInitially
<1>2. body = [b \in Bodies |-> Cleared] /\ transfer = [b \in Bodies |-> Idle]
      /\ adding = [b \in Bodies |-> <<>>]
  BY DEF Init
<1>3. \A b \in Bodies : Content(body[b]) = <<>>
  BY <1>1, <1>2, NewObjects, ContentIs DEF IInv
<1>4. contents = [b \in Bodies |-> <<>>]
  BY <1>3 DEF contents
<1>5. sents = [b \in Bodies |-> <<>>] /\ outcomes = [b \in Bodies |-> "none"]
  BY <1>2, IdleTyped DEF sents, outcomes
<1> QED BY <1>2, <1>4, <1>5 DEF Promise!PromiseInit, contents, sents, outcomes

LEMMA AddingMapped ==
  ASSUME IInv, NEW b \in Bodies
  PROVE  /\ AddBody(b) => Promise!Offer(b)
         /\ BufferOnDiskFails(b) => Promise!GiveUp(b)
<1>1. ASSUME AddBody(b) PROVE Promise!Offer(b)
  <2>1. UNCHANGED <<body, file, transfer>> /\ Quiet
    BY <1>1 DEF AddBody
  <2>2. PICK bytes \in Fragments : adding' = [adding EXCEPT ![b] = bytes]
    BY <1>1 DEF AddBody
  <2>3. adding'[b] = bytes /\ bytes \in Seq(Byte) /\ adding[b] = <<>>
    BY <2>1, <2>2, BytesAssumption DEF IInv, Types, Quiet
  <2>4. contents' = contents /\ sents' = sents /\ outcomes' = outcomes
    BY <2>1 DEF contents, sents, outcomes, Content, OnDisk, SizeOnDisk
  <2> QED BY <2>2, <2>3, <2>4 DEF Promise!Offer, contents, sents, outcomes
<1>2. ASSUME BufferOnDiskFails(b) PROVE Promise!GiveUp(b)
  <2>1. UNCHANGED <<body, file, transfer>> /\ adding[b] # <<>>
        /\ adding' = [adding EXCEPT ![b] = <<>>]
    BY <1>2 DEF BufferOnDiskFails
  <2>2. contents' = contents /\ sents' = sents /\ outcomes' = outcomes
    BY <2>1 DEF contents, sents, outcomes, Content, OnDisk, SizeOnDisk
  <2> QED BY <2>1, <2>2 DEF Promise!GiveUp, contents, sents, outcomes
<1> QED BY <1>1, <1>2

(* Both buffers accept bytes as MessageBody does.                           *)
LEMMA AcceptMapped ==
  ASSUME NEW b \in Bodies, transfer[b].outcome = "none", UNCHANGED transfer,
         \A d \in Bodies \ {b} : SameBody(d),
         NEW n \in 1..Len(adding[b]), Added(b, n),
         Content(body[b])' = Content(body[b]) \o SubSeq(adding[b], 1, n)
  PROVE  Promise!Accept(b)
<1>1. contents' = [contents EXCEPT ![b] = contents[b] \o SubSeq(adding[b], 1, n)]
  BY OneContent, Mapped
<1>2. adding' = [adding EXCEPT ![b] = SubSeq(@, n + 1, Len(@))]
  BY DEF Added
<1>3. outcomes[b] = "none" /\ sents' = sents /\ outcomes' = outcomes
  BY Mapped, SameTransfers
<1> QED BY <1>1, <1>2, <1>3 DEF Promise!Accept, contents, sents, outcomes

LEMMA BecomeMapped ==
  ASSUME NEW c \in Bodies, \A d \in Bodies \ {c} : SameBody(d) /\ transfer'[d] = transfer[d],
         transfer'[c] = Idle, UNCHANGED adding, NEW bytes, Content(body[c])' = bytes
  PROVE  Promise!Become(c, bytes)
<1>1. contents' = [contents EXCEPT ![c] = bytes]
  BY OneContent
<1>2. sents' = [sents EXCEPT ![c] = <<>>] /\ outcomes' = [outcomes EXCEPT ![c] = "none"]
  BY OneTransfer, IdleTyped
<1> QED BY <1>1, <1>2 DEF Promise!Become, contents, sents, outcomes

LEMMA DropMapped ==
  ASSUME IInv, IInv', Transfers, NEW b \in Bodies
  PROVE  Clear(b) \/ SetFile(b) => Promise!Replace(b)
<1>1. ASSUME Clear(b) PROVE Promise!Replace(b)
  <2>1. Dropped(b) /\ transfer' = [transfer EXCEPT ![b] = Idle]
    BY <1>1, ClearDrops DEF IInv
  <2>2. transfer'[b] = Idle /\ \A d \in Bodies \ {b} : transfer'[d] = transfer[d]
    BY <2>1 DEF IInv, Types
  <2>3. body'[b].fd = None /\ UNCHANGED adding
    BY <1>1, NewObjects DEF Clear, IInv, Types
  <2>4. (\A d \in Bodies \ {b} : SameBody(d)) /\ Content(body[b])' = <<>>
    BY <2>1, <2>3, DropContent, FilesSane
  <2>5. Promise!Become(b, <<>>)
    BY <2>2, <2>3, <2>4, BecomeMapped
  <2> QED BY <2>5 DEF Promise!Replace
<1>2. ASSUME SetFile(b) PROVE Promise!Replace(b)
  <2>1. Dropped(b) /\ UNCHANGED transfer /\ body'[b].size \in {0, Len(Existing)}
    BY <1>2, SetFileDrops DEF IInv
  <2>2. (\A d \in Bodies \ {b} : SameBody(d)) /\ Content(body[b])' \in {<<>>, Existing}
    BY <2>1, DropContent
  <2>3. transfer'[b] = Idle /\ UNCHANGED adding
    BY <1>2, <2>1 DEF SetFile, Transfers, Transferred
  <2>4. \E bytes \in {<<>>, Existing} : Promise!Become(b, bytes)
    BY <2>1, <2>2, <2>3, BecomeMapped
  <2> QED BY <2>4 DEF Promise!Replace
<1> QED BY <1>1, <1>2

LEMMA CopyMapped ==
  ASSUME IInv, IInv', NEW b \in Bodies, NEW c \in Copies, Copy(b, c)
  PROVE  c \in Bodies \ {b} /\ Promise!Duplicate(b, c)
<1>1. c \in Bodies /\ c # b /\ transfer[c] = Idle /\ UNCHANGED <<adding, transfer>>
  BY CopyStep DEF IInv
<1>2. PICK n \in 0..Len(Content(body[b])) : Content(body[c])' = SubSeq(Content(body[b]), 1, n)
  BY CopyContent
<1>3. \A d \in Bodies \ {c} : SameBody(d)
  BY CopyContent
<1>4. PICK bytes : bytes = SubSeq(Content(body[b]), 1, n)
  OBVIOUS
<1>5. Promise!Become(c, bytes)
  BY <1>1, <1>2, <1>3, <1>4, BecomeMapped
<1>6. n \in 0..Len(contents[b]) /\ bytes = SubSeq(contents[b], 1, n)
  BY <1>4, Mapped
<1>7. Promise!Duplicate(b, c)
  BY <1>5, <1>6 DEF Promise!Duplicate, Promise!Become, contents, sents, outcomes
<1> QED BY <1>1, <1>7

LEMMA SendMapped ==
  ASSUME ~ShortSendfile, IInv, IInv', Transfers, NEW b \in Bodies
  PROVE  /\ Prepare(b) => Promise!Send(b)
         /\ SendRaw(b) \/ SendFile(b) => Promise!SendMore(b)
         /\ Sent(b) \/ SendFails(b) => Promise!Finish(b)
<1>1. ASSUME SendStep(b) PROVE contents' = contents /\ UNCHANGED adding
  BY <1>1, SendStepKeeps DEF contents, Content, OnDisk, SizeOnDisk
<1>2. ASSUME Prepare(b) PROVE Promise!Send(b)
  <2>1. /\ transfer[b].outcome = "none"
        /\ \A d \in Bodies \ {b} : transfer'[d] = transfer[d]
        /\ transfer'[b].outcome = "sending" /\ transfer'[b].sent = transfer[b].sent
    BY <1>2, PrepareIs, PrepareTransfers DEF IInv
  <2>2. outcomes[b] = "none" /\ sents' = sents /\ outcomes' = [outcomes EXCEPT ![b] = "sending"]
    BY <2>1, Mapped, OneTransfer
  <2> QED BY <1>1, <1>2, <2>2 DEF SendStep, Promise!Send, contents, sents, outcomes
<1>3. ASSUME NEW n \in Len(transfer[b].sent) + 1..Len(Content(body[b])), SendStep(b),
             transfer[b].outcome = "sending", transfer'[b].outcome = "sending",
             \A d \in Bodies \ {b} : transfer'[d] = transfer[d],
             transfer'[b].sent = SubSeq(Content(body[b]), 1, n)
      PROVE  Promise!SendMore(b)
  <2>1. /\ sents' = [sents EXCEPT ![b] = SubSeq(Content(body[b]), 1, n)] /\ outcomes' = outcomes
    BY <1>3, OneTransfer
  <2>2. contents[b] = Content(body[b]) /\ sents[b] = transfer[b].sent /\ outcomes[b] = "sending"
    BY <1>3, Mapped
  <2>3. \E m \in Len(sents[b]) + 1..Len(contents[b]) :
          sents' = [sents EXCEPT ![b] = SubSeq(contents[b], 1, m)]
    BY <2>1, <2>2
  <2> QED BY <1>1, <1>3, <2>1, <2>2, <2>3 DEF Promise!SendMore, contents, sents, outcomes
<1>4. ASSUME SendRaw(b) PROVE Promise!SendMore(b)
  <2>1. /\ transfer[b].outcome = "sending" /\ transfer'[b].outcome = "sending"
        /\ \A d \in Bodies \ {b} : transfer'[d] = transfer[d]
    BY <1>4, SendRawIs DEF IInv
  <2>2. PICK n \in Len(transfer[b].sent) + 1..Len(Content(body[b])) :
          transfer'[b].sent = SubSeq(Content(body[b]), 1, n)
    BY <1>4, SendRawTransfers
  <2> QED BY <1>3, <1>4, <2>1, <2>2 DEF SendStep
<1>5. ASSUME SendFile(b) PROVE Promise!SendMore(b)
  <2>1. /\ transfer[b].outcome = "sending" /\ transfer'[b].outcome = "sending"
        /\ \A d \in Bodies \ {b} : transfer'[d] = transfer[d]
    BY <1>5, SendFileIs DEF IInv
  <2>2. Len(transfer[b].sent) < Len(Content(body[b])) /\ transfer'[b].sent = Content(body[b])
    BY <1>5, SendFileTransfers
  <2>3. Content(body[b]) \in Seq(Byte)
    BY ContentIs DEF IInv
  <2>4. Len(Content(body[b])) \in Len(transfer[b].sent) + 1..Len(Content(body[b]))
    BY <2>2, <2>3, TransferFields, LenProperties DEF IInv
  <2>5. transfer'[b].sent = SubSeq(Content(body[b]), 1, Len(Content(body[b])))
    BY <2>2, <2>3, SubSeqFull
  <2> QED BY <1>3, <1>5, <2>1, <2>4, <2>5 DEF SendStep
<1>6. ASSUME Sent(b) PROVE Promise!Finish(b)
  <2>1. /\ \A d \in Bodies \ {b} : transfer'[d] = transfer[d]
        /\ transfer[b].outcome = "sending" /\ transfer'[b].outcome = "sent"
        /\ transfer'[b].sent = transfer[b].sent
    BY <1>6, EndIs DEF IInv, Sent, Sending
  <2>2. transfer[b].sent = Content(body[b])
    BY <1>6, SentTransfers
  <2>3. /\ outcomes[b] = "sending" /\ sents[b] = contents[b]
        /\ sents' = sents /\ outcomes' = [outcomes EXCEPT ![b] = "sent"]
    BY <2>1, <2>2, Mapped, OneTransfer
  <2> QED BY <1>1, <1>6, <2>3 DEF SendStep, Promise!Finish, contents, sents, outcomes
<1>7. ASSUME SendFails(b) PROVE Promise!Finish(b)
  <2>1. /\ \A d \in Bodies \ {b} : transfer'[d] = transfer[d]
        /\ transfer[b].outcome = "sending" /\ transfer'[b].outcome = "failed"
        /\ transfer'[b].sent = transfer[b].sent
    BY <1>7, EndIs DEF IInv, SendFails, Sending
  <2>2. /\ outcomes[b] = "sending" /\ sents' = sents
        /\ outcomes' = [outcomes EXCEPT ![b] = "failed"]
    BY <2>1, Mapped, OneTransfer
  <2> QED BY <1>1, <1>7, <2>2 DEF SendStep, Promise!Finish, contents, sents, outcomes
<1> QED BY <1>2, <1>4, <1>5, <1>6, <1>7

LEMMA StepsMapped ==
  ASSUME ~ShortSendfile, IInv, IInv', Transfers, [Next]_vars
  PROVE  [Promise!PromiseNext]_(Promise!promise)
<1>1. CASE UNCHANGED vars
  <2>1. UNCHANGED <<adding, contents, sents, outcomes>>
    BY <1>1 DEF vars, contents, sents, outcomes, Content, OnDisk, SizeOnDisk
  <2> QED BY <2>1 DEF Promise!promise, contents, sents, outcomes
<1>2. ASSUME NEW b \in Bodies, CreateFile(b) PROVE UNCHANGED Promise!promise
  <2>1. /\ UNCHANGED <<adding, transfer>>
        /\ \A d \in Bodies : Content(body[d])' = Content(body[d])
    BY <1>2, CreateContent DEF SameBody
  <2>2. UNCHANGED <<adding, contents, sents, outcomes>>
    BY <2>1, SameContents, SameTransfers
  <2> QED BY <2>2 DEF Promise!promise, contents, sents, outcomes
<1>3. ASSUME NEW b \in Bodies, BufferInMemory(b) \/ BufferOnDisk(b) PROVE Promise!Accept(b)
  BY <1>3, MemoryContent, DiskContent, AcceptMapped
<1> QED BY <1>1, <1>2, <1>3, AddingMapped, DropMapped, CopyMapped, SendMapped
        DEF Next, Promise!PromiseNext

(* Memory and file together are one sequence of bytes, for any number of    *)
(* messages and copies: what add_body adds comes behind what was there, a   *)
(* copy is not changed by what becomes of its original, and all of a body   *)
(* is sent, in order, where sendfile sends all that it is asked for.        *)
THEOREM BodyKeepsPromise ==
  ASSUME ~ShortSendfile
  PROVE  Spec => KeepsPromise
<1>1. Init => Promise!PromiseInit
  BY PromiseInitially
<1>2. IInv /\ Transfers /\ IInv' /\ [Next]_vars => [Promise!PromiseNext]_(Promise!promise)
  BY StepsMapped
<1> QED BY <1>1, <1>2, TransferInvariant, PTL DEF Spec, KeepsPromise, Promise!PromiseSpec
=============================================================================
