--------------------------- MODULE NifLoad_proofs ---------------------------
(***************************************************************************)
(* The properties of NifLoad, for files of any length.                     *)
(*                                                                         *)
(* They speak of what was read; why the next block is read rightly depends *)
(* on where the device is and on how many rows there are.  IInv adds that  *)
(* there is a row for each block as long as none was unknown, and that the *)
(* device is at the next block as long as it could be read up to there.    *)
(***************************************************************************)
EXTENDS NifLoad, TLAPS

Rows == [type : Nat, of : Nat, whole : BOOLEAN, links : Seq(Int)]

IsMap(map) == \A id \in DOMAIN map : map[id] \in Int

Typed ==
  /\ file \in Files
  /\ doc \in Seq(Rows) /\ Len(doc) <= Count
  /\ c \in 0 .. Count /\ place \in 0 .. Count + 1 /\ footer \in 0 .. Count + 1
  /\ phase \in {"loading", "loaded", "failed"}
  /\ IsMap(linkMap)

(* Rows that a step may make of doc: none with the contents of another     *)
(* block, and the ones there were as they were.                            *)
RowOK(d, b) ==
  /\ d[b].type \in b .. Count /\ d[b].of \in {0, d[b].type}
  /\ d[b].type # b => d[b].of = 0

RowsGood(d) ==
  /\ d \in Seq(Rows) /\ Len(d) <= Count
  /\ \A b \in 1 .. Len(d) : RowOK(d, b)
  /\ \A b \in 1 .. Len(doc) : b <= Len(d) /\ d[b] = doc[b]

(* No row is ahead of the counter, and as long as no block was unknown     *)
(* there is one for each; only a file with sizes survives such a block.    *)
(* The device is at the next block, if that could be reached, and behind a *)
(* block that the file ends in only in a file on disk, with sizes.         *)
Within ==
  file.cut \in 1 .. Count => c < file.cut \/ (c = file.cut /\ Sized /\ ~ file.archived)

InStep ==
  /\ \A b \in 1 .. Len(doc) : RowOK(doc, b)
  /\ \A k \in 1 .. c : Known(k) => k <= Len(doc)
  /\ phase = "loading" =>
       /\ Len(doc) <= c
       /\ ~ Sized => Known(c)
       /\ Reached(c + 1) => place = c + 1 /\ Within

IInv == Typed /\ InStep /\ ReadableIsRead

(* What a file is.                                                         *)
LEMMA FileTyped ==
  ASSUME file \in Files
  PROVE  /\ file.format \in Formats /\ file.cut \in Nat
         /\ file.archived \in BOOLEAN
         /\ file.blocks \in Seq(BlocksInFile) /\ Count \in Nat
         /\ \A k \in 1 .. Count : file.blocks[k] \in BlocksInFile
<1>1. file \in [format : Formats, archived : BOOLEAN, cut : Nat, blocks : Seq(BlocksInFile)]
  BY FilesAssumption
<1>2. /\ file.format \in Formats /\ file.cut \in Nat /\ file.archived \in BOOLEAN
      /\ file.blocks \in Seq(BlocksInFile)
  BY <1>1
<1>3. Count \in Nat /\ \A k \in 1 .. Count : file.blocks[k] \in BlocksInFile
  <2> DEFINE B == BlocksInFile
             s == file.blocks
  <2>1. s \in Seq(B)
    BY <1>2
  <2> HIDE DEF B, s
  <2>2. Len(s) \in Nat /\ \A k \in 1 .. Len(s) : s[k] \in B
    BY <2>1
  <2> QED  BY <2>2 DEF Count, B, s
<1> QED  BY <1>2, <1>3

(* mapLinks changes the links of the rows and nothing else.                *)
LEMMA MapLinksKeeps ==
  ASSUME NEW d \in Seq(Rows), NEW map, IsMap(map)
  PROVE  /\ MapLinks(d, map) \in Seq(Rows) /\ Len(MapLinks(d, map)) = Len(d)
         /\ \A b \in 1 .. Len(d) :
              /\ MapLinks(d, map)[b].type = d[b].type
              /\ MapLinks(d, map)[b].of = d[b].of
              /\ MapLinks(d, map)[b].whole = d[b].whole
<1> DEFINE Mapped(l) == IF l \in DOMAIN map THEN map[l] ELSE l
           New(b) == [d[b] EXCEPT !.links = [r \in DOMAIN @ |-> Mapped(@[r])]]
           n == Len(d)
<1>1. MapLinks(d, map) = [b \in DOMAIN d |-> New(b)]
  BY DEF MapLinks
<1>2. DOMAIN d = 1 .. n /\ n \in Nat /\ \A b \in 1 .. n : d[b] \in Rows
  OBVIOUS
<1>3. ASSUME NEW l \in Int PROVE Mapped(l) \in Int
  BY DEF IsMap
<1>4. ASSUME NEW b \in 1 .. n
      PROVE  /\ New(b) \in Rows /\ New(b).type = d[b].type
             /\ New(b).of = d[b].of /\ New(b).whole = d[b].whole
  <2>1. d[b] \in [type : Nat, of : Nat, whole : BOOLEAN, links : Seq(Int)]
    BY <1>2 DEF Rows
  <2> DEFINE new == [r \in DOMAIN d[b].links |-> Mapped(d[b].links[r])]
  <2>2. new \in Seq(Int)
    <3>1. DOMAIN d[b].links = 1 .. Len(d[b].links) /\ Len(d[b].links) \in Nat
          /\ \A r \in 1 .. Len(d[b].links) : d[b].links[r] \in Int
      BY <2>1
    <3>2. new = [r \in 1 .. Len(d[b].links) |-> Mapped(d[b].links[r])]
      BY <3>1
    <3>3. \A r \in 1 .. Len(d[b].links) : Mapped(d[b].links[r]) \in Int
      <4> TAKE r \in 1 .. Len(d[b].links)
      <4>1. d[b].links[r] \in Int
        BY <3>1
      <4> HIDE DEF Mapped
      <4> QED  BY <4>1, <1>3
    <3> HIDE DEF Mapped, new
    <3> QED  BY <3>1, <3>2, <3>3
  <2>3. New(b) = [d[b] EXCEPT !.links = new]
    OBVIOUS
  <2> HIDE DEF new, New
  <2> QED  BY <2>1, <2>2, <2>3 DEF Rows
<1> HIDE DEF New, n
<1>5. /\ MapLinks(d, map) = [b \in 1 .. n |-> New(b)]
      /\ n \in Nat
  BY <1>1, <1>2
<1>6. MapLinks(d, map) \in Seq(Rows) /\ Len(MapLinks(d, map)) = n
  BY <1>4, <1>5
<1> QED  BY <1>4, <1>5, <1>6 DEF n

(* The map of an old file stays one from ids to numbers.                   *)
LEMMA MapWithIdTyped ==
  ASSUME IInv, c < Count
  PROVE  IsMap(MapWithId)
<1>1. IsMap(linkMap) /\ c \in Int
  BY FileTyped DEF IInv, Typed
<1> QED  BY <1>1 DEF MapWithId, IsMap

(* A load that fails keeps what was read.                                  *)
LEMMA FailKeeps ==
  ASSUME IInv, NEW d, NEW map, RowsGood(d), IsMap(map), Fail(d, map)
  PROVE  IInv'
<1> DEFINE m == MapLinks(d, map)
<1>1. /\ phase' = "failed" /\ doc' = m /\ linkMap' = map
      /\ file' = file /\ footer' = footer /\ c' = c /\ place' = place
  BY DEF Fail
<1>2. /\ m \in Seq(Rows) /\ Len(m) = Len(d)
      /\ \A b \in 1 .. Len(d) : m[b].type = d[b].type /\ m[b].of = d[b].of /\ m[b].whole = d[b].whole
  BY MapLinksKeeps DEF RowsGood
<1> HIDE DEF m
<1>3. Count' = Count /\ \A k : Known(k)' = Known(k) /\ Reached(k)' = Reached(k)
  BY <1>1 DEF Count, Known, Reached, Sized
<1>4. Len(doc) \in Nat /\ Len(d) \in Nat /\ Count \in Nat /\ c \in Nat
  BY FileTyped DEF IInv, Typed, RowsGood
<1>5. Typed'
  BY <1>1, <1>2, <1>3 DEF IInv, Typed, RowsGood, IsMap
<1>6. InStep'
  <2>1. \A b \in 1 .. Len(doc') : RowOK(doc, b)'
    BY <1>1, <1>2, <1>3 DEF RowsGood, RowOK
  <2>2. \A k \in 1 .. c : Known(k) => k <= Len(doc')
    <3> TAKE k \in 1 .. c
    <3> HAVE Known(k)
    <3>1. k \in 1 .. Len(doc)
      BY <1>4 DEF IInv, InStep
    <3> QED  BY <3>1, <1>1, <1>2 DEF RowsGood
  <2> QED  BY <2>1, <2>2, <1>1, <1>3 DEF InStep
<1>7. ReadableIsRead'
  <2>1. ASSUME NEW k \in 1 .. c, Known(k), Reached(k), file.blocks[k].reads = "well", file.cut # k
        PROVE  m[k].type = k /\ m[k].of = k /\ m[k].whole
    <3>1. doc[k].type = k /\ doc[k].of = k /\ doc[k].whole
      BY <2>1 DEF IInv, ReadableIsRead
    <3>2. k \in 1 .. Len(doc)
      BY <2>1, <1>4 DEF IInv, InStep
    <3>3. k \in 1 .. Len(d) /\ d[k] = doc[k]
      BY <3>2, <1>4 DEF RowsGood
    <3>4. m[k].type = d[k].type /\ m[k].of = d[k].of /\ m[k].whole = d[k].whole
      BY <1>2, <3>3
    <3> QED  BY <3>1, <3>3, <3>4
  <2> QED  BY <2>1, <1>1, <1>3 DEF ReadableIsRead
<1> QED  BY <1>5, <1>6, <1>7 DEF IInv

(* A step to the next block keeps the invariant, if the rows it made are   *)
(* good, one is there for the block unless one was unknown, it is read if  *)
(* it could be, and the device is then behind it.                          *)
LEMMA AdvanceKeeps ==
  ASSUME IInv, phase = "loading", c < Count,
         NEW d, NEW map, NEW foot \in 0 .. Count + 1, NEW next \in 0 .. Count + 1,
         RowsGood(d), Len(d) <= c + 1, IsMap(map),
         Known(c + 1) => c + 1 <= Len(d),
         ~ Sized => Known(c + 1),
         (Known(c + 1) /\ Reached(c + 1) /\ file.blocks[c + 1].reads = "well" /\ file.cut # c + 1) =>
            d[c + 1].type = c + 1 /\ d[c + 1].of = c + 1 /\ d[c + 1].whole,
         Reached(c + 2) => next = c + 2,
         Reached(c + 2) /\ file.cut \in 1 .. Count =>
           c + 1 < file.cut \/ (c + 1 = file.cut /\ Sized /\ ~ file.archived),
         doc' = d, footer' = foot, c' = c + 1, place' = next, linkMap' = map,
         UNCHANGED <<file, phase>>
  PROVE  IInv'
<1>3. Count' = Count /\ \A k : Known(k)' = Known(k) /\ Reached(k)' = Reached(k)
  BY DEF Count, Known, Reached, Sized
<1>4. Len(doc) \in Nat /\ Len(d) \in Nat /\ Count \in Nat /\ c \in Nat
  BY FileTyped DEF IInv, Typed, RowsGood
<1>5. Typed'
  BY <1>3, <1>4 DEF IInv, Typed, RowsGood, IsMap
<1>6. InStep'
  <2>1. \A b \in 1 .. Len(doc') : RowOK(doc, b)'
    BY <1>3 DEF RowsGood, RowOK
  <2>2. \A k \in 1 .. c + 1 : Known(k) => k <= Len(d)
    <3> TAKE k \in 1 .. c + 1
    <3> HAVE Known(k)
    <3>1. CASE k = c + 1
      BY <3>1
    <3>2. CASE k # c + 1
      <4>1. k \in 1 .. c
        BY <3>2, <1>4
      <4>2. k \in 1 .. Len(doc)
        BY <4>1, <1>4 DEF IInv, InStep
      <4> QED  BY <4>2 DEF RowsGood
    <3> QED  BY <3>1, <3>2
  <2>3. (~ Sized)' = ~ Sized
    BY DEF Sized
  <2>4. c + 1 + 1 = c + 2
    BY <1>4
  <2>5. Reached(c + 2) => Within'
    BY <1>3, <2>3 DEF Within
  <2> QED  BY <2>1, <2>2, <2>3, <2>4, <2>5, <1>3 DEF InStep
<1>7. ReadableIsRead'
  <2>1. ASSUME NEW k \in 1 .. c + 1, Known(k), Reached(k), file.blocks[k].reads = "well", file.cut # k
        PROVE  d[k].type = k /\ d[k].of = k /\ d[k].whole
    <3>1. CASE k = c + 1
      BY <2>1, <3>1
    <3>2. CASE k # c + 1
      <4>1. k \in 1 .. c
        BY <3>2, <1>4
      <4>2. doc[k].type = k /\ doc[k].of = k /\ doc[k].whole
        BY <2>1, <4>1 DEF IInv, ReadableIsRead
      <4>3. k \in 1 .. Len(doc)
        BY <2>1, <4>1, <1>4 DEF IInv, InStep
      <4> QED  BY <4>2, <4>3 DEF RowsGood
    <3> QED  BY <3>1, <3>2
  <2>2. phase' = "loading"
    OBVIOUS
  <2> QED  BY <2>1, <2>2, <1>3 DEF ReadableIsRead
<1> QED  BY <1>5, <1>6, <1>7 DEF IInv

LEMMA DocGood ==
  ASSUME IInv
  PROVE  RowsGood(doc) /\ Len(doc) \in Nat /\ c \in Nat /\ Count \in Nat
BY FileTyped DEF IInv, Typed, InStep, RowsGood

(* Each step.                                                              *)
LEMMA InitHolds ==
  ASSUME Init
  PROVE  IInv
<1>1. file \in Files /\ doc = <<>> /\ footer = 0 /\ c = 0 /\ place = 1 /\ linkMap = <<>> /\ phase = "loading"
  BY DEF Init
<1>2. Count \in Nat
  BY <1>1, FileTyped
<1>3. Typed
  BY <1>1, <1>2 DEF Typed, IsMap
<1>4. InStep
  BY <1>1, <1>2 DEF InStep, Known, Within
<1>5. ReadableIsRead
  BY <1>1 DEF ReadableIsRead
<1> QED  BY <1>3, <1>4, <1>5 DEF IInv

LEMMA EndOfFileKeeps ==
  ASSUME IInv, EndOfFile
  PROVE  IInv'
<1>1. Fail(doc, linkMap) /\ IsMap(linkMap)
  BY DEF EndOfFile, IInv, Typed
<1> QED  BY <1>1, DocGood, FailKeeps

(* The device is not beyond the end before a block, nor behind it unless a  *)
(* seek took it there.                                                     *)
LEMMA StaysWithin ==
  ASSUME IInv, TypeRead, Sized => CanSeek, Reached(c + 2), ~ Sized => file.cut # c + 1
  PROVE  file.cut \in 1 .. Count =>
           c + 1 < file.cut \/ (c + 1 = file.cut /\ Sized /\ ~ file.archived)
<1>1. phase = "loading" /\ c \in Nat /\ Count \in Nat /\ file.cut \in Nat /\ ~ Beyond
  BY DocGood, FileTyped DEF TypeRead, IInv, Typed
<1>2. Reached(c + 1)
  BY <1>1 DEF Reached
<1>3. place = c + 1
  BY <1>1, <1>2 DEF IInv, InStep
<1>4. file.cut # 0 => c + 1 <= file.cut
  BY <1>1, <1>3 DEF Beyond
<1>5. file.cut = c + 1 => Sized /\ ~ file.archived
  BY DEF CanSeek
<1> QED  BY <1>1, <1>4, <1>5

LEMMA UnknownBlockKeeps ==
  ASSUME IInv, UnknownBlock
  PROVE  IInv'
<1>1. /\ phase = "loading" /\ c < Count /\ ~ file.blocks[c + 1].known
      /\ TypeRead /\ Proceed(doc, footer, MapWithId, "fails")
  BY DEF UnknownBlock, TypeRead
<1>2. RowsGood(doc) /\ c \in Nat /\ Count \in Nat /\ Len(doc) \in Nat /\ IsMap(MapWithId)
  BY <1>1, DocGood, MapWithIdTyped
<1>3. CASE Fail(doc, MapWithId)
  BY <1>2, <1>3, FailKeeps
<1>4. CASE /\ CanSeek
           /\ doc' = doc /\ footer' = footer /\ c' = c + 1 /\ place' = Seek("fails")
           /\ linkMap' = MapWithId /\ UNCHANGED <<file, phase>>
  <2>1. ~ Known(c + 1)
    BY <1>1, <1>2 DEF Known
  <2>2. Len(doc) <= c + 1 /\ footer \in 0 .. Count + 1
    BY <1>1, <1>2 DEF IInv, InStep, Typed
  <2>3. Seek("fails") = c + 2 /\ c + 2 \in 0 .. Count + 1
    BY <1>1, <1>2, <1>4 DEF Seek, CanSeek
  <2>4. Sized /\ (Reached(c + 2) /\ file.cut \in 1 .. Count =>
          c + 1 < file.cut \/ (c + 1 = file.cut /\ Sized /\ ~ file.archived))
    BY <1>1, <1>4, StaysWithin DEF CanSeek
  <2> HIDE DEF IInv, RowsGood, Known, Reached, IsMap
  <2> QED  BY <1>1, <1>2, <1>4, <2>1, <2>2, <2>3, <2>4, AdvanceKeeps
<1> QED  BY <1>1, <1>3, <1>4 DEF Proceed

(* The row insertNiBlock makes, loaded or not, is a good one.              *)
LEMMA AppendedGood ==
  ASSUME IInv, phase = "loading", c < Count, NEW row \in Rows,
         row.type = c + 1, row.of \in {0, c + 1}, Len(doc) < c => row.of = 0
  PROVE  /\ RowsGood(Append(doc, row)) /\ Len(Append(doc, row)) = Len(doc) + 1
         /\ Append(doc, row)[Len(doc) + 1] = row
<1>1. Len(doc) \in Nat /\ c \in Nat /\ Count \in Nat /\ doc \in Seq(Rows) /\ Len(doc) <= c
  BY DocGood DEF IInv, Typed, InStep
<1> DEFINE d == Append(doc, row)
<1>2. /\ d \in Seq(Rows) /\ Len(d) = Len(doc) + 1 /\ d[Len(doc) + 1] = row
      /\ \A b \in 1 .. Len(doc) : d[b] = doc[b]
  BY <1>1
<1> HIDE DEF d
<1>3. \A b \in 1 .. Len(d) : RowOK(d, b)
  <2> TAKE b \in 1 .. Len(d)
  <2>1. CASE b \in 1 .. Len(doc)
    BY <2>1, <1>2 DEF IInv, InStep, RowOK
  <2>2. CASE b = Len(doc) + 1
    BY <2>2, <1>1, <1>2 DEF RowOK
  <2> QED  BY <2>1, <2>2, <1>1, <1>2
<1> QED  BY <1>1, <1>2, <1>3 DEF RowsGood, d

LEMMA Appended ==
  ASSUME NEW S, NEW s \in Seq(S), NEW e \in S
  PROVE  /\ Len(Append(s, e)) = Len(s) + 1 /\ DOMAIN Append(s, e) = 1 .. Len(s) + 1
         /\ Append(s, e)[Len(s) + 1] = e
         /\ Append(s, e) = [b \in 1 .. Len(s) + 1 |-> IF b = Len(s) + 1 THEN e ELSE s[b]]
<1> DEFINE n == Len(s) + 1
           t == Append(s, e)
<1>1. /\ t \in Seq(S) /\ Len(t) = n /\ t[n] = e /\ n \in Nat
      /\ \A b \in 1 .. n : b # n => t[b] = s[b]
  OBVIOUS
<1> HIDE DEF n, t
<1>2. DOMAIN t = 1 .. n /\ t = [b \in 1 .. n |-> t[b]]
  BY <1>1
<1>3. \A b \in 1 .. n : t[b] = IF b = n THEN e ELSE s[b]
  BY <1>1
<1>4. t = [b \in 1 .. n |-> IF b = n THEN e ELSE s[b]]
  BY <1>2, <1>3
<1> QED  BY <1>1, <1>2, <1>4 DEF n, t

(* The row of a block, before and after its items are loaded.              *)
Empty == Row(c + 1, 0, FALSE, <<>>)
Read(outcome) ==
  IF place = c + 1 THEN Row(c + 1, c + 1, outcome = "well", file.blocks[c + 1].links) ELSE Empty

LEMMA RowsTyped ==
  ASSUME IInv, c < Count, NEW outcome
  PROVE  /\ file.blocks[c + 1] \in BlocksInFile
         /\ Empty \in Rows /\ Empty.type = c + 1 /\ Empty.of = 0
         /\ Read(outcome) \in Rows /\ Read(outcome).type = c + 1 /\ Read(outcome).of \in {0, c + 1}
         /\ place = c + 1 => /\ Read(outcome).of = c + 1 /\ Read(outcome).whole = (outcome = "well")
                             /\ Read(outcome).links = file.blocks[c + 1].links
<1>1. c + 1 \in 1 .. Count /\ c + 1 \in Nat /\ file \in Files
  BY DocGood DEF IInv, Typed
<1>2. file.blocks[c + 1] \in BlocksInFile
  BY <1>1, FileTyped
<1>3. file.blocks[c + 1].links \in Seq(Int)
  BY <1>2 DEF BlocksInFile
<1>4. Empty \in Rows /\ Empty.type = c + 1 /\ Empty.of = 0
  BY <1>1 DEF Empty, Row, Rows
<1>5. CASE place = c + 1
  <2>1. Read(outcome) = Row(c + 1, c + 1, outcome = "well", file.blocks[c + 1].links)
    BY <1>5 DEF Read
  <2>2. (outcome = "well") \in BOOLEAN
    OBVIOUS
  <2> QED  BY <1>1, <1>2, <1>3, <1>4, <1>5, <2>1, <2>2 DEF Row, Rows
<1>6. CASE place # c + 1
  BY <1>2, <1>4, <1>6 DEF Read
<1> QED  BY <1>5, <1>6

(* Which row is loaded: if there is one for each block so far, the new one.*)
LEMMA RowLoaded ==
  ASSUME IInv, NEW outcome, KnownBlock(outcome), Len(doc) = c
  PROVE  /\ Proceed(Append(doc, Read(outcome)), footer, MapWithId, outcome)
         /\ place = c + 1 /\ file.cut # c + 1 => outcome = file.blocks[c + 1].reads
         /\ place = c + 1 /\ file.cut = c + 1 => outcome \in {"fails", file.blocks[c + 1].reads} \ {"well"}
<1> DEFINE block == file.blocks[c + 1]
           rows  == Append(doc, Empty)
           loaded == [rows EXCEPT ![c + 1] =
                        IF place = c + 1 THEN Row(@.type, c + 1, outcome = "well", block.links)
                                         ELSE Row(@.type, 0, FALSE, <<>>)]
<1>1. c < Count /\ c \in Nat /\ doc \in Seq(Rows)
  BY DocGood DEF KnownBlock, TypeRead, RowsGood
<1>2. Empty \in Rows /\ Empty.type = c + 1 /\ Read(outcome) \in Rows
  BY <1>1, RowsTyped
<1>3. /\ Len(rows) = c + 1 /\ DOMAIN rows = 1 .. c + 1 /\ rows[c + 1] = Empty
      /\ rows = [b \in 1 .. c + 1 |-> IF b = c + 1 THEN Empty ELSE doc[b]]
  BY <1>1, <1>2, Appended
<1>4. loaded = [rows EXCEPT ![c + 1] = Read(outcome)]
  BY <1>2, <1>3 DEF Read, Empty
<1>5. Append(doc, Read(outcome)) = [b \in 1 .. c + 1 |-> IF b = c + 1 THEN Read(outcome) ELSE doc[b]]
  BY <1>1, <1>2, Appended
<1>6. loaded = Append(doc, Read(outcome))
  <2> HIDE DEF loaded, rows
  <2> QED  BY <1>1, <1>3, <1>4, <1>5
<1>7. RowToLoad = c + 1 /\ RowToLoad \in DOMAIN rows /\ RowToLoad <= Len(rows)
  BY <1>1, <1>3 DEF RowToLoad
<1>8. Proceed(loaded, footer, MapWithId, outcome)
  BY <1>7 DEF KnownBlock, RowToLoad, Empty
<1>9. place = c + 1 =>
        outcome \in IF file.cut = c + 1 THEN {"fails", block.reads} \ {"well"} ELSE {block.reads}
  BY <1>1, <1>3, <1>7 DEF KnownBlock, RowToLoad, Empty
<1> HIDE DEF loaded
<1> QED  BY <1>6, <1>8, <1>9

LEMMA KnownBlockKeeps ==
  ASSUME IInv, NEW outcome \in Outcomes, KnownBlock(outcome)
  PROVE  IInv'
<1> DEFINE block == file.blocks[c + 1]
<1>1. phase = "loading" /\ c < Count /\ block.known /\ TypeRead
  BY DEF KnownBlock, TypeRead
<1>2. RowsGood(doc) /\ c \in Nat /\ Count \in Nat /\ Len(doc) \in Nat /\ IsMap(MapWithId)
  BY <1>1, DocGood, MapWithIdTyped
<1>3. Len(doc) <= c /\ footer \in 0 .. Count + 1
  BY <1>1 DEF IInv, InStep, Typed
<1>4. Known(c + 1) <=> Known(c)
  BY <1>1, <1>2 DEF Known
<1>5. Known(c) => c <= Len(doc)
  BY <1>2 DEF IInv, InStep, Known
<1>6. ~ Sized => Known(c)
  BY <1>1 DEF IInv, InStep
<1>7. Reached(c + 1) => place = c + 1
  BY <1>1 DEF IInv, InStep
<1>8. ASSUME NEW d, NEW foot \in 0 .. Count + 1, RowsGood(d), Len(d) <= c + 1,
             Proceed(d, foot, MapWithId, outcome),
             Known(c) => c + 1 <= Len(d),
             (Known(c) /\ Reached(c + 1) /\ block.reads = "well" /\ file.cut # c + 1) =>
               d[c + 1].type = c + 1 /\ d[c + 1].of = c + 1 /\ d[c + 1].whole,
             (~ Sized /\ place = c + 1 /\ block.reads = "well") =>
               outcome = "fails" \/ (outcome = "well" /\ file.cut # c + 1)
      PROVE  IInv'
  <2>1. CASE Fail(d, MapWithId)
    BY <2>1, <1>2, <1>8, FailKeeps
  <2>2. CASE /\ ~ ((outcome = "fails" \/ Sized) /\ ~ CanSeek)
             /\ doc' = d /\ footer' = foot /\ c' = c + 1 /\ place' = Seek(outcome)
             /\ linkMap' = MapWithId /\ UNCHANGED <<file, phase>>
    <3>1. Seek(outcome) \in 0 .. Count + 1
      BY <1>1, <1>2 DEF Seek
    <3>2. ASSUME Reached(c + 2), ~ Sized PROVE outcome = "well" /\ file.cut # c + 1
      <4>1. \A j \in 1 .. c + 1 : file.blocks[j].reads = "well"
        BY <3>2, <1>2 DEF Reached
      <4>2. Reached(c + 1) /\ block.reads = "well"
        BY <4>1, <1>2 DEF Reached
      <4>3. outcome # "fails"
        BY <3>2, <2>2 DEF CanSeek
      <4> QED  BY <3>2, <4>2, <4>3, <1>7, <1>8
    <3>3. Reached(c + 2) => Seek(outcome) = c + 2
      BY <3>2 DEF Seek
    <3>4. Reached(c + 2) /\ file.cut \in 1 .. Count =>
            c + 1 < file.cut \/ (c + 1 = file.cut /\ Sized /\ ~ file.archived)
      BY <1>1, <2>2, <3>2, StaysWithin
    <3>5. ~ Sized => Known(c + 1)
      BY <1>4, <1>6
    <3>6. (Known(c + 1) /\ Reached(c + 1) /\ file.blocks[c + 1].reads = "well" /\ file.cut # c + 1) =>
            d[c + 1].type = c + 1 /\ d[c + 1].of = c + 1 /\ d[c + 1].whole
      BY <1>4, <1>8
    <3> HIDE DEF block
    <3> QED  BY <1>1, <1>2, <1>4, <1>8, <2>2, <3>1, <3>3, <3>4, <3>5, <3>6, AdvanceKeeps
  <2> QED  BY <1>8, <2>1, <2>2 DEF Proceed
<1>9. CASE Len(doc) = c
  <2> DEFINE d == Append(doc, Read(outcome))
  <2>1. /\ Proceed(d, footer, MapWithId, outcome)
        /\ place = c + 1 /\ file.cut # c + 1 => outcome = block.reads
        /\ place = c + 1 /\ file.cut = c + 1 => outcome \in {"fails", block.reads} \ {"well"}
    BY <1>9, RowLoaded
  <2>2. RowsGood(d) /\ Len(d) = c + 1 /\ d[c + 1] = Read(outcome)
    BY <1>1, <1>9, RowsTyped, AppendedGood
  <2>3. ASSUME Known(c), Reached(c + 1), block.reads = "well", file.cut # c + 1
        PROVE  d[c + 1].type = c + 1 /\ d[c + 1].of = c + 1 /\ d[c + 1].whole
    <3>1. place = c + 1 /\ outcome = "well"
      BY <2>1, <2>3, <1>7
    <3>2. Read(outcome).type = c + 1 /\ Read(outcome).of = c + 1 /\ Read(outcome).whole = TRUE
      BY <3>1, <1>1, RowsTyped
    <3> HIDE DEF d
    <3> QED  BY <2>2, <3>2
  <2>4. (place = c + 1 /\ block.reads = "well") =>
          outcome = "fails" \/ (outcome = "well" /\ file.cut # c + 1)
    BY <2>1
  <2> HIDE DEF d, block
  <2>5. Len(d) <= c + 1 /\ c + 1 <= Len(d)
    BY <2>2, <1>2
  <2> QED  BY <1>3, <1>8, <2>1, <2>2, <2>3, <2>4, <2>5
<1>10. CASE Len(doc) < c
  <2> DEFINE d == Append(doc, Empty)
             foot == IF RowToLoad = Len(d) + 1 THEN c + 1 ELSE footer
  <2>1. Empty \in Rows /\ Empty.type = c + 1 /\ Empty.of = 0
    BY <1>1, RowsTyped
  <2>2. RowsGood(d) /\ Len(d) = Len(doc) + 1
    BY <1>1, <2>1, AppendedGood
  <2>3. ~ Known(c) /\ Sized
    BY <1>5, <1>6, <1>2, <1>10
  <2>4. DOMAIN d = 1 .. Len(doc) + 1
    BY <1>2, <2>1, Appended DEF RowsGood
  <2>5. RowToLoad \notin DOMAIN d
    BY <1>2, <1>10, <2>4 DEF RowToLoad
  <2>6. Proceed(d, foot, MapWithId, outcome)
    BY <2>5 DEF KnownBlock, Empty
  <2>7. foot \in 0 .. Count + 1
    BY <1>1, <1>2, <1>3
  <2>8. Len(d) <= c + 1
    BY <2>2, <1>2, <1>10
  <2> HIDE DEF block, d, foot
  <2> QED  BY <1>8, <2>2, <2>3, <2>6, <2>7, <2>8
<1> QED  BY <1>2, <1>3, <1>9, <1>10

LEMMA FinishKeeps ==
  ASSUME IInv, Finish
  PROVE  IInv'
<1> DEFINE m == MapLinks(doc, linkMap)
<1>1. /\ phase = "loading" /\ c = Count /\ phase' = "loaded" /\ doc' = m
      /\ footer' = (IF Old THEN footer ELSE IF place = Count + 1 /\ file.cut = 0 THEN Count + 1 ELSE 0)
      /\ UNCHANGED <<file, c, place, linkMap>>
  BY DEF Finish
<1>2. /\ m \in Seq(Rows) /\ Len(m) = Len(doc)
      /\ \A b \in 1 .. Len(doc) : m[b].type = doc[b].type /\ m[b].of = doc[b].of /\ m[b].whole = doc[b].whole
  BY MapLinksKeeps DEF IInv, Typed
<1> HIDE DEF m
<1>3. Count' = Count /\ Old' = Old /\ \A k : Known(k)' = Known(k) /\ Reached(k)' = Reached(k)
  BY <1>1 DEF Count, Known, Reached, Sized, Old
<1>4. Len(doc) \in Nat /\ Count \in Nat /\ c \in Nat
  BY DocGood
<1>5. Typed'
  BY <1>1, <1>2, <1>3, <1>4 DEF IInv, Typed
<1>6. InStep'
  BY <1>1, <1>2, <1>3 DEF IInv, InStep, RowOK
<1>7. ReadableIsRead'
  <2>1. ASSUME NEW k \in 1 .. c, Known(k), Reached(k), file.blocks[k].reads = "well", file.cut # k
        PROVE  m[k].type = k /\ m[k].of = k /\ m[k].whole
    <3>1. doc[k].type = k /\ doc[k].of = k /\ doc[k].whole
      BY <2>1 DEF IInv, ReadableIsRead
    <3>2. k \in 1 .. Len(doc)
      BY <2>1, <1>4 DEF IInv, InStep
    <3> QED  BY <3>1, <3>2, <1>2
  <2>2. Reached(Count + 1) => place = Count + 1 /\ Within
    BY <1>1 DEF IInv, InStep
  <2>3. (Reached(Count + 1) /\ ~ Old /\ file.cut = 0) => footer' = Count + 1
    BY <1>1, <2>2
  <2>4. (Reached(Count + 1) /\ file.cut \in 1 .. Count) =>
          Sized /\ ~ file.archived /\ file.cut = Count
    BY <1>1, <1>4, <2>2 DEF Within
  <2>5. Sized' = Sized /\ file' = file /\ c' = c /\ doc' = m
    BY <1>1 DEF Sized
  <2> QED  BY <2>1, <2>3, <2>4, <2>5, <1>3 DEF ReadableIsRead
<1> QED  BY <1>5, <1>6, <1>7 DEF IInv

LEMMA NextKeeps ==
  ASSUME IInv, [Next]_vars
  PROVE  IInv'
<1>1. CASE EndOfFile
  BY <1>1, EndOfFileKeeps
<1>2. CASE UnknownBlock
  BY <1>2, UnknownBlockKeeps
<1>3. CASE Finish
  BY <1>3, FinishKeeps
<1>4. ASSUME NEW outcome \in Outcomes, KnownBlock(outcome)
      PROVE  IInv'
  BY <1>4, KnownBlockKeeps
<1>5. CASE UNCHANGED vars
  BY <1>5 DEF vars, IInv, Typed, InStep, ReadableIsRead, RowOK, IsMap, Count, Known, Reached, Sized, Old, Within
<1> QED  BY <1>1, <1>2, <1>3, <1>4, <1>5 DEF Next

THEOREM Invariance == Spec => []IInv
<1>1. Init => IInv
  BY InitHolds
<1>2. IInv /\ [Next]_vars => IInv'
  BY NextKeeps
<1> QED  BY <1>1, <1>2, PTL DEF Spec

(* load never puts the contents of a block into a row of another type, and *)
(* leaves the rows after an unknown block empty.                           *)
THEOREM Misplacing == Spec => []NothingMisplaced
<1>1. IInv => NothingMisplaced
  <2> SUFFICES ASSUME IInv PROVE NothingMisplaced
    OBVIOUS
  <2>1. DOMAIN doc = 1 .. Len(doc)
    BY DEF IInv, Typed
  <2> QED  BY <2>1 DEF IInv, InStep, RowOK, NothingMisplaced
<1> QED  BY <1>1, Invariance, PTL

(* load reads every block, and the footer, that can be read and reached.   *)
THEOREM Reading == Spec => []ReadableIsRead
<1>1. IInv => ReadableIsRead
  BY DEF IInv
<1> QED  BY <1>1, Invariance, PTL

----------------------------------------------------------------------------
(* Old files: each row has the links of its own block as they are in the   *)
(* file, and the map has the ids of these blocks that are not their numbers*)
(* and no other ids.                                                       *)
Id(k) == file.blocks[k].id

RowsAsRead(d) ==
  /\ d \in Seq(Rows) /\ Len(d) <= Count
  /\ \A b \in 1 .. Len(d) : d[b].of = b /\ d[b].links = file.blocks[b].links

MapOfIds(d, map) ==
  /\ \A k \in 1 .. Len(d) : Id(k) # k - 1 => Id(k) \in DOMAIN map /\ map[Id(k)] = k - 1
  /\ \A id \in DOMAIN map : \E k \in 1 .. Count : Id(k) = id /\ id # k - 1

OldInv ==
  /\ Old /\ phase = "loading" => RowsAsRead(doc) /\ MapOfIds(doc, linkMap)
  /\ LinksNameBlocks

LEMMA Distinct ==
  ASSUME IInv, Old, NEW j \in 1 .. Count, NEW k \in 1 .. Count, Id(j) = Id(k)
  PROVE  j = k
<1>1. file \in Files /\ file.format = "old" /\ DOMAIN file.blocks = 1 .. Count
  BY FileTyped DEF IInv, Typed, Old, Count
<1> QED  BY <1>1, FilesAssumption DEF Id

(* Whenever the links are mapped, they come to lead to the named blocks.   *)
LEMMA MappedNameBlocks ==
  ASSUME IInv, Old, NEW d, NEW map, IsMap(map), RowsAsRead(d), MapOfIds(d, map),
         doc' = MapLinks(d, map), file' = file
  PROVE  LinksNameBlocks'
<1> DEFINE m == MapLinks(d, map)
           Mapped(l) == IF l \in DOMAIN map THEN map[l] ELSE l
<1>1. Len(d) \in Nat /\ Count \in Nat /\ Len(d) <= Count /\ d \in Seq(Rows) /\ DOMAIN d = 1 .. Len(d)
  BY DocGood DEF RowsAsRead
<1>2. m \in Seq(Rows) /\ Len(m) = Len(d) /\ \A b \in 1 .. Len(d) : m[b].of = d[b].of
  BY <1>1, MapLinksKeeps
<1>3. ASSUME NEW b \in 1 .. Len(d)
      PROVE  m[b].links = [r \in DOMAIN file.blocks[b].links |-> Mapped(file.blocks[b].links[r])]
  <2>1. d[b] \in [type : Nat, of : Nat, whole : BOOLEAN, links : Seq(Int)]
    <3>1. d[b] \in Rows
      BY <1>1
    <3> QED  BY <3>1 DEF Rows
  <2>2. m[b] = [d[b] EXCEPT !.links = [r \in DOMAIN @ |-> Mapped(@[r])]]
    BY <1>1 DEF MapLinks
  <2>3. m[b].links = [r \in DOMAIN d[b].links |-> Mapped(d[b].links[r])]
    BY <2>1, <2>2
  <2> QED  BY <2>3 DEF RowsAsRead
<1> HIDE DEF m
<1>4. ASSUME NEW b \in 1 .. Len(d), NEW r \in DOMAIN m[b].links, NEW k \in 1 .. Len(d),
             file.blocks[m[b].of].links[r] = file.blocks[k].id
      PROVE  m[b].links[r] = k - 1
  <2>1. m[b].of = b
    BY <1>2 DEF RowsAsRead
  <2>2. m[b].links[r] = Mapped(Id(k))
    <3>1. m[b].links = [q \in DOMAIN file.blocks[b].links |-> Mapped(file.blocks[b].links[q])]
      BY <1>3
    <3>2. file.blocks[b].links[r] = Id(k)
      BY <1>4, <2>1 DEF Id
    <3>3. r \in DOMAIN file.blocks[b].links
      BY <1>4, <3>1
    <3> HIDE DEF Mapped
    <3> QED  BY <3>1, <3>2, <3>3
  <2>3. CASE Id(k) # k - 1
    BY <2>2, <2>3 DEF MapOfIds
  <2>4. CASE Id(k) = k - 1
    <3>1. Id(k) \notin DOMAIN map
      <4>1. SUFFICES ASSUME NEW j \in 1 .. Count, Id(j) = Id(k), Id(k) # j - 1 PROVE FALSE
        BY DEF MapOfIds
      <4>2. j = k
        BY <4>1, <1>1, Distinct
      <4> QED  BY <4>1, <4>2, <2>4
    <3> QED  BY <3>1, <2>2, <2>4
  <2> QED  BY <2>3, <2>4
<1>5. DOMAIN m = 1 .. Len(d)
  BY <1>2
<1>6. doc' = m
  BY DEF m
<1> QED  BY <1>4, <1>5, <1>6 DEF LinksNameBlocks

(* The map with the id of the block at hand serves the rows that exist and *)
(* the one made for it.                                                    *)
LEMMA MapGrows ==
  ASSUME IInv, Old, c < Count, Len(doc) = c, MapOfIds(doc, linkMap), NEW d, Len(d) \in {c, c + 1}
  PROVE  MapOfIds(d, MapWithId)
<1> DEFINE map == MapWithId
<1>1. c \in Nat /\ Count \in Nat
  BY DocGood
<1>2. map = (IF Id(c + 1) # c THEN [i \in DOMAIN linkMap \cup {Id(c + 1)} |-> IF i = Id(c + 1) THEN c ELSE linkMap[i]]
             ELSE linkMap)
  BY DEF MapWithId, Id
<1> HIDE DEF map
<1>3. ASSUME NEW k \in 1 .. Len(d), Id(k) # k - 1
      PROVE  Id(k) \in DOMAIN map /\ map[Id(k)] = k - 1
  <2>1. CASE k = c + 1
    BY <2>1, <1>1, <1>2, <1>3
  <2>2. CASE k # c + 1
    <3>1. k \in 1 .. c /\ k \in 1 .. Count /\ c + 1 \in 1 .. Count
      BY <2>2, <1>1
    <3>2. Id(k) \in DOMAIN linkMap /\ linkMap[Id(k)] = k - 1
      BY <3>1, <1>3 DEF MapOfIds
    <3>3. Id(k) # Id(c + 1)
      BY <2>2, <3>1, Distinct
    <3> QED  BY <3>2, <3>3, <1>2
  <2> QED  BY <2>1, <2>2
<1>4. ASSUME NEW id \in DOMAIN map
      PROVE  \E k \in 1 .. Count : Id(k) = id /\ id # k - 1
  <2>1. CASE id \in DOMAIN linkMap
    BY <2>1 DEF MapOfIds
  <2>2. CASE id \notin DOMAIN linkMap
    <3>1. id = Id(c + 1) /\ id # c
      BY <2>2, <1>2, <1>4
    <3>2. c + 1 \in 1 .. Count /\ c + 1 - 1 = c
      BY <1>1
    <3> QED  BY <3>1, <3>2
  <2> QED  BY <2>1, <2>2
<1> QED  BY <1>3, <1>4 DEF MapOfIds, map

LEMMA OldInit ==
  ASSUME Init
  PROVE  OldInv
<1>1. doc = <<>> /\ linkMap = <<>> /\ Count \in Nat /\ phase = "loading"
  BY FileTyped DEF Init
<1>2. RowsAsRead(doc)
  BY <1>1 DEF RowsAsRead
<1>3. MapOfIds(doc, linkMap)
  BY <1>1 DEF MapOfIds
<1> QED  BY <1>1, <1>2, <1>3 DEF OldInv, LinksNameBlocks

LEMMA OldKnownBlock ==
  ASSUME IInv, OldInv, Old, NEW outcome \in Outcomes, KnownBlock(outcome)
  PROVE  OldInv'
<1> DEFINE d == Append(doc, Read(outcome))
<1>1. phase = "loading" /\ c < Count /\ place = c + 1
  BY DEF KnownBlock, TypeRead, Old
<1>2. c \in Nat /\ Count \in Nat /\ doc \in Seq(Rows)
  BY DocGood DEF RowsGood
<1>3. Len(doc) = c
  <2>1. Known(c) /\ Len(doc) <= c
    BY <1>1 DEF IInv, InStep, Old, Sized
  <2>2. c <= Len(doc)
    BY <2>1, <1>2, DocGood DEF IInv, InStep, Known
  <2> QED  BY <2>1, <2>2, <1>2, DocGood
<1>4. RowsAsRead(doc) /\ MapOfIds(doc, linkMap)
  BY <1>1 DEF OldInv
<1>5. Proceed(d, footer, MapWithId, outcome)
  BY <1>3, RowLoaded
<1>6. /\ Read(outcome) \in Rows /\ Read(outcome).of = c + 1
      /\ Read(outcome).links = file.blocks[c + 1].links
  BY <1>1, RowsTyped
<1>7. /\ d \in Seq(Rows) /\ Len(d) = c + 1 /\ d[c + 1] = Read(outcome)
      /\ \A b \in 1 .. c : d[b] = doc[b]
  BY <1>2, <1>3, <1>6
<1> HIDE DEF d
<1>8. RowsAsRead(d)
  <2>1. ASSUME NEW b \in 1 .. c + 1
        PROVE  d[b].of = b /\ d[b].links = file.blocks[b].links
    <3>1. CASE b = c + 1
      BY <3>1, <1>6, <1>7
    <3>2. CASE b # c + 1
      <4>1. b \in 1 .. Len(doc) /\ d[b] = doc[b]
        BY <3>2, <1>2, <1>3, <1>7
      <4> QED  BY <4>1, <1>4 DEF RowsAsRead
    <3> QED  BY <3>1, <3>2
  <2> QED  BY <2>1, <1>1, <1>2, <1>7 DEF RowsAsRead
<1>9. MapOfIds(d, MapWithId) /\ IsMap(MapWithId)
  BY <1>1, <1>3, <1>4, <1>7, MapGrows, MapWithIdTyped
<1>10. CASE Fail(d, MapWithId)
  <2>1. phase' = "failed" /\ doc' = MapLinks(d, MapWithId) /\ file' = file
    BY <1>10 DEF Fail
  <2> QED  BY <2>1, <1>8, <1>9, MappedNameBlocks DEF OldInv
<1>11. CASE doc' = d /\ linkMap' = MapWithId /\ UNCHANGED <<file, phase>>
  <2>2. RowsAsRead(doc)'
    BY <1>8, <1>11 DEF RowsAsRead, Count
  <2>3. MapOfIds(doc, linkMap)'
    BY <1>9, <1>11 DEF MapOfIds, Count, Id
  <2> QED  BY <2>2, <2>3, <1>1, <1>11 DEF OldInv, LinksNameBlocks
<1> QED  BY <1>5, <1>10, <1>11 DEF Proceed

LEMMA OldNext ==
  ASSUME IInv, OldInv, [Next]_vars
  PROVE  OldInv'
<1>1. CASE Next
  <2>1. phase = "loading" /\ file' = file
    BY <1>1 DEF Next, EndOfFile, UnknownBlock, Finish, KnownBlock, TypeRead, Proceed, Fail
  <2>2. CASE ~ Old
    BY <2>1, <2>2 DEF OldInv, LinksNameBlocks, Old
  <2>3. CASE Old
    <3>1. RowsAsRead(doc) /\ MapOfIds(doc, linkMap) /\ IsMap(linkMap)
      BY <2>1, <2>3 DEF OldInv, IInv, Typed
    <3>2. CASE EndOfFile
      <4>1. phase' = "failed" /\ doc' = MapLinks(doc, linkMap)
        BY <3>2 DEF EndOfFile, Fail
      <4> QED  BY <4>1, <2>1, <2>3, <3>1, MappedNameBlocks DEF OldInv
    <3>3. CASE Finish
      <4>1. phase' = "loaded" /\ doc' = MapLinks(doc, linkMap)
        BY <3>3 DEF Finish
      <4> QED  BY <4>1, <2>1, <2>3, <3>1, MappedNameBlocks DEF OldInv
    <3>4. CASE UnknownBlock
      <4>1. c < Count /\ phase' = "failed" /\ doc' = MapLinks(doc, MapWithId)
        BY <3>4, <2>3 DEF UnknownBlock, TypeRead, Proceed, CanSeek, Fail, Old, Sized
      <4>2. Len(doc) = c
        <5>1. Known(c) /\ Len(doc) <= c
          BY <2>1, <2>3 DEF IInv, InStep, Old, Sized
        <5>2. c <= Len(doc)
          BY <5>1, DocGood DEF IInv, InStep, Known
        <5> QED  BY <5>1, <5>2, DocGood
      <4>3. MapOfIds(doc, MapWithId) /\ IsMap(MapWithId)
        BY <4>1, <4>2, <2>3, <3>1, MapGrows, MapWithIdTyped
      <4> QED  BY <4>1, <4>3, <2>1, <2>3, <3>1, MappedNameBlocks DEF OldInv
    <3>5. ASSUME NEW outcome \in Outcomes, KnownBlock(outcome)
          PROVE  OldInv'
      BY <2>3, <3>5, OldKnownBlock
    <3> QED  BY <1>1, <3>2, <3>3, <3>4, <3>5 DEF Next
  <2> QED  BY <2>2, <2>3
<1>2. CASE UNCHANGED vars
  BY <1>2 DEF vars, OldInv, RowsAsRead, MapOfIds, LinksNameBlocks, Old, Count, Id
<1> QED  BY <1>1, <1>2

(* load leaves each link of an old file leading to the block whose id it   *)
(* names, whether it got to the end of the file or not.                    *)
THEOREM MappingIds == Spec => []LinksNameBlocks
<1>1. Init => IInv /\ OldInv
  BY InitHolds, OldInit
<1>2. IInv /\ OldInv /\ [Next]_vars => IInv' /\ OldInv'
  BY NextKeeps, OldNext
<1>3. IInv /\ OldInv => LinksNameBlocks
  BY DEF OldInv
<1> QED  BY <1>1, <1>2, <1>3, PTL DEF Spec
=============================================================================
