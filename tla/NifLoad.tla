------------------------------ MODULE NifLoad ------------------------------
(***************************************************************************)
(* NifModel::load: the blocks of a file are read one after the other into  *)
(* rows appended to the document.  A file with block sizes lets the loader *)
(* go on after a block it cannot read; without them an error ends the load,*)
(* and a block that is read in the wrong length leaves the device where    *)
(* nothing starts.  A file on disk can be sought beyond its end, one from  *)
(* an archive, in a buffer that is only read, cannot.                      *)
(*                                                                         *)
(* Blocks of the file are counted from 1.  The document is the sequence of *)
(* the rows between header and footer; block number b is doc[b + 1], and   *)
(* the row after the last block is the footer.                             *)
(***************************************************************************)
EXTENDS Integers, SequencesExt

CONSTANT Files   \* the files to load

Formats == {"old",      \* before 3.3.0.13: blocks have ids, which links name
            "inline",   \* the type stands before each block
            "typed",    \* the header lists the types
            "sized"}    \* and the sizes, and they are not ignored

(* How loadItem gets on with a block: it reads it; it reads to the end, but*)
(* more or less than the block; it gives up.                               *)
Outcomes == {"well", "astray", "fails"}

BlocksInFile == [known : BOOLEAN, reads : Outcomes, id : Nat, links : Seq(Int)]

ASSUME FilesAssumption ==
  /\ Files \subseteq [format : Formats, archived : BOOLEAN, cut : Nat, blocks : Seq(BlocksInFile)]
  /\ \A f \in Files :
       /\ f.cut <= Len(f.blocks) + 1   \* the block the file ends in, 0 for none
       /\ f.format = "old" => \A j, k \in DOMAIN f.blocks : f.blocks[j].id = f.blocks[k].id => j = k

VARIABLES file,
          doc,      \* of each row: the block its type and its contents are of, 0 for
                    \* none; whether it has all of them; the links
          footer,   \* the block whose contents are in the footer; Len + 1 is the footer's own
          c,        \* the loop counter, blocks done
          place,    \* the block the device is at the start of, 0 where nothing starts
          linkMap,  \* of an old file: block numbers by the ids that differ from them
          phase     \* "loading", "loaded", "failed"

vars == <<file, doc, footer, c, place, linkMap, phase>>

Count == Len(file.blocks)
Sized == file.format = "sized"
Old == file.format = "old"

Row(type, of, whole, links) == [type |-> type, of |-> of, whole |-> whole, links |-> links]

MapLinks(d, map) ==
  LET Mapped(l) == IF l \in DOMAIN map THEN map[l] ELSE l
  IN  [b \in DOMAIN d |-> [d[b] EXCEPT !.links = [r \in DOMAIN @ |-> Mapped(@[r])]]]

Init ==
  /\ file \in Files
  /\ doc = <<>> /\ footer = 0 /\ c = 0 /\ place = 1 /\ linkMap = <<>>
  /\ phase = "loading"

(* Mutant of Fail: links are mapped only if all goes well.                 *)
FailUnmapped(rows, map) ==
  /\ phase' = "failed"
  /\ doc' = rows
  /\ linkMap' = map
  /\ UNCHANGED <<file, footer, c, place>>

(* The exception that ends a load; an old file still has its links mapped. *)
Fail(rows, map) ==
  /\ phase' = "failed"
  /\ doc' = MapLinks(rows, map)
  /\ linkMap' = map
  /\ UNCHANGED <<file, footer, c, place>>

(* Mutant of Seek: a block that could be read is taken for the right size. *)
SeekAfterFailure(outcome) ==
  IF outcome = "well" \/ (Sized /\ outcome = "fails") THEN c + 2 ELSE 0

(* Where the device is after a block: in a file with sizes, at the next.   *)
Seek(outcome) == IF outcome = "well" \/ Sized THEN c + 2 ELSE 0

(* On to the next block.  A block that failed, was unknown or came to the  *)
(* end of the file does not stop the load if the next one can be sought.   *)
CanSeek == Sized /\ ~ (file.archived /\ file.cut = c + 1)

Proceed(rows, foot, map, outcome) ==
  IF (outcome = "fails" \/ Sized) /\ ~ CanSeek
    THEN Fail(rows, map)
  ELSE /\ doc' = rows
       /\ footer' = foot
       /\ c' = c + 1
       /\ place' = Seek(outcome)
       /\ linkMap' = map
       /\ UNCHANGED <<file, phase>>

(* The device was moved beyond the end of the file.                        *)
Beyond == file.cut # 0 /\ place > file.cut

(* "unexpected EOF during load", before a block.                           *)
EndOfFile ==
  /\ phase = "loading"
  /\ file.cut = c + 1 \/ place = 0 \/ Beyond
  /\ c < Count \/ Old
  /\ Fail(doc, linkMap)

(* What a block type is read from is the header, or the device: from a     *)
(* place where nothing starts it is taken to be refused.                   *)
TypeRead ==
  /\ c < Count /\ phase = "loading" /\ ~ Beyond
  /\ place = c + 1 \/ file.format \in {"typed", "sized"}

(* An old file's map has a block's id before its type is looked up.        *)
MapWithId ==
  LET id == file.blocks[c + 1].id
  IN  IF Old /\ id # c THEN [i \in DOMAIN linkMap \cup {id} |-> IF i = id THEN c ELSE linkMap[i]] ELSE linkMap

UnknownBlock ==
  /\ TypeRead /\ ~ file.blocks[c + 1].known
  /\ Proceed(doc, footer, MapWithId, "fails")

(* Mutant of RowToLoad: a row too low.                                     *)
RowToLoadBefore == c

(* loadItem( root->child( c + 1 ) )                                        *)
RowToLoad == c + 1

(* insertNiBlock at the end, and loadItem of the row the counter says: the *)
(* new one unless a block was unknown before, else the footer or none.  A  *)
(* block cut off gives up, or is read astray in the part that is there.    *)
KnownBlock(outcome) ==
  LET rows == Append(doc, Row(c + 1, 0, FALSE, <<>>))
      block == file.blocks[c + 1]
      Possible == IF RowToLoad > Len(rows) + 1 THEN {"fails"}
                  ELSE IF place # c + 1 \/ RowToLoad > Len(rows) THEN {"astray", "fails"}
                  ELSE IF file.cut = c + 1 THEN {"fails", block.reads} \ {"well"}
                  ELSE {block.reads}
      loaded == [rows EXCEPT ![RowToLoad] =
                   IF place = c + 1 THEN Row(@.type, c + 1, outcome = "well", block.links) ELSE Row(@.type, 0, FALSE, <<>>)]
  IN  /\ TypeRead /\ block.known
      /\ outcome \in Possible
      /\ IF RowToLoad \in DOMAIN rows THEN Proceed(loaded, footer, MapWithId, outcome)
         ELSE Proceed(rows, IF RowToLoad = Len(rows) + 1 THEN c + 1 ELSE footer, MapWithId, outcome)

(* After the last block the footer is read, whatever is there, also beyond *)
(* the end of the file; an old file has none, and must say that it ends.   *)
Finish ==
  /\ phase = "loading" /\ c = Count
  /\ Old => place = Count + 1 /\ file.cut # Count + 1
  /\ phase' = "loaded"
  /\ doc' = MapLinks(doc, linkMap)
  /\ footer' = IF Old THEN footer ELSE IF place = Count + 1 /\ file.cut = 0 THEN Count + 1 ELSE 0
  /\ UNCHANGED <<file, c, place, linkMap>>

Next ==
  \/ EndOfFile \/ UnknownBlock \/ Finish
  \/ \E outcome \in Outcomes : KnownBlock(outcome)

Spec == Init /\ [][Next]_vars

----------------------------------------------------------------------------
(* What the properties say.                                                *)

Known(k) == \A j \in 1 .. k : file.blocks[j].known
Reached(k) == Sized \/ \A j \in 1 .. k - 1 : file.blocks[j].reads = "well"

(* A row has the links of the block whose contents it has, and only ids    *)
(* are mapped, to numbers.                                                 *)
TypeOK ==
  /\ c \in 0 .. Count /\ place \in 0 .. Count + 1 /\ phase \in {"loading", "loaded", "failed"}
  /\ Len(doc) \in 0 .. Count /\ footer \in 0 .. Count + 1
  /\ \A id \in DOMAIN linkMap : \E b \in 1 .. Count : file.blocks[b].id = id /\ linkMap[id] = b - 1
  /\ \A b \in DOMAIN doc :
       /\ doc[b].type \in 1 .. Count /\ doc[b].of \in 0 .. Count /\ doc[b].whole \in BOOLEAN
       /\ Len(doc[b].links) = IF doc[b].of = 0 THEN 0 ELSE Len(file.blocks[doc[b].of].links)

(* A block that can be read is read, after blocks that could not be in a   *)
(* file with sizes, and without them after blocks that could; and so is    *)
(* the footer, even if an unknown block had the footer read from a block.  *)
(* A file that ends in a block is no file that was loaded, but for one on  *)
(* disk, with sizes, that ends in its last block: the seek beyond the end  *)
(* succeeds, and the footer is read unchecked (nifmodel.cpp:1915, :1945).  *)
ReadableIsRead ==
  /\ \A k \in 1 .. c :
       (Known(k) /\ Reached(k) /\ file.blocks[k].reads = "well" /\ file.cut # k) =>
         doc[k].type = k /\ doc[k].of = k /\ doc[k].whole
  /\ phase = "loaded" /\ Reached(Count + 1) =>
       /\ ~ Old /\ file.cut = 0 => footer = Count + 1
       /\ file.cut \in 1 .. Count => Sized /\ ~ file.archived /\ file.cut = Count

(* No row gets the contents of a block of another type, and what comes     *)
(* after an unknown block stays empty: the rows are appended, while the one*)
(* to load is counted in the file.                                         *)
NothingMisplaced ==
  \A b \in DOMAIN doc :
    /\ doc[b].of \in {0, doc[b].type}
    /\ doc[b].type # b => doc[b].of = 0

(* In an old file each link leads to the block whose id it names, also     *)
(* when the load failed, as far as the blocks were read.                   *)
LinksNameBlocks ==
  phase # "loading" /\ Old =>
    \A b \in DOMAIN doc : \A r \in DOMAIN doc[b].links : \A k \in DOMAIN doc :
      file.blocks[doc[b].of].links[r] = file.blocks[k].id => doc[b].links[r] = k - 1
=============================================================================
