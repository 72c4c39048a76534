------------------------------ MODULE LinkCache ------------------------------
(***************************************************************************)
(* NifModel::updateLinks as a step of its own: the fields of the blocks    *)
(* hold any numbers at all, and one call rebuilds childLinks and rootLinks *)
(* from nothing.  This is where the cache's promises to its readers (the   *)
(* tree view, the spells that recurse along child links, the footer) are   *)
(* checked on every graph of the bounded size.                             *)
(***************************************************************************)
EXTENDS LinkGraph, FiniteSets

CONSTANTS
  NumBlocks,   \* the number of blocks of the file
  MaxLink,     \* the largest number a link field holds; dangling when >= NumBlocks
  MaxRows      \* the most link rows a block has

ASSUME SizesAssumption ==
  /\ NumBlocks \in Nat \ {0}
  /\ MaxLink \in Nat
  /\ MaxRows \in Nat

VARIABLES
  fields,      \* the link values of each block, in row order; -1 is a null link
  childLinks,  \* QHash<int, QList<int>> childLinks
  rootLinks    \* QList<int> rootLinks

cacheVars == <<fields, childLinks, rootLinks>>

Blocks == 0 .. NumBlocks - 1

RawLinks(f) == [b \in Blocks |-> CollectLinks(f[b])]

\* updateLinks(): both caches from the fields alone.
UpdateLinks(f) ==
  /\ childLinks' = CheckLinks(RawLinks(f))
  /\ rootLinks' = RootLinks(childLinks')

\* A file was loaded: reset() ran updateLinks() on whatever links it holds.
CacheInit ==
  /\ fields \in [Blocks -> BoundedSeq(-1 .. MaxLink, MaxRows)]
  /\ childLinks = CheckLinks(RawLinks(fields))
  /\ rootLinks = RootLinks(childLinks)

\* setLink( index, l ): the user or a spell rewrites one link field.
SetLinkField(b, row, l) ==
  /\ row \in DOMAIN fields[b]
  /\ fields' = [fields EXCEPT ![b][row] = l]
  /\ UpdateLinks(fields')

CacheNext == \E b \in Blocks, row \in 1 .. MaxRows, l \in -1 .. MaxLink : SetLinkField(b, row, l)

CacheSpec == CacheInit /\ [][CacheNext]_cacheVars

------------------------------------------------------------------------------
\* NifModel's readers recurse along child links without a visited set
\* (getBranch, removeChildren, NifProxyModel, Node::update): whatever the fields
\* hold, the cache they walk has no cycle.
NoCycles == Acyclic(childLinks)

\* checkLinks drops a link only when the fields themselves lead back to the block:
\* a link outside every cycle is never lost from the cache.
OnlyCycleLinksDropped ==
  \A b \in Blocks : \A c \in ToSet(RawLinks(fields)[b]) \ ToSet(childLinks[b]) :
    c \in Blocks /\ Reaches(RawLinks(fields), c, b)

\* No link is dropped in vain: put back alone, each would close a cycle again.
DroppedLinksNeeded ==
  \A b \in Blocks : \A c \in ToSet(RawLinks(fields)[b]) \ ToSet(childLinks[b]) :
    Reaches(childLinks, c, b)

\* The tree view and the footer start from rootLinks: every block is below one of
\* them, a block that only cycles hold included.
EveryBlockBelowARoot ==
  \A b \in Blocks : \E r \in ToSet(rootLinks) : Reaches(childLinks, r, b)
==============================================================================
