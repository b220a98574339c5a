------------------------------- MODULE Packer -------------------------------
(***************************************************************************)
(* _pack of dastavez/ingest/chunking.py: the loop that packs the blocks of *)
(* a document, divided already, into chunks.  respect_sections tells the   *)
(* two arms of the ablation apart, section_respecting and fixed_size.  A   *)
(* block is its length, page and kind; blocks are named by their place in  *)
(* the document, so a chunk is the sequence of places it was made of.      *)
(***************************************************************************)
EXTENDS Naturals, Sequences

CONSTANTS
  Target,   \* TARGET_CHARS
  Overlap   \* OVERLAP_CHARS

Kinds == {"heading", "table", "text", "blank"}
Blocks == [len : Nat, page : Nat \ {0}, kind : Kinds]

ASSUME PackerAssumption == Target \in Nat /\ Overlap \in Nat

VARIABLES
  respect, \* respect_sections
  blocks,  \* the document
  next,    \* the place of the block at hand
  buffer,  \* places of the blocks gathered for the chunk to come
  size,    \* sum of their lengths
  chunks   \* the chunks yielded: the ordinal of a chunk is its index less one

packer == <<next, buffer, size, chunks>>
vars == <<respect, blocks, packer>>

\* Before the loop.
Start ==
  /\ next = 1
  /\ buffer = <<>>
  /\ size = 0
  /\ chunks = <<>>

Init == respect \in BOOLEAN /\ blocks \in Seq(Blocks) /\ Start

Block == blocks[next]
\* Mutation of Opens: whatever is not text opens a section.
OpensUnlessText == respect /\ Block.kind # "text"

Opens == respect /\ Block.kind = "heading"
Alone == respect /\ Block.kind = "table"

PagesOf(buf) == {blocks[buf[j]].page : j \in 1..Len(buf)}
Chunk(buf, n) ==
  [of |-> buf, size |-> n,
   page |-> CHOOSE p \in PagesOf(buf) : \A q \in PagesOf(buf) : p <= q,
   end_page |-> CHOOSE p \in PagesOf(buf) : \A q \in PagesOf(buf) : q <= p]

\* flush: yields a chunk unless there is no text to put in it.
HasText(buf) == \E j \in 1..Len(buf) : blocks[buf[j]].kind # "blank"
Flush(cs, buf, n) == IF HasText(buf) THEN Append(cs, Chunk(buf, n)) ELSE cs

\* Mutation of Carry: the first block of the buffer instead of the last.
CarryFirst ==
  IF Overlap > 0 /\ blocks[buffer[1]].len <= Overlap THEN <<buffer[1]>> ELSE <<>>

\* The last block of a full buffer, when it is short, opens the next chunk too.
Carry == LET last == buffer[Len(buffer)]
         IN  IF Overlap > 0 /\ blocks[last].len <= Overlap THEN <<last>> ELSE <<>>

\* Mutation of Hold: the overlap is taken off the size.
HoldLess(buf, n) == buffer' = buf /\ size' = n - Overlap

Hold(buf, n) == buffer' = buf /\ size' = n

\* Mutation of OpenSection: the heading is added before the flush.
OpenTooLate ==
  /\ Opens /\ buffer # <<>>
  /\ chunks' = Flush(chunks, Append(buffer, next), size + Block.len)
  /\ Hold(<<>>, 0)

\* A heading closes the section before it.
OpenSection ==
  /\ Opens /\ buffer # <<>>
  /\ chunks' = Flush(chunks, buffer, size)
  /\ Hold(<<next>>, Block.len)

\* Mutation of EmitTable: without the flush before it.
EmitTableOver ==
  /\ Alone
  /\ chunks' = Flush(chunks, <<next>>, Block.len)
  /\ Hold(<<>>, 0)

\* A table is emitted whole, by itself.
EmitTable ==
  /\ Alone
  /\ chunks' = Flush(Flush(chunks, buffer, size), <<next>>, Block.len)
  /\ Hold(<<>>, 0)

\* The block does not fit: what was gathered is a chunk.
Overflow ==
  /\ ~Opens /\ ~Alone
  /\ buffer # <<>> /\ size + Block.len > Target
  /\ chunks' = Flush(chunks, buffer, size)
  /\ Hold(Append(Carry, next), Block.len + IF Carry = <<>> THEN 0 ELSE blocks[Carry[1]].len)

\* Mutation of Gather: the block at hand is not counted.
GatherUncounted ==
  /\ ~Alone
  /\ buffer = <<>> \/ (~Opens /\ size <= Target)
  /\ Hold(Append(buffer, next), size + Block.len)
  /\ UNCHANGED chunks

Gather ==
  /\ ~Alone
  /\ buffer = <<>> \/ (~Opens /\ size + Block.len <= Target)
  /\ Hold(Append(buffer, next), size + Block.len)
  /\ UNCHANGED chunks

\* One turn of the loop.
Pack ==
  /\ next <= Len(blocks)
  /\ OpenSection \/ EmitTable \/ Overflow \/ Gather
  /\ next' = next + 1
  /\ UNCHANGED <<respect, blocks>>

\* After the loop.
FlushLast ==
  /\ next = Len(blocks) + 1
  /\ chunks' = Flush(chunks, buffer, size)
  /\ Hold(<<>>, 0)
  /\ next' = next + 1
  /\ UNCHANGED <<respect, blocks>>

Next == Pack \/ FlushLast

Spec == Init /\ [][Next]_vars

(***************************************************************************)
(* Properties.                                                             *)
(***************************************************************************)

Places == 1..Len(blocks)
Buffers == Seq(Places)
Chunks == [of : Buffers, size : Nat, page : Nat \ {0}, end_page : Nat \ {0}]

PackerTypeOK ==
  /\ respect \in BOOLEAN
  /\ blocks \in Seq(Blocks)
  /\ next \in 1..(Len(blocks) + 2)
  /\ buffer \in Buffers
  /\ size \in Nat
  /\ chunks \in Seq(Chunks)

Holds(buf, i) == \E j \in 1..Len(buf) : buf[j] = i

\* No text is lost: every block that was taken and has text is in a chunk, or
\* is about to be.
NothingLost ==
  \A i \in Places :
    (i < next /\ blocks[i].kind # "blank") =>
      Holds(buffer, i) \/ \E c \in 1..Len(chunks) : Holds(chunks[c].of, i)

\* The section-respecting arm never packs across a heading (chunking.py:43): a
\* heading can only open a chunk.
OpensOnly(buf) == \A j \in 1..Len(buf) : j > 1 => blocks[buf[j]].kind # "heading"
NeverAcrossAHeading ==
  respect => OpensOnly(buffer) /\ \A c \in 1..Len(chunks) : OpensOnly(chunks[c].of)

\* Nor does it put anything else into the chunk of a table.
NoTable(buf) == \A j \in 1..Len(buf) : blocks[buf[j]].kind # "table"
TablesStandAlone ==
  respect => NoTable(buffer)
             /\ \A c \in 1..Len(chunks) : NoTable(chunks[c].of) \/ Len(chunks[c].of) = 1

\* Headings and tables stand where the section arm is to respect them.
StructureStands == NeverAcrossAHeading /\ TablesStandAlone

\* A chunk beyond the target is one block, or one block after the overlap: it
\* is never the packer that makes a chunk long.
Excused(buf, n) ==
  \/ n <= Target
  \/ Len(buf) = 1
  \/ Len(buf) = 2 /\ blocks[buf[1]].len <= Overlap
LongForAReason ==
  Excused(buffer, size) /\ \A c \in 1..Len(chunks) : Excused(chunks[c].of, chunks[c].size)

\* Read in order, the chunks are the document: each takes up where the one
\* before it ended, or repeats its last block when that is short.  Blank runs
\* that yield no chunk may lie between.
Consecutive(buf) == \A j \in 1..(Len(buf) - 1) : buf[j + 1] = buf[j] + 1
TakesUp(last, place) == place > last \/ (place = last /\ blocks[last].len <= Overlap)
ChunksFollow ==
  \A c \in 1..Len(chunks) :
    /\ Consecutive(chunks[c].of)
    /\ c > 1 => TakesUp(chunks[c - 1].of[Len(chunks[c - 1].of)], chunks[c].of[1])

\* Where the converter gives blocks in page order, the chunks cite in page
\* order: none starts before the last page that the one before it cites.
InPageOrder == \A i, j \in Places : i <= j => blocks[i].page <= blocks[j].page
PagesAdvance ==
  InPageOrder => \A c \in 1..(Len(chunks) - 1) : chunks[c].end_page <= chunks[c + 1].page

\* The chunks are in the order of the document, and so are the pages they cite.
InOrder == ChunksFollow /\ PagesAdvance

\* The length at which a chunk was closed is that of the blocks it has.
Total(buf) ==
  LET upTo[j \in 0..Len(buf)] == IF j = 0 THEN 0 ELSE upTo[j - 1] + blocks[buf[j]].len
  IN  upTo[Len(buf)]
LengthsAreTrue ==
  size = Total(buffer) /\ \A c \in 1..Len(chunks) : chunks[c].size = Total(chunks[c].of)
=============================================================================
