--------------------------- MODULE ChunkingProofs ---------------------------
(***************************************************************************)
(* Proofs about the splitters, for both arms, every target, every overlap  *)
(* and every document: first of the packing of any divided document, then  *)
(* of dividing and packing, of the order of the chunks, and of the two     *)
(* arms against each other.                                                *)
(***************************************************************************)
EXTENDS SplitterArms, WellFoundedInduction, TLAPS

\* The loop at rest: the buffer holds places already taken.
Shape ==
  /\ respect \in BOOLEAN
  /\ blocks \in Seq(Blocks)
  /\ next \in 1..(Len(blocks) + 2)
  /\ buffer \in Buffers
  /\ size \in Nat
  /\ \E S : chunks \in Seq(S)

\* What a property that holds of the buffer and of every chunk looks like.
Good ==
  /\ NothingLost /\ NeverAcrossAHeading /\ TablesStandAlone /\ LongForAReason
  /\ buffer = <<>> => size = 0
  /\ Len(buffer) = 1 => size = blocks[buffer[1]].len

IInv == Shape /\ Good

\* What flush returns: the chunks there were and, if there is text, one more.
LEMMA FlushFacts ==
  ASSUME NEW S, NEW cs \in Seq(S), NEW buf, NEW n
  PROVE  /\ \E T : Flush(cs, buf, n) \in Seq(T)
         /\ Len(Flush(cs, buf, n)) \in Nat /\ Len(cs) \in Nat
         /\ Len(cs) <= Len(Flush(cs, buf, n))
         /\ \A c \in 1..Len(cs) : Flush(cs, buf, n)[c] = cs[c]
         /\ \A c \in 1..Len(Flush(cs, buf, n)) :
              c > Len(cs) => /\ Flush(cs, buf, n)[c].of = buf
                             /\ Flush(cs, buf, n)[c].size = n
         /\ HasText(buf) => Len(Flush(cs, buf, n)) = Len(cs) + 1
<1> DEFINE x == Chunk(buf, n)
           T == S \cup {x}
<1>1. x.of = buf /\ x.size = n BY DEF Chunk
<1> HIDE DEF x
<1>2. cs \in Seq(T) /\ x \in T OBVIOUS
<1>3. CASE HasText(buf)
  <2>1. Flush(cs, buf, n) = Append(cs, x) BY <1>3 DEF Flush, x
  <2>2. Append(cs, x) \in Seq(T) BY <1>2
  <2> HIDE DEF T
  <2> QED BY <1>1, <1>2, <2>1, <2>2
<1>4. CASE ~HasText(buf)
  <2>1. Flush(cs, buf, n) = cs BY <1>4 DEF Flush
  <2> QED BY <1>2, <1>4, <2>1
<1> QED BY <1>3, <1>4

\* Before the loop, any divided document satisfies the invariant.
Ready == respect \in BOOLEAN /\ blocks \in Seq(Blocks) /\ Start
LEMMA StartInv == Ready => IInv
<1> SUFFICES ASSUME Ready PROVE IInv
    OBVIOUS
<1> USE DEF Ready
<1>1. Shape
  <2>1. chunks \in Seq({}) BY DEF Start
  <2> QED BY <2>1 DEF Start, Shape, Buffers
<1>2. NothingLost BY <1>1 DEF Start, Shape, NothingLost, Places
<1>3. NeverAcrossAHeading BY DEF Start, NeverAcrossAHeading, OpensOnly
<1>4. TablesStandAlone BY DEF Start, TablesStandAlone, NoTable
<1>5. LongForAReason BY PackerAssumption DEF Start, LongForAReason, Excused
<1>6. Good BY <1>2, <1>3, <1>4, <1>5 DEF Start, Good
<1> QED BY <1>1, <1>6 DEF IInv

\* A place of the document has a block.
LEMMA BlockTypes ==
  ASSUME Shape, NEW i \in Places
  PROVE  blocks[i] \in Blocks /\ blocks[i].len \in Nat
<1>1. blocks[i] \in Blocks BY DEF Shape, Places
<1> QED BY <1>1 DEF Blocks

\* So is the one at hand.
LEMMA BlockFacts ==
  ASSUME Shape, next <= Len(blocks)
  PROVE  /\ Block \in Blocks /\ Block.len \in Nat
         /\ next \in Places /\ next + 1 \in 1..(Len(blocks) + 2)
<1>1. next \in Places /\ next + 1 \in 1..(Len(blocks) + 2) BY DEF Shape, Places
<1> QED BY <1>1, BlockTypes DEF Block

\* The overlap is nothing, or one short block of the buffer, without its kind
\* being one that a buffer may not hold.
LEMMA CarryFacts ==
  ASSUME Shape, buffer # <<>>
  PROVE  \/ Carry = <<>>
         \/ /\ Carry = <<buffer[Len(buffer)]>>
            /\ Len(buffer) \in 1..Len(buffer)
            /\ buffer[Len(buffer)] \in Places
            /\ blocks[buffer[Len(buffer)]].len <= Overlap
BY DEF Shape, Carry, Buffers

\* The loop keeps its shape.
LEMMA PackShape == ASSUME Shape, Pack PROVE Shape'
<1> USE DEF Pack
<1>1. respect' \in BOOLEAN /\ blocks' \in Seq(Blocks) /\ next' \in 1..(Len(blocks') + 2)
      BY BlockFacts DEF Shape
<1>2. PICK S : chunks \in Seq(S) BY DEF Shape
<1>3. <<next>> \in Buffers /\ Append(buffer, next) \in Buffers /\ <<>> \in Buffers
      BY BlockFacts DEF Shape, Buffers
<1>4. Buffers' = Buffers BY DEF Buffers, Places
<1>5. CASE OpenSection
  <2>1. \E T : chunks' \in Seq(T) BY <1>2, <1>5, FlushFacts DEF OpenSection
  <2> QED BY <1>1, <1>3, <1>4, <1>5, <2>1, BlockFacts DEF Shape, OpenSection, Hold
<1>6. CASE EmitTable
  <2>1. PICK T : Flush(chunks, buffer, size) \in Seq(T) BY <1>2, FlushFacts
  <2>2. \E U : chunks' \in Seq(U) BY <1>6, <2>1, FlushFacts DEF EmitTable
  <2> QED BY <1>1, <1>3, <1>4, <1>6, <2>2 DEF Shape, EmitTable, Hold
<1>7. CASE Overflow
  <2>1. \E T : chunks' \in Seq(T) BY <1>2, <1>7, FlushFacts DEF Overflow
  <2>2. CASE Carry = <<>>
    <3>1. buffer' = <<next>> /\ size' = Block.len + 0 BY <1>7, <2>2 DEF Overflow, Hold
    <3> QED BY <1>1, <1>3, <1>4, <2>1, <3>1, BlockFacts DEF Shape
  <2>3. CASE Carry # <<>>
    <3> DEFINE last == buffer[Len(buffer)]
    <3>1. Carry = <<last>> /\ last \in Places BY <1>7, <2>3, CarryFacts DEF Overflow
    <3>2. buffer' = Append(<<last>>, next) /\ size' = Block.len + blocks[last].len
          BY <1>7, <2>3, <3>1 DEF Overflow, Hold
    <3>3. blocks[last].len \in Nat BY <3>1, BlockTypes
    <3>4. Block.len \in Nat BY BlockFacts
    <3>5. Append(<<last>>, next) \in Buffers BY <3>1, BlockFacts DEF Buffers
    <3> HIDE DEF last
    <3>6. size' \in Nat BY <3>2, <3>3, <3>4
    <3>7. buffer' \in Buffers' BY <1>4, <3>2, <3>5
    <3> QED BY <1>1, <2>1, <3>6, <3>7 DEF Shape
  <2> QED BY <2>2, <2>3
<1>8. CASE Gather
      BY <1>1, <1>2, <1>3, <1>4, <1>8, BlockFacts DEF Shape, Gather, Hold
<1> QED BY <1>5, <1>6, <1>7, <1>8

(***************************************************************************)
(* What every chunk, and the buffer, must be like.                         *)
(***************************************************************************)

Fit(buf, n) ==
  /\ Excused(buf, n)
  /\ respect => OpensOnly(buf)
  /\ respect => NoTable(buf) \/ Len(buf) = 1

AllFit(cs) == \A c \in 1..Len(cs) : Fit(cs[c].of, cs[c].size)

InChunks(cs, i) == \E c \in 1..Len(cs) : Holds(cs[c].of, i)

\* The same invariant, said of the buffer and of the chunks apart.
BufferFits ==
  /\ Fit(buffer, size)
  /\ respect => NoTable(buffer)
  /\ buffer = <<>> => size = 0
  /\ Len(buffer) = 1 => size = blocks[buffer[1]].len

Split == BufferFits /\ AllFit(chunks) /\ NothingLost

\* The two say the same, of a state and of the next.
LEMMA GoodIsSplit == Good <=> Split
BY DEF Good, Split, BufferFits, AllFit, Fit, NeverAcrossAHeading, TablesStandAlone, LongForAReason

\* The same, of the next state.
LEMMA GoodIsSplitPrimed == Good' <=> Split'
BY DEF Good, Split, BufferFits, AllFit, Fit, NeverAcrossAHeading, TablesStandAlone, LongForAReason

\* Flushing a fit buffer leaves fit chunks, and loses nothing that had text.
LEMMA FlushKeeps ==
  ASSUME NEW S, NEW cs \in Seq(S), NEW buf, NEW n, AllFit(cs), Fit(buf, n)
  PROVE  /\ AllFit(Flush(cs, buf, n))
         /\ \A i : InChunks(cs, i) => InChunks(Flush(cs, buf, n), i)
         /\ \A i : (Holds(buf, i) /\ blocks[i].kind # "blank") => InChunks(Flush(cs, buf, n), i)
<1> DEFINE out == Flush(cs, buf, n)
<1>1. /\ Len(out) \in Nat /\ Len(cs) \in Nat /\ Len(cs) <= Len(out)
      /\ \A c \in 1..Len(cs) : out[c] = cs[c]
      /\ \A c \in 1..Len(out) : c > Len(cs) => out[c].of = buf /\ out[c].size = n
      /\ HasText(buf) => Len(out) = Len(cs) + 1
      BY FlushFacts
<1> HIDE DEF out
<1>2. AllFit(out)
  <2> SUFFICES ASSUME NEW c \in 1..Len(out) PROVE Fit(out[c].of, out[c].size)
      BY DEF AllFit
  <2>1. CASE c <= Len(cs) BY <1>1, <2>1 DEF AllFit
  <2>2. CASE c > Len(cs) BY <1>1, <2>2
  <2> QED BY <1>1, <2>1, <2>2
<1>3. ASSUME NEW i, InChunks(cs, i) PROVE InChunks(out, i)
  <2>1. PICK c \in 1..Len(cs) : Holds(cs[c].of, i) BY <1>3 DEF InChunks
  <2> QED BY <1>1, <2>1 DEF InChunks
<1>4. ASSUME NEW i, Holds(buf, i), blocks[i].kind # "blank" PROVE InChunks(out, i)
  <2>1. HasText(buf) BY <1>4 DEF Holds, HasText
  <2>2. Len(out) \in 1..Len(out) /\ out[Len(out)].of = buf BY <1>1, <2>1
  <2> QED BY <1>4, <2>2 DEF InChunks
<1> QED BY <1>2, <1>3, <1>4 DEF out

\* Flushing the buffer puts all that was taken into the chunks.
LEMMA FlushBuffer ==
  ASSUME Shape, Split
  PROVE  /\ AllFit(Flush(chunks, buffer, size))
         /\ \A i \in Places : (i < next /\ blocks[i].kind # "blank") =>
                              InChunks(Flush(chunks, buffer, size), i)
<1>1. PICK S : chunks \in Seq(S) BY DEF Shape
<1>2. AllFit(chunks) /\ Fit(buffer, size) BY DEF Split, BufferFits
<1>3. \A i \in Places : (i < next /\ blocks[i].kind # "blank") =>
                         Holds(buffer, i) \/ InChunks(chunks, i)
      BY DEF Split, NothingLost, InChunks
<1> QED BY <1>1, <1>2, <1>3, FlushKeeps

\* One turn of the loop keeps it all.
LEMMA PackSplit ==
  ASSUME Shape, Split, Pack
  PROVE  Split'
<1>0. respect' = respect /\ blocks' = blocks /\ next' = next + 1 /\ next <= Len(blocks) /\ next \in Nat
      BY DEF Pack, Shape
<1>1. Block = blocks[next] /\ Block.len \in Nat /\ next \in Places BY <1>0, BlockFacts DEF Block
<1>2. ASSUME BufferFits', AllFit(chunks)',
             \A i \in Places : (i < next + 1 /\ blocks[i].kind # "blank") =>
                               Holds(buffer', i) \/ InChunks(chunks', i)
      PROVE  Split'
      BY <1>0, <1>2 DEF Split, NothingLost, InChunks, Holds, Places
<1>3. \A i \in Places : i < next + 1 => i < next \/ i = next BY <1>0 DEF Places
<1>4. ASSUME AllFit(chunks') PROVE AllFit(chunks)'
      BY <1>0, <1>4 DEF AllFit, Fit, Excused, OpensOnly, NoTable
<1>5. CASE OpenSection
  <2>1. chunks' = Flush(chunks, buffer, size) /\ buffer' = <<next>> /\ size' = Block.len
        BY <1>5 DEF OpenSection, Hold
  <2>2. Block.kind = "heading" BY <1>5 DEF OpenSection, Opens
  <2>3. BufferFits'
        BY <1>0, <1>1, <2>1, <2>2 DEF BufferFits, Fit, Excused, OpensOnly, NoTable
  <2>4. Holds(buffer', next) BY <2>1 DEF Holds
  <2> QED BY <1>2, <1>3, <1>4, <2>1, <2>3, <2>4, FlushBuffer
<1>6. CASE EmitTable
  <2> DEFINE cs == Flush(chunks, buffer, size)
  <2>1. chunks' = Flush(cs, <<next>>, Block.len) /\ buffer' = <<>> /\ size' = 0
        BY <1>6 DEF EmitTable, Hold
  <2>2. Block.kind = "table" BY <1>6 DEF EmitTable, Alone
  <2>3. BufferFits'
        BY <1>0, <2>1, PackerAssumption DEF BufferFits, Fit, Excused, OpensOnly, NoTable
  <2>4. Fit(<<next>>, Block.len) BY DEF Fit, Excused, OpensOnly, NoTable
  <2>5. PICK T : cs \in Seq(T) BY FlushFacts DEF Shape
  <2>6. AllFit(cs) /\ \A i \in Places : (i < next /\ blocks[i].kind # "blank") => InChunks(cs, i)
        BY FlushBuffer
  <2>7. Holds(<<next>>, next) /\ blocks[next].kind # "blank" BY <1>1, <2>2 DEF Holds
  <2> HIDE DEF cs
  <2>8. AllFit(chunks') /\ InChunks(chunks', next)
        /\ \A i : InChunks(cs, i) => InChunks(chunks', i)
        BY <2>1, <2>4, <2>5, <2>6, <2>7, FlushKeeps
  <2> QED BY <1>2, <1>3, <1>4, <2>3, <2>6, <2>8
<1>7. CASE Overflow
  <2>1. chunks' = Flush(chunks, buffer, size) /\ buffer # <<>> BY <1>7 DEF Overflow
  <2>2. respect => Block.kind # "heading" /\ Block.kind # "table" BY <1>7 DEF Overflow, Opens, Alone
  <2>3. BufferFits' /\ Holds(buffer', next)
    <3>1. CASE Carry = <<>>
      <4>1. buffer' = <<next>> /\ size' = Block.len + 0 BY <1>7, <3>1 DEF Overflow, Hold
      <4>2. size' = Block.len BY <1>1, <4>1
      <4> QED BY <1>0, <1>1, <2>2, <4>1, <4>2 DEF BufferFits, Fit, Excused, OpensOnly, NoTable, Holds
    <3>2. CASE Carry # <<>>
      <4> DEFINE last == buffer[Len(buffer)]
      <4>1. Carry = <<last>> /\ last \in Places /\ Len(buffer) \in 1..Len(buffer)
            /\ blocks[last].len <= Overlap
            BY <2>1, <3>2, CarryFacts
      <4>2. respect => blocks[last].kind # "table" BY <4>1 DEF Split, BufferFits, NoTable
      <4>3. buffer' = Append(<<last>>, next) BY <1>7, <4>1 DEF Overflow, Hold
      <4> HIDE DEF last
      <4>4. <<last>> \in Seq(Places) /\ Len(<<last>>) = 1 /\ <<last>>[1] = last BY <4>1
      <4>5. Len(buffer') = 2 /\ buffer'[1] = last /\ buffer'[2] = next BY <1>1, <4>3, <4>4
      <4>6. buffer' # <<>> BY <4>5
      <4> QED BY <1>0, <1>1, <2>2, <4>1, <4>2, <4>5, <4>6
              DEF BufferFits, Fit, Excused, OpensOnly, NoTable, Holds
    <3> QED BY <3>1, <3>2
  <2> QED BY <1>2, <1>3, <1>4, <2>1, <2>3, FlushBuffer
<1>8. CASE Gather
  <2>1. chunks' = chunks /\ buffer' = Append(buffer, next) /\ size' = size + Block.len
        BY <1>8 DEF Gather, Hold
  <2>2. buffer \in Seq(Places) /\ size \in Nat BY DEF Shape, Buffers
  <2>3. /\ Len(buffer') = Len(buffer) + 1 /\ Len(buffer) \in Nat
        /\ buffer'[Len(buffer) + 1] = next
        /\ \A j \in 1..Len(buffer) : buffer'[j] = buffer[j]
        BY <1>1, <2>1, <2>2
  <2>4. respect => Block.kind # "table" BY <1>8 DEF Gather, Alone
  <2>5. BufferFits'
    <3>1. NoTable(buffer') \/ ~respect
          BY <1>1, <2>3, <2>4 DEF Split, BufferFits, NoTable
    <3>2. CASE buffer = <<>>
      <4>1. Len(buffer') = 1 /\ buffer'[1] = next /\ size' = Block.len
            BY <1>1, <2>1, <2>3, <3>2 DEF Split, BufferFits
      <4>2. buffer' # <<>> BY <4>1
      <4> QED BY <1>0, <1>1, <3>1, <4>1, <4>2 DEF BufferFits, Fit, Excused, OpensOnly, NoTable
    <3>3. CASE buffer # <<>>
      <4>1. Len(buffer) > 0 BY <2>2, <3>3
      <4>2. size' <= Target /\ (respect => Block.kind # "heading")
            BY <1>8, <2>1, <3>3 DEF Gather, Opens
      <4>3. respect => OpensOnly(buffer')
            BY <1>1, <2>3, <4>2 DEF Split, BufferFits, Fit, OpensOnly
      <4>4. buffer' # <<>> /\ Len(buffer') # 1 BY <2>3, <4>1
      <4>5. Fit(buffer, size)' BY <1>0, <3>1, <4>2, <4>3 DEF Fit, Excused, OpensOnly, NoTable
      <4>6. (respect => NoTable(buffer))' BY <1>0, <3>1 DEF NoTable
      <4> QED BY <4>4, <4>5, <4>6 DEF BufferFits
    <3> QED BY <3>2, <3>3
  <2>6. Holds(buffer', next) /\ \A i : Holds(buffer, i) => Holds(buffer', i)
        BY <2>3 DEF Holds
  <2>7. AllFit(chunks') BY <2>1 DEF Split
  <2>8. \A i \in Places : (i < next /\ blocks[i].kind # "blank") =>
                           Holds(buffer, i) \/ InChunks(chunks, i)
        BY DEF Split, NothingLost, InChunks
  <2> QED BY <1>2, <1>3, <1>4, <2>1, <2>5, <2>6, <2>7, <2>8
<1> QED BY <1>5, <1>6, <1>7, <1>8 DEF Pack

\* So does the flush after the loop.
LEMMA FlushLastInv ==
  ASSUME Shape, Split, FlushLast
  PROVE  Shape' /\ Split'
<1>1. /\ respect' = respect /\ blocks' = blocks /\ next' = next + 1 /\ next = Len(blocks) + 1
      /\ chunks' = Flush(chunks, buffer, size) /\ buffer' = <<>> /\ size' = 0
      BY DEF FlushLast, Hold
<1>2. Shape'
  <2>1. \E T : chunks' \in Seq(T) BY <1>1, FlushFacts DEF Shape
  <2> QED BY <1>1, <2>1 DEF Shape, Buffers, Places
<1>3. AllFit(chunks') /\ \A i \in Places : (i < next /\ blocks[i].kind # "blank") => InChunks(chunks', i)
      BY <1>1, FlushBuffer
<1>4. AllFit(chunks)' BY <1>1, <1>3 DEF AllFit, Fit, Excused, OpensOnly, NoTable
<1>5. BufferFits'
      BY <1>1, PackerAssumption DEF BufferFits, Fit, Excused, OpensOnly, NoTable
<1>6. NothingLost'
  <2>1. \A i \in Places : i < next BY <1>1 DEF Places, Shape
  <2> QED BY <1>1, <1>3, <2>1 DEF NothingLost, InChunks, Holds, Places
<1> QED BY <1>2, <1>4, <1>5, <1>6 DEF Split

\* Every step preserves the invariant.
LEMMA NextInv == IInv /\ [Next]_vars => IInv'
<1> SUFFICES ASSUME IInv, [Next]_vars PROVE IInv'
    OBVIOUS
<1>1. Shape /\ Split BY GoodIsSplit DEF IInv
<1>2. CASE Pack BY <1>1, <1>2, PackShape, PackSplit, GoodIsSplitPrimed DEF IInv
<1>3. CASE FlushLast BY <1>1, <1>3, FlushLastInv, GoodIsSplitPrimed DEF IInv
<1>4. CASE UNCHANGED vars
  <2>1. Shape' BY <1>1, <1>4 DEF Shape, Buffers, Places, vars, packer
  <2>2. Split'
        BY <1>1, <1>4 DEF Split, BufferFits, AllFit, Fit, NothingLost, Holds, Places,
                          Excused, OpensOnly, NoTable, vars, packer
  <2> QED BY <2>1, <2>2, GoodIsSplitPrimed DEF IInv
<1> QED BY <1>2, <1>3, <1>4 DEF Next


(***************************************************************************)
(* Dividing.                                                               *)
(***************************************************************************)

\* The registers of _divide.
Registers ==
  /\ source \in Seq(SourceBlocks)
  /\ at \in 1..(Len(source) + 1)
  /\ par \in Nat \ {0} /\ sen \in Nat
  /\ origin \in Seq(Seq(Stretches)) /\ Len(origin) = Len(blocks)

\* A piece is as long as BlocksLongForAReason says.
Fits(piece) == piece \in Pieces /\ (piece.len <= Target + 1 \/ IsOneSentence(piece.of))
PiecesFit ==
  /\ Fits(current)
  /\ pieces \in Seq(Pieces)
  /\ \A i \in 1..Len(pieces) : Fits(pieces[i])

\* Until all is divided, the packer has not started.
DivInv ==
  /\ Registers /\ PiecesFit /\ BlocksLongForAReason
  /\ at <= Len(source) => Start

ChunkingInv == IInv /\ DivInv

\* A piece is its length and its stretches.
LEMMA PieceFacts ==
  ASSUME NEW n \in Nat, NEW of \in Seq(Stretches)
  PROVE  Piece(n, of) \in Pieces /\ Piece(n, of).len = n /\ Piece(n, of).of = of
BY DEF Piece, Pieces

LEMMA PieceTypes ==
  ASSUME NEW piece \in Pieces
  PROVE  piece.len \in Nat /\ piece.of \in Seq(Stretches)
BY DEF Pieces

\* Appending pieces that fit.
LEMMA ConcatFits ==
  ASSUME NEW ps \in Seq(Pieces), \A i \in 1..Len(ps) : Fits(ps[i]),
         NEW qs \in Seq(Pieces), \A i \in 1..Len(qs) : Fits(qs[i])
  PROVE  ps \o qs \in Seq(Pieces) /\ \A i \in 1..Len(ps \o qs) : Fits((ps \o qs)[i])
<1>1. ps \o qs \in Seq(Pieces) /\ Len(ps \o qs) = Len(ps) + Len(qs) OBVIOUS
<1>2. \A i \in 1..Len(ps \o qs) :
        (ps \o qs)[i] = IF i <= Len(ps) THEN ps[i] ELSE qs[i - Len(ps)]
      OBVIOUS
<1>3. ASSUME NEW i \in 1..Len(ps \o qs) PROVE Fits((ps \o qs)[i])
  <2>1. CASE i <= Len(ps) BY <1>2, <2>1
  <2>2. CASE i > Len(ps)
    <3>1. i - Len(ps) \in 1..Len(qs) BY <1>1, <2>2
    <3> QED BY <1>2, <2>2, <3>1
  <2> QED BY <2>1, <2>2
<1> QED BY <1>1, <1>3

\* Appending one of them.
LEMMA AppendFits ==
  ASSUME NEW ps \in Seq(Pieces), \A i \in 1..Len(ps) : Fits(ps[i]), NEW piece, Fits(piece)
  PROVE  Append(ps, piece) \in Seq(Pieces) /\ \A i \in 1..Len(Append(ps, piece)) : Fits(Append(ps, piece)[i])
<1>1. piece \in Pieces BY DEF Fits
<1>2. <<piece>> \in Seq(Pieces) /\ \A i \in 1..Len(<<piece>>) : Fits(<<piece>>[i]) BY <1>1
<1>3. Append(ps, piece) = ps \o <<piece>> BY <1>1
<1> QED BY <1>2, <1>3, ConcatFits

\* The block at hand.
LEMMA SourceFacts ==
  ASSUME Registers, at <= Len(source)
  PROVE  /\ Source \in SourceBlocks
         /\ at + 1 \in 1..(Len(source) + 1)
         /\ Source.len \in Nat /\ Source.page \in Nat \ {0} /\ Source.kind \in Kinds
<1>1. Source \in SourceBlocks BY DEF Registers, Source
<1> QED BY <1>1 DEF Registers, SourceBlocks

\* Its paragraph, and the sentence at hand.
LEMMA ParagraphFacts ==
  ASSUME Registers, at <= Len(source), par <= Len(Source.text)
  PROVE  /\ Paragraph.len \in Nat
         /\ sen \in 1..Len(Paragraph.sentences) => Sentence \in Nat
<1>1. Source.text \in Seq(Paragraphs) BY SourceFacts DEF SourceBlocks
<1>2. Paragraph \in Paragraphs BY <1>1 DEF Registers, Paragraph
<1>3. Paragraph.len \in Nat /\ Paragraph.sentences \in Seq(Nat) BY <1>2 DEF Paragraphs
<1> QED BY <1>3 DEF Sentence

\* The stretch of a place to another.
LEMMA StretchTypes ==
  ASSUME NEW x \in Positions, NEW y \in Positions
  PROVE  Stretch(x, y) \in Stretches /\ <<Stretch(x, y)>> \in Seq(Stretches)
BY DEF Stretch, Stretches

\* The stretches of the block, the paragraph and the sentence at hand.
LEMMA WholeTypes ==
  ASSUME Registers
  PROVE  /\ WholeBlock \in Stretches /\ <<WholeBlock>> \in Seq(Stretches)
         /\ WholeParagraph \in Stretches /\ <<WholeParagraph>> \in Seq(Stretches)
         /\ WholeSentence \in Stretches /\ <<WholeSentence>> \in Seq(Stretches)
<1>1. at \in Nat /\ at + 1 \in Nat /\ par \in Nat /\ par + 1 \in Nat /\ sen \in Nat /\ sen + 1 \in Nat
      BY DEF Registers
<1>2. /\ <<at, 1, 0, 0>> \in Positions /\ <<at + 1, 1, 0, 0>> \in Positions
      /\ <<at, par, 0, 0>> \in Positions /\ <<at, par + 1, 0, 0>> \in Positions
      /\ <<at, par, sen, 0>> \in Positions /\ <<at, par, sen + 1, 0>> \in Positions
      BY <1>1 DEF Positions
<1> QED BY <1>2, StretchTypes DEF WholeBlock, WholeParagraph, WholeSentence

\* The last slice starts before the end of the sentence, and reaches it.
LEMMA LastSlice ==
  ASSUME NEW n \in Nat, n > Target
  PROVE  LET m == (n + Target - 1) \div Target
         IN  m \in Nat /\ n <= m * Target /\ \A i \in 1..m : (i - 1) * Target \in Nat /\ (i - 1) * Target < n
<1>1. Target \in Nat \ {0} BY PackerAssumption, ChunkingAssumption
<1> DEFINE k == n + Target - 1
           m == k \div Target
<1>2. k \in Nat BY <1>1
<1>3. m \in Nat /\ m * Target <= k /\ k < (m + 1) * Target
  <2> HIDE DEF k
  <2>1. m \in Nat /\ k = m * Target + (k % Target) /\ k % Target \in 0..(Target - 1) BY <1>1, <1>2
  <2>2. (m + 1) * Target = m * Target + Target BY <1>1, <2>1
  <2>3. m * Target \in Nat BY <1>1, <2>1
  <2> HIDE DEF m
  <2> QED BY <1>1, <1>2, <2>1, <2>2, <2>3
<1> HIDE DEF m
<1>4. (m + 1) * Target = m * Target + Target /\ m * Target \in Nat BY <1>1, <1>3
<1>5. n <= m * Target BY <1>1, <1>3, <1>4
<1>6. ASSUME NEW i \in 1..m PROVE (i - 1) * Target \in Nat /\ (i - 1) * Target < n
  <2>1. i \in Nat /\ i - 1 \in Nat /\ m - i \in Nat /\ i <= m BY <1>3
  <2>2. (i - 1) * Target \in Nat /\ i * Target = (i - 1) * Target + Target BY <1>1, <2>1
  <2>3. m * Target = i * Target + (m - i) * Target /\ (m - i) * Target \in Nat /\ i * Target \in Nat
        BY <1>1, <1>3, <2>1
  <2>4. i * Target <= m * Target BY <2>3
  <2> QED BY <1>1, <1>3, <1>4, <2>2, <2>4
<1> QED BY <1>3, <1>5, <1>6 DEF m

\* Slices are pieces, none of them longer than the target.
LEMMA SliceFacts ==
  ASSUME Registers, Sentence \in Nat, NEW m \in Nat,
         \A i \in 1..m : (i - 1) * Target \in Nat /\ (i - 1) * Target < Sentence
  PROVE  Slices(m) \in Seq(Pieces) /\ Len(Slices(m)) = m /\ \A i \in 1..m : Fits(Slices(m)[i])
<1>1. Target \in Nat \ {0} BY PackerAssumption, ChunkingAssumption
<1>2. ASSUME NEW start \in Nat, start < Sentence PROVE Fits(Slice(start))
  <2> DEFINE end == IF start + Target < Sentence THEN start + Target ELSE Sentence
             of == <<Stretch(<<at, par, sen, start>>, <<at, par, sen, end>>)>>
  <2>1. end \in Nat /\ end - start \in Nat /\ end - start <= Target BY <1>1, <1>2
  <2> HIDE DEF end
  <2>2. <<at, par, sen, start>> \in Positions /\ <<at, par, sen, end>> \in Positions
        BY <2>1 DEF Registers, Positions
  <2>3. of \in Seq(Stretches) BY <2>2, StretchTypes
  <2> HIDE DEF of
  <2>4. Slice(start) = Piece(end - start, of) BY DEF Slice, end, of
  <2>5. Slice(start) \in Pieces /\ Slice(start).len <= Target BY <2>1, <2>3, <2>4, PieceFacts
  <2> QED BY <1>1, <2>5, PieceTypes DEF Fits
<1>3. \A i \in 1..m : Fits(Slice((i - 1) * Target)) BY <1>2
<1>4. \A i \in 1..m : Slice((i - 1) * Target) \in Pieces BY <1>3 DEF Fits
<1> QED BY <1>3, <1>4 DEF Slices

\* Cutting within a block leaves the packer alone.
LEMMA CutInv ==
  ASSUME IInv, DivInv, Dividing,
         par' \in Nat \ {0}, sen' \in Nat,
         Cut(pieces', current'), PiecesFit'
  PROVE  IInv' /\ DivInv'
<1>1. /\ UNCHANGED <<source, at, origin, respect, blocks>>
      /\ UNCHANGED <<next, buffer, size, chunks>>
      BY DEF Cut, packer
<1>2. Start' BY <1>1 DEF DivInv, Dividing, Start
<1>3. Ready' BY <1>1, <1>2 DEF IInv, Shape, Ready
<1>4. IInv' BY <1>3, StartInv, PTL
<1>5. Registers' BY <1>1 DEF DivInv, Registers, PiecesFit, Fits
<1>6. BlocksLongForAReason' BY <1>1 DEF DivInv, BlocksLongForAReason, IsOneSentence
<1> QED BY <1>2, <1>4, <1>5, <1>6 DEF DivInv

\* The elements of two sequences in one.
LEMMA Concat ==
  ASSUME NEW S, NEW s \in Seq(S), NEW T, NEW t \in Seq(T)
  PROVE  /\ \E U : s \o t \in Seq(U)
         /\ Len(s \o t) = Len(s) + Len(t) /\ Len(s) \in Nat /\ Len(t) \in Nat
         /\ \A i \in 1..Len(s) : (s \o t)[i] = s[i]
         /\ \A i \in 1..Len(t) : (s \o t)[Len(s) + i] = t[i]
<1>1. s \in Seq(S \cup T) /\ t \in Seq(S \cup T) OBVIOUS
<1> QED BY <1>1

SameLength(s, t) == Len(s) = Len(t)

\* The blocks that _divide makes of one, when they are as long as they may be.
LEMMA GrowInv ==
  ASSUME IInv, DivInv, at <= Len(source),
         UNCHANGED <<source, current, respect, packer>>,
         par' \in Nat \ {0}, sen' \in Nat, at' = at + 1,
         PiecesFit',
         NEW bs \in Seq(Blocks), NEW os \in Seq(Seq(Stretches)), SameLength(os, bs),
         blocks' = blocks \o bs, origin' = origin \o os,
         \A i \in 1..Len(bs) :
           bs[i].len <= Target + 1 \/ IsOneSentence(os[i]) \/ (respect /\ bs[i].kind = "table")
  PROVE  IInv' /\ DivInv'
<1>1. respect' = respect /\ respect \in BOOLEAN /\ blocks \in Seq(Blocks) BY DEF IInv, Shape
<1>2. Start' BY DEF DivInv, Start, packer
<1>3. Ready' BY <1>1, <1>2 DEF Ready
<1>4. IInv' BY <1>3, StartInv, PTL
<1>5. origin \in Seq(Seq(Stretches)) BY DEF DivInv, Registers
<1>6. origin' = origin \o os OBVIOUS
<1>7. /\ origin' \in Seq(Seq(Stretches))
      /\ Len(origin') = Len(origin) + Len(os)
      /\ \A i \in 1..Len(origin) : origin'[i] = origin[i]
      /\ \A i \in 1..Len(os) : origin'[Len(origin) + i] = os[i]
      BY <1>5, <1>6, Concat
<1>8. /\ Len(blocks') = Len(blocks) + Len(bs) /\ Len(blocks) \in Nat /\ Len(bs) \in Nat
      /\ \A i \in 1..Len(blocks) : blocks'[i] = blocks[i]
      /\ \A i \in 1..Len(bs) : blocks'[Len(blocks) + i] = bs[i]
      BY <1>1, Concat
<1>9. Len(origin) = Len(blocks) BY DEF DivInv, Registers
<1>10. Registers'
  <2>1. source' = source /\ current' = current OBVIOUS
  <2>2. at' \in 1..(Len(source') + 1) BY SourceFacts, <2>1 DEF DivInv
  <2> QED BY <1>7, <1>8, <1>9, <2>1, <2>2 DEF DivInv, Registers, SameLength
<1>11. BlocksLongForAReason'
  <2> SUFFICES ASSUME NEW b \in 1..Len(blocks')
               PROVE  \/ blocks'[b].len <= Target + 1
                      \/ IsOneSentence(origin'[b])
                      \/ respect' /\ blocks'[b].kind = "table"
      BY DEF BlocksLongForAReason, IsOneSentence
  <2>1. CASE b <= Len(blocks)
    <3>1. b \in 1..Len(blocks) /\ b \in 1..Len(origin) BY <1>8, <1>9, <2>1
    <3>2. blocks'[b] = blocks[b] /\ origin'[b] = origin[b] BY <1>7, <1>8, <3>1
    <3>3. BlocksLongForAReason BY DEF DivInv
    <3> QED BY <1>1, <3>1, <3>2, <3>3 DEF BlocksLongForAReason
  <2>2. CASE b > Len(blocks)
    <3>1. PICK i \in 1..Len(bs) : b = Len(blocks) + i
      <4>1. b - Len(blocks) \in 1..Len(bs) /\ b = Len(blocks) + (b - Len(blocks)) BY <1>8, <2>2
      <4> QED BY <4>1
    <3>2. blocks'[b] = bs[i] /\ origin'[b] = os[i] BY <1>7, <1>8, <1>9, <3>1 DEF SameLength
    <3> QED BY <1>1, <3>2
  <2>3. b <= Len(blocks) \/ b > Len(blocks) BY <1>8
  <2> QED BY <2>1, <2>2, <2>3
<1> QED BY <1>2, <1>4, <1>10, <1>11 DEF DivInv

\* A block kept whole.
LEMMA KeepBlockInv == ASSUME IInv, DivInv, KeepBlock PROVE IInv' /\ DivInv'
<1> DEFINE b == [len |-> Source.len, page |-> Source.page, kind |-> Source.kind]
           o == <<WholeBlock>>
<1>0. Registers BY DEF DivInv
<1>1. at <= Len(source) /\ Undivided BY DEF KeepBlock
<1>2. b \in Blocks BY <1>0, <1>1, SourceFacts DEF Blocks
<1>3. o \in Seq(Stretches) BY <1>0, WholeTypes
<1>4. b.len <= Target + 1 \/ (respect /\ b.kind = "table")
      BY <1>0, <1>1, SourceFacts, PackerAssumption DEF Undivided
<1>5. blocks' = Append(blocks, b) /\ origin' = Append(origin, o) BY DEF KeepBlock
<1>6. blocks \in Seq(Blocks) /\ origin \in Seq(Seq(Stretches))
      BY SMTT(40) DEF IInv, Shape, DivInv, Registers
<1>7. PiecesFit' BY DEF KeepBlock, DivInv, PiecesFit, Fits, IsOneSentence, Pieces, Stretches, Positions
<1>8. /\ UNCHANGED <<source, current, respect, packer>> /\ at' = at + 1
      /\ par' \in Nat \ {0} /\ sen' \in Nat
      BY DEF KeepBlock, DivInv, Registers
<1> HIDE DEF b, o
<1>9. blocks' = blocks \o <<b>> /\ origin' = origin \o <<o>>
  <2>1. blocks' = blocks \o <<b>> BY <1>2, <1>5, <1>6
  <2> DEFINE S == Seq(Stretches)
  <2>2. origin \in Seq(S) /\ o \in S BY <1>3, <1>6
  <2> HIDE DEF S
  <2>3. origin' = origin \o <<o>> BY <1>5, <2>2
  <2> QED BY <2>1, <2>3
<1>10. /\ <<b>> \in Seq(Blocks) /\ <<o>> \in Seq(Seq(Stretches)) /\ SameLength(<<o>>, <<b>>)
       /\ \A i \in 1..Len(<<b>>) :
            <<b>>[i].len <= Target + 1 \/ IsOneSentence(<<o>>[i]) \/ (respect /\ <<b>>[i].kind = "table")
       BY <1>2, <1>3, <1>4 DEF SameLength
<1> QED BY <1>1, <1>7, <1>8, <1>9, <1>10, GrowInv

\* A block replaced by its pieces.
LEMMA EndBlockInv == ASSUME IInv, DivInv, EndBlock PROVE IInv' /\ DivInv'
<1> DEFINE kept == IF Source.kind = "blank" THEN <<>> ELSE pieces
           bs == [i \in 1..Len(kept) |-> [len |-> kept[i].len, page |-> Source.page, kind |-> Source.kind]]
           os == [i \in 1..Len(kept) |-> kept[i].of]
<1>0. Registers /\ PiecesFit BY DEF DivInv
<1>1. at <= Len(source) BY DEF EndBlock, Dividing
<1>2. kept \in Seq(Pieces) /\ \A i \in 1..Len(kept) : Fits(kept[i])
  <2>1. CASE Source.kind = "blank" BY <2>1
  <2>2. CASE Source.kind # "blank" BY <1>0, <2>2 DEF PiecesFit
  <2> QED BY <2>1, <2>2
<1>3. blocks' = blocks \o bs /\ origin' = origin \o os /\ at' = at + 1 BY DEF EndBlock, Divided
<1> HIDE DEF kept
<1>4. Len(kept) \in Nat BY <1>2
<1>5. \A i \in 1..Len(kept) : kept[i].len \in Nat /\ kept[i].of \in Seq(Stretches)
      BY <1>2, PieceTypes
<1>6. Source.page \in Nat \ {0} /\ Source.kind \in Kinds BY <1>0, <1>1, SourceFacts
<1>7. bs \in Seq(Blocks) /\ Len(bs) = Len(kept)
  <2>1. \A i \in 1..Len(kept) :
          [len |-> kept[i].len, page |-> Source.page, kind |-> Source.kind] \in Blocks
        BY <1>5, <1>6 DEF Blocks
  <2> QED BY <1>4, <2>1
<1>8. os \in Seq(Seq(Stretches)) /\ Len(os) = Len(kept) BY <1>4, <1>5
<1>9. \A i \in 1..Len(bs) :
        bs[i].len <= Target + 1 \/ IsOneSentence(os[i]) \/ (respect /\ bs[i].kind = "table")
      BY <1>2, <1>7 DEF Fits
<1>10. PiecesFit'
  <2>1. pieces' = <<>> /\ current' = current BY DEF EndBlock
  <2>2. Fits(current)' BY <1>0, <2>1 DEF PiecesFit, Fits, IsOneSentence, Pieces, Stretches, Positions
  <2>3. pieces' \in Seq(Pieces)' BY <2>1 DEF Pieces, Stretches, Positions
  <2> QED BY <2>1, <2>2, <2>3 DEF PiecesFit
<1>11. UNCHANGED <<source, current, respect, packer>> /\ par' \in Nat \ {0} /\ sen' \in Nat
       BY DEF EndBlock
<1> HIDE DEF bs, os
<1>12. SameLength(os, bs) BY <1>7, <1>8 DEF SameLength
<1> QED BY <1>1, <1>3, <1>7, <1>8, <1>9, <1>10, <1>11, <1>12, GrowInv

\* One turn within a paragraph keeps the pieces as long as they may be.
LEMMA CutsFit ==
  ASSUME IInv, DivInv,
         KeepParagraph \/ OpenParagraph \/ CutBefore \/ HardCut \/ GatherSentence \/ EndParagraph
  PROVE  /\ Dividing /\ par' \in Nat \ {0} /\ sen' \in Nat
         /\ Cut(pieces', current') /\ PiecesFit'
<1>0. /\ Registers /\ Fits(current) /\ Target \in Nat \ {0}
      /\ pieces \in Seq(Pieces) /\ \A i \in 1..Len(pieces) : Fits(pieces[i])
      BY PackerAssumption, ChunkingAssumption DEF DivInv, PiecesFit
<1>1. par + 1 \in Nat \ {0} /\ sen + 1 \in Nat /\ par \in Nat \ {0} BY SMTT(40), <1>0 DEF Registers
<1>2. ASSUME NEW ps \in Seq(Pieces), \A i \in 1..Len(ps) : Fits(ps[i]),
             NEW piece, Fits(piece), Cut(ps, piece)
      PROVE  Cut(pieces', current') /\ PiecesFit'
  <2>1. pieces' = ps /\ current' = piece BY <1>2 DEF Cut
  <2>2. Cut(pieces', current') BY <1>2, <2>1
  <2>3. Fits(current') /\ pieces' \in Seq(Pieces) /\ \A i \in 1..Len(pieces') : Fits(pieces'[i])
        BY <1>2, <2>1
  <2> QED BY <2>2, <2>3 DEF PiecesFit, Fits, IsOneSentence, Pieces, Stretches, Positions
<1>3. Fits(NoPiece)
  <2>1. <<>> \in Seq(Stretches) /\ 0 <= Target + 1 BY <1>0
  <2>2. NoPiece \in Pieces /\ NoPiece.len = 0 BY <2>1, PieceFacts DEF NoPiece
  <2> QED BY <2>1, <2>2 DEF Fits
<1>4. /\ <<WholeParagraph>> \in Seq(Stretches)
      /\ WholeSentence \in Stretches /\ <<WholeSentence>> \in Seq(Stretches)
      BY <1>0, WholeTypes
<1>5. CASE KeepParagraph
  <2> DEFINE whole == Piece(Paragraph.len, <<WholeParagraph>>)
  <2>1. at <= Len(source) /\ par <= Len(Source.text) /\ Paragraph.len <= Target
        BY <1>5 DEF KeepParagraph, AtParagraph, Dividing
  <2>2. Paragraph.len \in Nat BY <1>0, <2>1, ParagraphFacts
  <2>3. whole \in Pieces /\ whole.len = Paragraph.len BY <1>4, <2>2, PieceFacts
  <2> HIDE DEF whole
  <2>4. Fits(whole) BY <1>0, <2>1, <2>2, <2>3 DEF Fits
  <2>5. Append(pieces, whole) \in Seq(Pieces) BY <1>0, <2>4, AppendFits
  <2>6. \A i \in 1..Len(Append(pieces, whole)) : Fits(Append(pieces, whole)[i])
        BY <1>0, <2>4, AppendFits
  <2>7. Cut(pieces, current) \/ Cut(Append(pieces, whole), current) BY <1>5 DEF KeepParagraph, whole
  <2>8. Cut(pieces', current') /\ PiecesFit' BY <1>0, <1>2, <2>5, <2>6, <2>7
  <2>9. Dividing /\ par' = par + 1 /\ sen' = 0
        BY <1>5 DEF KeepParagraph, AtParagraph, NextParagraph
  <2> QED BY <1>1, <2>8, <2>9
<1>6. CASE OpenParagraph
  <2>1. Dividing /\ par' = par /\ sen' = sen + 1 /\ Cut(pieces, current)
        BY <1>6 DEF OpenParagraph, AtParagraph, NextSentence
  <2> QED BY <1>0, <1>1, <1>2, <2>1
<1>7. ASSUME Reading PROVE Dividing /\ Sentence \in Nat
  <2>1. at <= Len(source) /\ par <= Len(Source.text) /\ sen \in 1..Len(Paragraph.sentences) /\ Dividing
        BY <1>7 DEF Reading, Dividing
  <2> QED BY <1>0, <2>1, ParagraphFacts
<1>8. CASE CutBefore
  <2> DEFINE piece == Piece(Sentence, <<WholeSentence>>)
  <2>1. Reading /\ par' = par /\ sen' = sen + 1 /\ Cut(Append(pieces, current), piece)
        BY <1>8 DEF CutBefore, NextSentence
  <2>2. piece \in Pieces /\ piece.of = <<WholeSentence>> BY <1>4, <1>7, <2>1, PieceFacts
  <2>3. IsOneSentence(<<WholeSentence>>) BY DEF IsOneSentence, WholeSentence, Stretch
  <2> HIDE DEF piece
  <2>4. Fits(piece) BY <2>2, <2>3 DEF Fits
  <2>5. /\ Append(pieces, current) \in Seq(Pieces)
        /\ \A i \in 1..Len(Append(pieces, current)) : Fits(Append(pieces, current)[i])
        BY <1>0, AppendFits
  <2> QED BY <1>1, <1>2, <1>7, <2>1, <2>4, <2>5
<1>9. CASE HardCut
  <2> DEFINE m == (Sentence + Target - 1) \div Target
             slices == Slices(m)
  <2>1. Reading /\ par' = par /\ sen' = sen + 1 /\ Cut(pieces \o slices, NoPiece) /\ Sentence > Target
        BY <1>9 DEF HardCut, NextSentence
  <2>2. m \in Nat /\ \A i \in 1..m : (i - 1) * Target \in Nat /\ (i - 1) * Target < Sentence
        BY <1>7, <2>1, LastSlice
  <2> HIDE DEF m
  <2>3. slices \in Seq(Pieces) /\ \A i \in 1..Len(slices) : Fits(slices[i])
        BY <1>0, <1>7, <2>1, <2>2, SliceFacts
  <2> HIDE DEF slices
  <2>4. /\ pieces \o slices \in Seq(Pieces)
        /\ \A i \in 1..Len(pieces \o slices) : Fits((pieces \o slices)[i])
        BY <1>0, <2>3, ConcatFits
  <2> QED BY <1>1, <1>2, <1>3, <1>7, <2>1, <2>4
<1>10. CASE GatherSentence
  <2>1. Reading /\ par' = par /\ sen' = sen + 1 /\ Cut(pieces, Gathered)
        /\ Sentence <= Target /\ (current.len = 0 \/ current.len + Sentence <= Target)
        BY <1>10 DEF GatherSentence, NextSentence
  <2>2. Sentence \in Nat /\ current.len \in Nat /\ current.of \in Seq(Stretches)
        BY <1>0, <1>7, <2>1, PieceTypes DEF Fits
  <2>3. Joined(current.len, Sentence) \in Nat /\ Joined(current.len, Sentence) <= Target + 1
        BY <1>0, <2>1, <2>2 DEF Joined
  <2>4. Append(current.of, WholeSentence) \in Seq(Stretches) BY <1>4, <2>2
  <2>5. Gathered \in Pieces /\ Gathered.len <= Target + 1 BY <2>3, <2>4, PieceFacts DEF Gathered
  <2>6. Fits(Gathered) BY <2>5 DEF Fits
  <2> QED BY <1>0, <1>1, <1>2, <1>7, <2>1, <2>6
<1>11. CASE EndParagraph
  <2>1. Dividing /\ par' = par + 1 /\ sen' = 0
        /\ (Cut(pieces, NoPiece) \/ Cut(Append(pieces, current), NoPiece))
        BY <1>11 DEF EndParagraph, NextParagraph
  <2>2. /\ Append(pieces, current) \in Seq(Pieces)
        /\ \A i \in 1..Len(Append(pieces, current)) : Fits(Append(pieces, current)[i])
        BY <1>0, AppendFits
  <2>3. Cut(pieces', current') /\ PiecesFit' BY <1>0, <1>2, <1>3, <2>1, <2>2
  <2> QED BY <1>1, <2>1, <2>3
<1> QED BY <1>5, <1>6, <1>8, <1>9, <1>10, <1>11

\* The document before anything is divided.
LEMMA ChunkingInitInv == ChunkingInit => ChunkingInv
<1> SUFFICES ASSUME ChunkingInit PROVE ChunkingInv
    OBVIOUS
<1>1. blocks \in Seq(Blocks) /\ origin \in Seq(Seq(Stretches)) /\ pieces \in Seq(Pieces)
      BY DEF ChunkingInit
<1>2. IInv BY <1>1, StartInv DEF ChunkingInit, Ready
<1>3. source \in Seq(SourceBlocks) BY ChunkingAssumption DEF ChunkingInit
<1>4. Registers BY <1>1, <1>3 DEF ChunkingInit, Registers
<1>5. PiecesFit
  <2>1. <<>> \in Seq(Stretches) /\ 0 <= Target + 1 BY PackerAssumption
  <2>2. NoPiece \in Pieces /\ NoPiece.len = 0 BY <2>1, PieceFacts DEF NoPiece
  <2> QED BY <1>1, <2>1, <2>2 DEF ChunkingInit, PiecesFit, Fits
<1>6. BlocksLongForAReason BY DEF ChunkingInit, BlocksLongForAReason
<1>7. Start BY DEF ChunkingInit
<1> QED BY <1>2, <1>4, <1>5, <1>6, <1>7 DEF ChunkingInv, DivInv

\* Packing leaves what was divided alone.
LEMMA PackDividedInv == ASSUME IInv, DivInv, PackDivided PROVE IInv' /\ DivInv'
<1>1. IInv' BY NextInv DEF PackDivided
<1>2. UNCHANGED <<source, at, par, sen, current, pieces, origin, respect, blocks>>
      BY DEF PackDivided, divider, Next, Pack, FlushLast
<1>3. ~(at' <= Len(source')) BY <1>2 DEF PackDivided, DivInv, Registers
<1>4. Registers' BY <1>2 DEF DivInv, Registers
<1>5. PiecesFit' BY <1>2 DEF DivInv, PiecesFit, Fits, IsOneSentence, Pieces, Stretches, Positions
<1>6. BlocksLongForAReason' BY <1>2 DEF DivInv, BlocksLongForAReason, IsOneSentence
<1> QED BY <1>1, <1>3, <1>4, <1>5, <1>6 DEF DivInv

\* Every step preserves the invariant.
LEMMA ChunkingNextInv == ChunkingInv /\ [ChunkingNext]_chunkingVars => ChunkingInv'
<1> SUFFICES ASSUME IInv, DivInv, [ChunkingNext]_chunkingVars PROVE IInv' /\ DivInv'
    BY DEF ChunkingInv
<1>1. CASE KeepBlock BY <1>1, KeepBlockInv
<1>2. CASE EndBlock BY <1>2, EndBlockInv
<1>3. CASE KeepParagraph \/ OpenParagraph \/ CutBefore \/ HardCut \/ GatherSentence \/ EndParagraph
      BY <1>3, CutsFit, CutInv
<1>4. CASE PackDivided BY <1>4, PackDividedInv
<1>5. CASE UNCHANGED chunkingVars
  <2>1. UNCHANGED vars /\ UNCHANGED <<source, at, par, sen, current, pieces, origin, blocks, respect>>
        /\ UNCHANGED <<next, buffer, size, chunks>>
        BY <1>5 DEF chunkingVars, divider, vars, packer
  <2>2. IInv' BY <2>1, NextInv
  <2>3. (at <= Len(source) => Start)' BY <2>1 DEF DivInv, Start
  <2>4. Registers' BY SMTT(40), <2>1 DEF DivInv, Registers
  <2>5. PiecesFit' BY <2>1 DEF DivInv, PiecesFit, Fits, IsOneSentence, Pieces, Stretches, Positions
  <2>6. BlocksLongForAReason' BY <2>1 DEF DivInv, BlocksLongForAReason, IsOneSentence
  <2> QED BY <2>2, <2>3, <2>4, <2>5, <2>6 DEF DivInv
<1> QED BY <1>1, <1>2, <1>3, <1>4, <1>5 DEF ChunkingNext, Divide

\* The invariant holds in every behaviour.
THEOREM Invariance == ChunkingSpec => []ChunkingInv
<1> QED BY ChunkingInitInv, ChunkingNextInv, PTL DEF ChunkingSpec

\* Neither arm loses a divided block of text, whatever the document.
THEOREM BlocksAreKept == ChunkingSpec => []NothingLost
<1>1. ChunkingInv => NothingLost BY DEF ChunkingInv, IInv, Good
<1> QED BY <1>1, Invariance, PTL

\* The section arm never packs across a heading, and keeps a table to itself
\* (chunking.py:43 and 142).
THEOREM SectionsStand == ChunkingSpec => []StructureStands
<1>1. ChunkingInv => StructureStands BY DEF ChunkingInv, IInv, Good, StructureStands
<1> QED BY <1>1, Invariance, PTL

\* A chunk is beyond the target only by one block, after a short overlap.
THEOREM LengthIsBounded == ChunkingSpec => []LongForAReason
<1>1. ChunkingInv => LongForAReason BY DEF ChunkingInv, IInv, Good
<1> QED BY <1>1, Invariance, PTL

\* A divided block is beyond the target only by a space, unless it is a table
\* or a single sentence.
THEOREM DividedIsBounded == ChunkingSpec => []BlocksLongForAReason
<1>1. ChunkingInv => BlocksLongForAReason BY DEF ChunkingInv, DivInv
<1> QED BY <1>1, Invariance, PTL

(***************************************************************************)
(* The order of the chunks.                                                *)
(***************************************************************************)

\* Places that follow one another, said by the first: no induction is needed
\* to compare any two.
Run(buf) == \A j \in 1..Len(buf) : buf[j] = buf[1] + (j - 1)
LastOf(buf) == buf[Len(buf)]
NonEmptyRun(buf) == buf \in Seq(Places) /\ Len(buf) \in Nat \ {0} /\ Run(buf)

\* A chunk cites, in page order, the pages of its first and its last block.
Cites(chunk) ==
  InPageOrder => /\ chunk.page = blocks[chunk.of[1]].page
                 /\ chunk.end_page = blocks[LastOf(chunk.of)].page

Chain(cs) ==
  \A c \in 1..Len(cs) :
    /\ NonEmptyRun(cs[c].of) /\ Cites(cs[c])
    /\ c > 1 => TakesUp(LastOf(cs[c - 1].of), cs[c].of[1])

\* A place at which the document can go on after the chunks.
After(cs, place) == Len(cs) > 0 => TakesUp(LastOf(cs[Len(cs)].of), place)

\* What is in the buffer goes on after the chunks, up to the block at hand.
Follows ==
  /\ Chain(chunks)
  /\ buffer = <<>> => After(chunks, next)
  /\ buffer # <<>> => Run(buffer) /\ LastOf(buffer) = next - 1 /\ After(chunks, buffer[1])

\* A run has its least place first and its greatest last.
LEMMA RunFacts ==
  ASSUME NEW buf, NonEmptyRun(buf)
  PROVE  /\ buf[1] \in Places /\ LastOf(buf) \in Places
         /\ buf[1] \in Nat /\ LastOf(buf) \in Nat
         /\ LastOf(buf) = buf[1] + (Len(buf) - 1) /\ buf[1] <= LastOf(buf)
         /\ 1 \in 1..Len(buf) /\ Len(buf) \in 1..Len(buf)
         /\ \A j \in 1..Len(buf) : buf[j] \in Places /\ buf[1] <= buf[j] /\ buf[j] <= LastOf(buf)
<1>1. 1 \in 1..Len(buf) /\ Len(buf) \in 1..Len(buf) BY DEF NonEmptyRun
<1>2. \A j \in 1..Len(buf) : buf[j] \in Places /\ buf[j] \in Nat BY DEF NonEmptyRun, Places
<1>3. LastOf(buf) = buf[1] + (Len(buf) - 1) BY <1>1 DEF NonEmptyRun, Run, LastOf
<1>4. \A j \in 1..Len(buf) : buf[j] = buf[1] + (j - 1) BY DEF NonEmptyRun, Run
<1>5. Len(buf) \in Nat \ {0} BY DEF NonEmptyRun
<1>6. \A j \in 1..Len(buf) : buf[1] <= buf[j] /\ buf[j] <= LastOf(buf)
      BY <1>1, <1>2, <1>3, <1>4, <1>5
<1> QED BY <1>1, <1>2, <1>3, <1>6 DEF LastOf

\* The least and the greatest page of a run, in page order, are those of its ends.
LEMMA ChunkCites ==
  ASSUME Shape, NEW buf, NonEmptyRun(buf), NEW n
  PROVE  Chunk(buf, n).of = buf /\ Cites(Chunk(buf, n))
<1>1. Chunk(buf, n).of = buf BY DEF Chunk
<1>2. SUFFICES ASSUME InPageOrder
               PROVE  /\ Chunk(buf, n).page = blocks[buf[1]].page
                      /\ Chunk(buf, n).end_page = blocks[LastOf(buf)].page
      BY <1>1 DEF Cites
<1> DEFINE first == blocks[buf[1]].page
           last == blocks[LastOf(buf)].page
<1>3. \A i \in Places : blocks[i].page \in Nat
  <2>1. \A i \in Places : blocks[i] \in Blocks BY BlockTypes
  <2> QED BY <2>1 DEF Blocks
<1>4. first \in PagesOf(buf) /\ last \in PagesOf(buf) BY RunFacts DEF PagesOf, LastOf
<1>5. \A q \in PagesOf(buf) : q \in Nat /\ first <= q /\ q <= last
  <2> SUFFICES ASSUME NEW j \in 1..Len(buf)
               PROVE  blocks[buf[j]].page \in Nat /\ first <= blocks[buf[j]].page
                      /\ blocks[buf[j]].page <= last
      BY DEF PagesOf
  <2>1. /\ buf[j] \in Places /\ buf[1] \in Places /\ LastOf(buf) \in Places
        /\ buf[1] <= buf[j] /\ buf[j] <= LastOf(buf)
        BY RunFacts
  <2> QED BY <1>2, <1>3, <2>1 DEF InPageOrder
<1> HIDE DEF first, last
<1>6. (CHOOSE p \in PagesOf(buf) : \A q \in PagesOf(buf) : p <= q) = first
  <2> DEFINE least == CHOOSE p \in PagesOf(buf) : \A q \in PagesOf(buf) : p <= q
  <2>1. least \in PagesOf(buf) /\ \A q \in PagesOf(buf) : least <= q BY <1>4, <1>5
  <2> HIDE DEF least
  <2>2. least = first BY <1>4, <1>5, <2>1
  <2> QED BY <2>2 DEF least
<1>7. (CHOOSE p \in PagesOf(buf) : \A q \in PagesOf(buf) : q <= p) = last
  <2> DEFINE greatest == CHOOSE p \in PagesOf(buf) : \A q \in PagesOf(buf) : q <= p
  <2>1. greatest \in PagesOf(buf) /\ \A q \in PagesOf(buf) : q <= greatest BY <1>4, <1>5
  <2> HIDE DEF greatest
  <2>2. greatest = last BY <1>4, <1>5, <2>1
  <2> QED BY <2>2 DEF greatest
<1> QED BY <1>6, <1>7 DEF Chunk, first, last

\* A document that can go on at a place can go on at any later one.
LEMMA AfterGrows ==
  ASSUME NEW cs, Chain(cs), Len(cs) \in Nat, NEW p \in Nat, After(cs, p), NEW q \in Nat, q > p
  PROVE  After(cs, q)
<1>1. SUFFICES ASSUME Len(cs) > 0 PROVE TakesUp(LastOf(cs[Len(cs)].of), q) BY DEF After
<1>2. NonEmptyRun(cs[Len(cs)].of) BY <1>1 DEF Chain
<1>3. LastOf(cs[Len(cs)].of) \in Nat BY <1>2, RunFacts
<1> QED BY <1>1, <1>3 DEF After, TakesUp

\* Flushing a run that goes on after the chunks leaves a chain, after which
\* what takes up the run can follow.
LEMMA FlushFollows ==
  ASSUME Shape, NEW S, NEW cs \in Seq(S), Chain(cs),
         NEW buf, NonEmptyRun(buf), After(cs, buf[1]), NEW n
  PROVE  /\ Chain(Flush(cs, buf, n))
         /\ \A place \in Nat : TakesUp(LastOf(buf), place) => After(Flush(cs, buf, n), place)
<1>1. CASE HasText(buf)
  <2> DEFINE x == Chunk(buf, n)
  <2>1. x.of = buf /\ Cites(x) BY ChunkCites
  <2>2. Flush(cs, buf, n) = Append(cs, x) BY <1>1 DEF Flush
  <2> HIDE DEF x
  <2>3. cs \in Seq(S \cup {x}) OBVIOUS
  <2> DEFINE out == Append(cs, x)
  <2>4. /\ Len(out) = Len(cs) + 1 /\ Len(cs) \in Nat
        /\ \A c \in 1..Len(cs) : out[c] = cs[c]
        /\ out[Len(cs) + 1] = x
        BY <2>3
  <2> HIDE DEF out
  <2>5. Chain(out)
    <3> SUFFICES ASSUME NEW c \in 1..Len(out)
                 PROVE  /\ NonEmptyRun(out[c].of) /\ Cites(out[c])
                        /\ c > 1 => TakesUp(LastOf(out[c - 1].of), out[c].of[1])
        BY DEF Chain
    <3>1. CASE c <= Len(cs)
      <4>1. c \in 1..Len(cs) /\ (c > 1 => c - 1 \in 1..Len(cs)) BY <2>4, <3>1
      <4>2. out[c] = cs[c] /\ (c > 1 => out[c - 1] = cs[c - 1]) BY <2>4, <4>1
      <4> QED BY <4>1, <4>2 DEF Chain
    <3>2. CASE c > Len(cs)
      <4>1. c = Len(cs) + 1 /\ out[c] = x BY <2>4, <3>2
      <4>2. c > 1 => Len(cs) > 0 /\ c - 1 = Len(cs) /\ Len(cs) \in 1..Len(cs) BY <2>4, <4>1
      <4>3. c > 1 => out[c - 1] = cs[Len(cs)] BY <2>4, <4>2
      <4> QED BY <2>1, <4>1, <4>2, <4>3 DEF After
    <3> QED BY <2>4, <3>1, <3>2
  <2>6. \A place \in Nat : TakesUp(LastOf(buf), place) => After(out, place)
        BY <2>1, <2>4 DEF After
  <2> QED BY <2>2, <2>5, <2>6 DEF out
<1>2. CASE ~HasText(buf)
  <2>1. Flush(cs, buf, n) = cs BY <1>2 DEF Flush
  <2>2. ASSUME NEW place \in Nat, TakesUp(LastOf(buf), place) PROVE After(cs, place)
    <3>1. SUFFICES ASSUME Len(cs) > 0 PROVE TakesUp(LastOf(cs[Len(cs)].of), place) BY DEF After
    <3>2. NonEmptyRun(cs[Len(cs)].of) BY <3>1 DEF Chain
    <3>3. LastOf(cs[Len(cs)].of) \in Nat BY <3>2, RunFacts
    <3>4. TakesUp(LastOf(cs[Len(cs)].of), buf[1]) BY <3>1 DEF After
    <3>5. buf[1] \in Nat /\ LastOf(buf) \in Nat /\ buf[1] <= LastOf(buf) BY RunFacts
    <3> QED BY <2>2, <3>3, <3>4, <3>5 DEF TakesUp
  <2> QED BY <2>1, <2>2
<1> QED BY <1>1, <1>2

\* Nothing is packed before the loop.
LEMMA StartFollows == Start => Follows
BY DEF Start, Follows, Chain, After

\* A full buffer, flushed.
LEMMA FlushBufferFollows ==
  ASSUME Shape, Follows, buffer # <<>>
  PROVE  /\ Chain(Flush(chunks, buffer, size))
         /\ next \in Nat /\ NonEmptyRun(buffer)
         /\ \A place \in Nat : TakesUp(next - 1, place) => After(Flush(chunks, buffer, size), place)
<1>1. PICK S : chunks \in Seq(S) BY DEF Shape
<1>2. next \in Nat /\ NonEmptyRun(buffer) BY DEF Shape, Buffers, Follows, NonEmptyRun
<1>3. Chain(chunks) /\ After(chunks, buffer[1]) /\ LastOf(buffer) = next - 1 BY DEF Follows
<1> QED BY <1>1, <1>2, <1>3, FlushFollows

\* An empty one leaves the chunks as they were.
LEMMA EmptyBufferFollows ==
  ASSUME Shape, Follows, buffer = <<>>
  PROVE  Flush(chunks, buffer, size) = chunks /\ Chain(chunks) /\ After(chunks, next)
BY DEF Follows, Flush, HasText

\* What is true of the chunks to come is true of the chunks then: the document
\* stays.
LEMMA StayingDocument ==
  ASSUME UNCHANGED blocks
  PROVE  /\ \A cs : Chain(chunks') => Chain(chunks)'
         /\ (After(chunks', next') => After(chunks, next)')
         /\ (After(chunks', buffer'[1]) => After(chunks, buffer[1])')
BY DEF Chain, After, TakesUp, NonEmptyRun, Run, LastOf, Cites, InPageOrder, Places

\* One turn of the loop.
LEMMA PackFollows == ASSUME Shape, Follows, Pack PROVE Follows'
<1>1. next \in Nat /\ next + 1 \in Nat /\ next \in Places /\ next' = next + 1 /\ UNCHANGED blocks
      BY BlockFacts DEF Pack, Shape
<1>2. NonEmptyRun(<<next>>) /\ LastOf(<<next>>) = next /\ <<next>>[1] = next
      BY <1>1 DEF NonEmptyRun, Run, LastOf
<1>3. TakesUp(next - 1, next) /\ TakesUp(next, next + 1) BY <1>1 DEF TakesUp
<1>4. CASE OpenSection
  <2>1. chunks' = Flush(chunks, buffer, size) /\ buffer' = <<next>> /\ buffer # <<>>
        BY <1>4 DEF OpenSection, Hold
  <2>2. Chain(chunks') /\ After(chunks', next) BY <1>1, <1>3, <2>1, FlushBufferFollows
  <2>3. buffer' # <<>> /\ Run(buffer)' /\ LastOf(buffer)' = next' - 1 /\ buffer'[1] = next
        BY <1>1, <2>1 DEF Run, LastOf
  <2> QED BY <1>1, <2>2, <2>3, StayingDocument DEF Follows
<1>5. CASE EmitTable
  <2> DEFINE cs == Flush(chunks, buffer, size)
  <2>1. chunks' = Flush(cs, <<next>>, Block.len) /\ buffer' = <<>> BY <1>5 DEF EmitTable, Hold
  <2>2. Chain(cs) /\ After(cs, next)
    <3>1. CASE buffer = <<>> BY <3>1, EmptyBufferFollows
    <3>2. CASE buffer # <<>> BY <1>1, <1>3, <3>2, FlushBufferFollows
    <3> QED BY <3>1, <3>2
  <2>3. PICK T : cs \in Seq(T) BY FlushFacts DEF Shape
  <2> HIDE DEF cs
  <2>4. Chain(chunks') /\ After(chunks', next + 1)
        BY <1>1, <1>2, <1>3, <2>1, <2>2, <2>3, FlushFollows
  <2> QED BY <1>1, <2>1, <2>4, StayingDocument DEF Follows
<1>6. CASE Overflow
  <2>1. chunks' = Flush(chunks, buffer, size) /\ buffer # <<>> BY <1>6 DEF Overflow
  <2>2. CASE Carry = <<>>
    <3>1. buffer' = <<next>> BY <1>6, <2>2 DEF Overflow, Hold
    <3>2. Chain(chunks') /\ After(chunks', next) BY <1>1, <1>3, <2>1, FlushBufferFollows
    <3>3. buffer' # <<>> /\ Run(buffer)' /\ LastOf(buffer)' = next' - 1 /\ buffer'[1] = next
          BY <1>1, <3>1 DEF Run, LastOf
    <3> QED BY <1>1, <3>2, <3>3, StayingDocument DEF Follows
  <2>3. CASE Carry # <<>>
    <3>1. /\ Carry = <<LastOf(buffer)>> /\ LastOf(buffer) \in Places
          /\ blocks[LastOf(buffer)].len <= Overlap
          BY <2>1, <2>3, CarryFacts DEF LastOf
    <3>2. LastOf(buffer) = next - 1 BY <2>1 DEF Follows
    <3>3. buffer' = Append(<<next - 1>>, next) BY <1>6, <3>1, <3>2 DEF Overflow, Hold
    <3>4. next - 1 \in Nat /\ TakesUp(next - 1, next - 1) BY <3>1, <3>2 DEF Places, TakesUp
    <3>5. Chain(chunks') /\ After(chunks', next - 1) BY <2>1, <3>4, FlushBufferFollows
    <3>6. buffer'[1] = next - 1 /\ buffer'[2] = next /\ Len(buffer') = 2
      <4>1. <<next - 1>> \in Seq(Nat) /\ Len(<<next - 1>>) = 1 /\ <<next - 1>>[1] = next - 1 BY <3>4
      <4> QED BY <1>1, <3>3, <4>1
    <3>7. buffer' # <<>> /\ Run(buffer)' /\ LastOf(buffer)' = next' - 1
          BY <1>1, <3>6 DEF Run, LastOf
    <3> QED BY <1>1, <3>5, <3>6, <3>7, StayingDocument DEF Follows
  <2> QED BY <2>2, <2>3
<1>7. CASE Gather
  <2>1. chunks' = chunks /\ buffer' = Append(buffer, next) /\ buffer \in Seq(Places)
        BY <1>7 DEF Gather, Hold, Shape, Buffers
  <2>2. /\ Len(buffer') = Len(buffer) + 1 /\ Len(buffer) \in Nat
        /\ buffer'[Len(buffer) + 1] = next
        /\ \A j \in 1..Len(buffer) : buffer'[j] = buffer[j]
        BY <1>1, <2>1
  <2>3. LastOf(buffer)' = next' - 1 BY <1>1, <2>2 DEF LastOf
  <2>4. CASE buffer = <<>>
    <3>1. Len(buffer') = 1 /\ buffer'[1] = next BY <2>2, <2>4
    <3>2. buffer' # <<>> /\ Run(buffer)' BY <1>1, <3>1 DEF Run
    <3>3. Chain(chunks') /\ After(chunks', next) BY <2>1, <2>4 DEF Follows
    <3> QED BY <1>1, <2>3, <3>1, <3>2, <3>3, StayingDocument DEF Follows
  <2>5. CASE buffer # <<>>
    <3>1. NonEmptyRun(buffer) /\ LastOf(buffer) = next - 1 BY <2>5, FlushBufferFollows DEF Follows
    <3>2. /\ buffer[1] \in Nat /\ LastOf(buffer) = buffer[1] + (Len(buffer) - 1) /\ 1 \in 1..Len(buffer)
          BY <3>1, RunFacts
    <3>3. next = buffer[1] + Len(buffer) BY <1>1, <2>2, <3>1, <3>2
    <3>4. buffer'[1] = buffer[1] BY <2>2, <3>2
    <3>5. ASSUME NEW j \in 1..Len(buffer') PROVE buffer'[j] = buffer'[1] + (j - 1)
      <4>1. CASE j <= Len(buffer)
        <5>1. j \in 1..Len(buffer) BY <2>2, <4>1
        <5>2. buffer[j] = buffer[1] + (j - 1) BY <3>1, <5>1 DEF NonEmptyRun, Run
        <5> QED BY <2>2, <3>4, <5>1, <5>2
      <4>2. CASE j > Len(buffer)
        <5>1. j = Len(buffer) + 1 BY <2>2, <4>2
        <5> QED BY <2>2, <3>2, <3>3, <3>4, <5>1
      <4> QED BY <2>2, <4>1, <4>2
    <3>6. buffer' # <<>> /\ Run(buffer)' BY <2>2, <3>5 DEF Run
    <3>7. Chain(chunks') /\ After(chunks', buffer'[1]) BY <2>1, <2>5, <3>4 DEF Follows
    <3> QED BY <1>1, <2>3, <3>6, <3>7, StayingDocument DEF Follows
  <2> QED BY <2>4, <2>5
<1> QED BY <1>4, <1>5, <1>6, <1>7 DEF Pack

\* The flush after the loop.
LEMMA FlushLastFollows == ASSUME Shape, Follows, FlushLast PROVE Follows'
<1>1. /\ UNCHANGED blocks /\ next' = next + 1 /\ next \in Nat
      /\ chunks' = Flush(chunks, buffer, size) /\ buffer' = <<>>
      BY DEF FlushLast, Hold, Shape
<1>2. TakesUp(next - 1, next + 1) BY <1>1 DEF TakesUp
<1>3. CASE buffer = <<>>
  <2>1. PICK S : chunks \in Seq(S) BY DEF Shape
  <2>2. Len(chunks) \in Nat BY <2>1
  <2>3. Chain(chunks') /\ After(chunks', next + 1) BY <1>1, <1>3, <2>2, EmptyBufferFollows, AfterGrows
  <2> QED BY <1>1, <2>3, StayingDocument DEF Follows
<1>4. CASE buffer # <<>>
  <2>1. Chain(chunks') /\ After(chunks', next + 1) BY <1>1, <1>2, <1>4, FlushBufferFollows
  <2> QED BY <1>1, <2>1, StayingDocument DEF Follows
<1> QED BY <1>3, <1>4

\* Every step, dividing or packing, keeps the order.
LEMMA FollowsInv == ChunkingInv /\ Follows /\ [ChunkingNext]_chunkingVars => Follows'
<1> SUFFICES ASSUME ChunkingInv, Follows, [ChunkingNext]_chunkingVars PROVE Follows'
    OBVIOUS
<1>1. Shape BY DEF ChunkingInv, IInv
<1>2. CASE Divide
  <2>1. at <= Len(source) /\ UNCHANGED packer
        BY <1>2 DEF Divide, KeepBlock, EndBlock, KeepParagraph, OpenParagraph, CutBefore, HardCut,
                    GatherSentence, EndParagraph, AtParagraph, Reading, Dividing, Cut
  <2>2. Start' BY <2>1 DEF ChunkingInv, DivInv, Start, packer
  <2> QED BY <2>2, StartFollows, PTL
<1>3. CASE PackDivided
      BY <1>1, <1>3, PackFollows, FlushLastFollows DEF PackDivided, Next
<1>4. CASE UNCHANGED chunkingVars
  <2>1. UNCHANGED <<blocks, next, buffer, size, chunks>> BY <1>4 DEF chunkingVars, vars, packer
  <2>2. Chain(chunks') /\ (buffer = <<>> => After(chunks', next'))
        /\ (buffer # <<>> => Run(buffer) /\ LastOf(buffer) = next - 1 /\ After(chunks', buffer'[1]))
        BY <2>1 DEF Follows
  <2> QED BY <2>1, <2>2, StayingDocument DEF Follows, Run, LastOf
<1> QED BY <1>2, <1>3, <1>4 DEF ChunkingNext

\* What a chain says of the chunks.
LEMMA ChainIsOrder == ChunkingInv /\ Follows => InOrder
<1> SUFFICES ASSUME Shape, Chain(chunks) PROVE InOrder
    BY DEF ChunkingInv, IInv, Follows
<1>1. PICK S : chunks \in Seq(S) BY DEF Shape
<1>2. Len(chunks) \in Nat BY <1>1
<1>3. ASSUME NEW buf, NonEmptyRun(buf) PROVE Consecutive(buf)
  <2>1. \A j \in 1..Len(buf) : buf[j] = buf[1] + (j - 1) BY <1>3 DEF NonEmptyRun, Run
  <2>2. buf[1] \in Nat BY <1>3, RunFacts
  <2>3. Len(buf) \in Nat BY <1>3 DEF NonEmptyRun
  <2>4. ASSUME NEW j \in 1..(Len(buf) - 1) PROVE buf[j + 1] = buf[j] + 1
    <3>1. j \in 1..Len(buf) /\ j + 1 \in 1..Len(buf) BY <2>3
    <3>2. buf[j] = buf[1] + (j - 1) /\ buf[j + 1] = buf[1] + ((j + 1) - 1) BY <2>1, <3>1
    <3> QED BY <2>2, <3>1, <3>2
  <2> QED BY <2>4 DEF Consecutive
<1>4. ChunksFollow BY <1>3 DEF ChunksFollow, Chain, LastOf
<1>5. PagesAdvance
  <2> SUFFICES ASSUME InPageOrder, NEW c \in 1..(Len(chunks) - 1)
               PROVE  chunks[c].end_page <= chunks[c + 1].page
      BY DEF PagesAdvance
  <2>1. c \in 1..Len(chunks) /\ c + 1 \in 1..Len(chunks) /\ c + 1 > 1 /\ (c + 1) - 1 = c BY <1>2
  <2>2. NonEmptyRun(chunks[c].of) /\ NonEmptyRun(chunks[c + 1].of)
        /\ Cites(chunks[c]) /\ Cites(chunks[c + 1])
        /\ TakesUp(LastOf(chunks[c].of), chunks[c + 1].of[1])
        BY <2>1 DEF Chain
  <2> DEFINE last == LastOf(chunks[c].of)
             first == chunks[c + 1].of[1]
  <2>3. last \in Places /\ first \in Places /\ last \in Nat /\ first \in Nat BY <2>2, RunFacts
  <2>4. last <= first BY <2>2, <2>3 DEF TakesUp
  <2>5. blocks[last].page <= blocks[first].page BY <2>3, <2>4 DEF InPageOrder
  <2> QED BY <2>2, <2>5 DEF Cites
<1> QED BY <1>4, <1>5 DEF InOrder

\* Read in order, the chunks are the document, and where blocks come in page
\* order the citations never turn back.
THEOREM ChunksAreInOrder == ChunkingSpec => []InOrder
<1>1. ChunkingInit => ChunkingInv /\ Follows
      BY ChunkingInitInv, StartFollows DEF ChunkingInit
<1>2. ChunkingInv /\ Follows /\ [ChunkingNext]_chunkingVars => (ChunkingInv /\ Follows)'
      BY ChunkingNextInv, FollowsInv
<1> QED BY <1>1, <1>2, ChainIsOrder, PTL DEF ChunkingSpec

(***************************************************************************)
(* What a chunk is: pages, and a length.  The lemmas here need an          *)
(* induction over numbers, which is that there is a least number.          *)
(***************************************************************************)

\* Every set of numbers has a least one.
LEMMA LeastNumber ==
  ASSUME NEW T \in SUBSET Nat, T # {}
  PROVE  \E x \in T : \A y \in T : x <= y
<1> DEFINE R == {p \in Nat \X Nat : p[1] < p[2]}
<1>1. R = OpToRel(<, Nat) BY DEF OpToRel
<1>2. IsWellFoundedOn(R, Nat) BY <1>1, NatLessThanWellFounded
<1> HIDE DEF R
<1>3. PICK x \in T : \A y \in T : ~(<<y, x>> \in R) BY <1>2, WFMin
<1>4. ASSUME NEW y \in T PROVE x <= y
  <2>1. ~(<<y, x>> \in R) BY <1>3
  <2>2. <<y, x>> \in Nat \X Nat OBVIOUS
  <2>3. ~(y < x) BY <2>1, <2>2 DEF R
  <2> QED BY <2>3
<1> QED BY <1>4

\* What holds of 0 and is handed on to the next number holds up to n.
LEMMA UpToBy ==
  ASSUME NEW n \in Nat, NEW H \in SUBSET (0..n), 0 \in H,
         \A j \in 1..n : j - 1 \in H => j \in H
  PROVE  H = 0..n
<1> DEFINE T == {j \in 0..n : j \notin H}
<1>1. SUFFICES ASSUME T # {} PROVE FALSE OBVIOUS
<1>2. T \in SUBSET Nat OBVIOUS
<1>3. PICK x \in T : \A y \in T : x <= y BY <1>1, <1>2, LeastNumber
<1>4. x \in 1..n /\ x - 1 \in 0..n /\ x - 1 < x OBVIOUS
<1>5. x - 1 \notin T BY <1>3, <1>4
<1>6. x - 1 \in H BY <1>4, <1>5
<1> QED BY <1>4, <1>6

\* Of numbers in a row, one is the least and one the greatest.
LEMMA Extremes ==
  ASSUME NEW n \in Nat \ {0}, NEW f \in [1..n -> Nat]
  PROVE  /\ \E k \in 1..n : \A j \in 1..n : f[k] <= f[j]
         /\ \E k \in 1..n : \A j \in 1..n : f[j] <= f[k]
<1> DEFINE Bounded(m) == /\ \E k \in 1..m : \A j \in 1..m : f[k] <= f[j]
                         /\ \E k \in 1..m : \A j \in 1..m : f[j] <= f[k]
           H == {m \in 0..n : m = 0 \/ Bounded(m)}
<1>1. 0 \in H OBVIOUS
<1>2. ASSUME NEW m \in 1..n, m - 1 \in H PROVE m \in H
  <2>1. \A j \in 1..m : j = m \/ j \in 1..(m - 1) OBVIOUS
  <2>2. m \in 1..m /\ m \in 0..n /\ f[m] \in Nat /\ \A j \in 1..m : f[j] \in Nat OBVIOUS
  <2>3. CASE m - 1 = 0
    <3>1. \A j \in 1..m : j = m BY <2>3
    <3>2. \A j \in 1..m : f[m] <= f[j] /\ f[j] <= f[m] BY <2>2, <3>1
    <3>3. Bounded(m) BY <2>2, <3>2
    <3> QED BY <2>2, <3>3
  <2>4. CASE m - 1 # 0
    <3>1. PICK lo \in 1..(m - 1) : \A j \in 1..(m - 1) : f[lo] <= f[j] BY <1>2, <2>4
    <3>2. PICK hi \in 1..(m - 1) : \A j \in 1..(m - 1) : f[j] <= f[hi] BY <1>2, <2>4
    <3>3. lo \in 1..m /\ hi \in 1..m OBVIOUS
    <3>4. \E k \in 1..m : \A j \in 1..m : f[k] <= f[j]
      <4>1. CASE f[m] <= f[lo]
        <5>1. \A j \in 1..m : f[m] <= f[j] BY <2>1, <2>2, <3>1, <3>3, <4>1
        <5> QED BY <2>2, <5>1
      <4>2. CASE ~(f[m] <= f[lo])
        <5>1. f[lo] <= f[m] BY <2>2, <3>3, <4>2
        <5>2. \A j \in 1..m : f[lo] <= f[j] BY <2>1, <3>1, <5>1
        <5> QED BY <3>3, <5>2
      <4> QED BY <4>1, <4>2
    <3>5. \E k \in 1..m : \A j \in 1..m : f[j] <= f[k]
      <4>1. CASE f[hi] <= f[m]
        <5>1. \A j \in 1..m : f[j] <= f[m] BY <2>1, <2>2, <3>2, <3>3, <4>1
        <5> QED BY <2>2, <5>1
      <4>2. CASE ~(f[hi] <= f[m])
        <5>1. f[m] <= f[hi] BY <2>2, <3>3, <4>2
        <5>2. \A j \in 1..m : f[j] <= f[hi] BY <2>1, <3>2, <5>1
        <5> QED BY <3>3, <5>2
      <4> QED BY <4>1, <4>2
    <3> QED BY <2>2, <3>4, <3>5
  <2> QED BY <2>3, <2>4
<1>3. Bounded(n)
  <2>1. H \in SUBSET (0..n) /\ n \in 0..n /\ n # 0 OBVIOUS
  <2> HIDE DEF H
  <2>2. n \in H BY <1>1, <1>2, <2>1, UpToBy
  <2> QED BY <2>1, <2>2 DEF H
<1> QED BY <1>3

\* What flush yields cites pages of its blocks.
LEMMA ChunkTypes ==
  ASSUME Shape, NEW buf \in Buffers, NEW n \in Nat, HasText(buf)
  PROVE  Chunk(buf, n) \in Chunks
<1>1. Len(buf) \in Nat \ {0} /\ \A j \in 1..Len(buf) : buf[j] \in Places
      BY DEF Buffers, HasText
<1>2. \A i \in Places : blocks[i].page \in Nat \ {0}
  <2>1. \A i \in Places : blocks[i] \in Blocks BY BlockTypes
  <2> QED BY <2>1 DEF Blocks
<1> DEFINE len == Len(buf)
           f == [j \in 1..len |-> blocks[buf[j]].page]
<1>3. f \in [1..len -> Nat] /\ \A j \in 1..len : f[j] = blocks[buf[j]].page /\ f[j] \in Nat \ {0}
      BY <1>1, <1>2
<1>4. PagesOf(buf) = {f[j] : j \in 1..len} BY DEF PagesOf
<1> HIDE DEF f
<1>5. len \in Nat \ {0} BY <1>1
<1> HIDE DEF len
<1>6. /\ \E k \in 1..len : \A j \in 1..len : f[k] <= f[j]
      /\ \E k \in 1..len : \A j \in 1..len : f[j] <= f[k]
      BY <1>3, <1>5, Extremes
<1> DEFINE page == CHOOSE p \in PagesOf(buf) : \A q \in PagesOf(buf) : p <= q
           end_page == CHOOSE p \in PagesOf(buf) : \A q \in PagesOf(buf) : q <= p
<1>7. page \in PagesOf(buf) /\ end_page \in PagesOf(buf) BY <1>4, <1>6
<1>8. Chunk(buf, n) = [of |-> buf, size |-> n, page |-> page, end_page |-> end_page]
      BY DEF Chunk
<1> HIDE DEF page, end_page
<1>9. page \in Nat \ {0} /\ end_page \in Nat \ {0} BY <1>3, <1>4, <1>7
<1> QED BY <1>8, <1>9 DEF Chunks

\* Total adds up the lengths, one by one.
SumsUp(f, buf) ==
  f = [j \in 0..Len(buf) |-> IF j = 0 THEN 0 ELSE f[j - 1] + blocks[buf[j]].len]
LEMMA TotalSums ==
  ASSUME Shape, NEW buf \in Buffers
  PROVE  \E f \in [0..Len(buf) -> Nat] : SumsUp(f, buf) /\ Total(buf) = f[Len(buf)]
<1> DEFINE n == Len(buf)
<1>1. n \in Nat /\ \A j \in 1..n : blocks[buf[j]].len \in Nat
  <2>1. n \in Nat /\ \A j \in 1..n : buf[j] \in Places BY DEF Buffers
  <2> QED BY <2>1, BlockTypes
<1> DEFINE Upto(f, m) == /\ f \in [0..n -> Nat] /\ f[0] = 0
                         /\ \A j \in 1..m : f[j] = f[j - 1] + blocks[buf[j]].len
           H == {m \in 0..n : \E f : Upto(f, m)}
<1>2. 0 \in H
  <2>1. Upto([j \in 0..n |-> 0], 0) /\ 0 \in 0..n BY <1>1
  <2> HIDE DEF Upto
  <2> QED BY <2>1
<1>3. ASSUME NEW m \in 1..n, m - 1 \in H PROVE m \in H
  <2>1. PICK f : Upto(f, m - 1) BY <1>3
  <2>2. m \in 0..n /\ m - 1 \in 0..n /\ 0 \in 0..n /\ 0 # m BY <1>1
  <2> DEFINE next1 == f[m - 1] + blocks[buf[m]].len
             g == [f EXCEPT ![m] = next1]
  <2>3. next1 \in Nat
    <3>1. f[m - 1] \in Nat BY <2>1, <2>2
    <3>2. blocks[buf[m]].len \in Nat BY <1>1
    <3> QED BY <3>1, <3>2
  <2> HIDE DEF next1
  <2>4. g \in [0..n -> Nat] /\ g[m] = next1 /\ \A j \in 0..n : j # m => g[j] = f[j]
        BY <2>1, <2>2, <2>3
  <2> HIDE DEF g
  <2>5. g[0] = 0 BY <2>1, <2>2, <2>4
  <2>6. ASSUME NEW j \in 1..m PROVE g[j] = g[j - 1] + blocks[buf[j]].len
    <3>1. j - 1 \in 0..n /\ j - 1 # m /\ j \in 0..n OBVIOUS
    <3>2. g[j - 1] = f[j - 1] BY <2>4, <3>1
    <3>3. CASE j = m BY <2>4, <3>2, <3>3 DEF next1
    <3>4. CASE j # m
      <4>1. j \in 1..(m - 1) BY <3>4
      <4> QED BY <2>1, <2>4, <3>1, <3>2, <3>4, <4>1
    <3> QED BY <3>3, <3>4
  <2>7. Upto(g, m) BY <2>4, <2>5, <2>6
  <2> HIDE DEF Upto
  <2> QED BY <2>2, <2>7
<1>4. \E f : Upto(f, n)
  <2> HIDE DEF Upto
  <2>1. H \in SUBSET (0..n) /\ n \in 0..n BY <1>1
  <2> HIDE DEF H
  <2>2. n \in H BY <1>1, <1>2, <1>3, <2>1, UpToBy
  <2> QED BY <2>2 DEF H
<1>5. PICK f : Upto(f, n) BY <1>4
<1>6. SumsUp(f, buf)
  <2>1. f = [j \in 0..n |-> f[j]] BY <1>5
  <2>2. \A j \in 0..n : j = 0 \/ j \in 1..n BY <1>1
  <2>3. \A j \in 0..n : f[j] = IF j = 0 THEN 0 ELSE f[j - 1] + blocks[buf[j]].len BY <1>5, <2>2
  <2> QED BY <2>1, <2>3 DEF SumsUp
<1> DEFINE s == CHOOSE g : SumsUp(g, buf)
<1>7. SumsUp(s, buf) BY <1>6
<1>8. Total(buf) = s[n] BY DEF Total, SumsUp
<1> HIDE DEF s
<1>9. /\ s = [j \in 0..n |-> s[j]] /\ s[0] = 0 /\ 0 \in 0..n
      /\ \A j \in 1..n : s[j] = s[j - 1] + blocks[buf[j]].len
  <2>1. s = [j \in 0..n |-> IF j = 0 THEN 0 ELSE s[j - 1] + blocks[buf[j]].len] BY <1>7 DEF SumsUp
  <2>2. 0 \in 0..n BY <1>1
  <2>3. s[0] = 0 BY <2>1, <2>2
  <2>4. ASSUME NEW j \in 1..n PROVE s[j] = s[j - 1] + blocks[buf[j]].len
    <3>1. j \in 0..n /\ j # 0 OBVIOUS
    <3> QED BY <2>1, <3>1
  <2>5. s = [j \in 0..n |-> s[j]] BY <2>1
  <2> QED BY <2>2, <2>3, <2>4, <2>5
<1>10. \A j \in 0..n : s[j] \in Nat
  <2> DEFINE N == {j \in 0..n : s[j] \in Nat}
  <2>1. 0 \in N BY <1>9
  <2>2. ASSUME NEW j \in 1..n, j - 1 \in N PROVE j \in N
    <3>1. s[j - 1] \in Nat /\ j \in 0..n BY <2>2
    <3>2. blocks[buf[j]].len \in Nat /\ s[j] = s[j - 1] + blocks[buf[j]].len BY <1>1, <1>9
    <3>3. s[j] \in Nat BY <3>1, <3>2
    <3> QED BY <3>1, <3>3
  <2>3. N \in SUBSET (0..n) OBVIOUS
  <2> HIDE DEF N
  <2>4. N = 0..n BY <1>1, <2>1, <2>2, <2>3, UpToBy
  <2> QED BY <2>4 DEF N
<1>11. s \in [0..n -> Nat] BY <1>9, <1>10
<1> QED BY <1>7, <1>8, <1>11

\* Nothing has no length, and a block adds its own.
LEMMA TotalFacts ==
  ASSUME Shape
  PROVE  /\ Total(<<>>) = 0
         /\ \A buf \in Buffers, i \in Places :
              Total(buf) \in Nat /\ Total(Append(buf, i)) = Total(buf) + blocks[i].len
         /\ \A i \in Places : Total(<<i>>) = blocks[i].len
<1>1. Total(<<>>) = 0
  <2>1. <<>> \in Buffers /\ Len(<<>>) = 0 BY DEF Buffers
  <2>2. PICK f \in [0..0 -> Nat] : SumsUp(f, <<>>) /\ Total(<<>>) = f[0] BY <2>1, TotalSums
  <2>3. 0 \in 0..0 OBVIOUS
  <2> QED BY <2>1, <2>2, <2>3 DEF SumsUp
<1>2. ASSUME NEW buf \in Buffers, NEW i \in Places
      PROVE  Total(buf) \in Nat /\ Total(Append(buf, i)) = Total(buf) + blocks[i].len
  <2> DEFINE more == Append(buf, i)
             n == Len(buf)
  <2>1. /\ n \in Nat /\ more \in Buffers /\ Len(more) = n + 1 /\ more[n + 1] = i
        /\ \A j \in 1..n : more[j] = buf[j]
        BY DEF Buffers
  <2> HIDE DEF more
  <2>2. PICK f \in [0..n -> Nat] : SumsUp(f, buf) /\ Total(buf) = f[n] BY TotalSums
  <2>3. PICK g \in [0..(n + 1) -> Nat] : SumsUp(g, more) /\ Total(more) = g[n + 1]
        BY <2>1, TotalSums
  <2>4. \A j \in 0..n : f[j] = g[j]
    <3> DEFINE H == {j \in 0..n : f[j] = g[j]}
    <3>1. 0 \in H
      <4>1. 0 \in 0..n /\ 0 \in 0..(n + 1) BY <2>1
      <4> QED BY <2>1, <2>2, <2>3, <4>1 DEF SumsUp
    <3>2. ASSUME NEW j \in 1..n, j - 1 \in H PROVE j \in H
      <4>1. j \in 0..n /\ j \in 0..(n + 1) /\ j # 0 BY <2>1
      <4>2. f[j] = f[j - 1] + blocks[buf[j]].len BY <2>2, <4>1 DEF SumsUp
      <4>3. g[j] = g[j - 1] + blocks[more[j]].len BY <2>1, <2>3, <4>1 DEF SumsUp
      <4> QED BY <2>1, <3>2, <4>1, <4>2, <4>3
    <3>3. H \in SUBSET (0..n) OBVIOUS
    <3> HIDE DEF H
    <3>4. H = 0..n BY <2>1, <3>1, <3>2, <3>3, UpToBy
    <3> QED BY <3>4 DEF H
  <2>5. g[n + 1] = g[n] + blocks[i].len
    <3>1. n + 1 \in 0..(n + 1) /\ n + 1 # 0 /\ (n + 1) - 1 = n BY <2>1
    <3> QED BY <2>1, <2>3, <3>1 DEF SumsUp
  <2>6. n \in 0..n BY <2>1
  <2> QED BY <2>2, <2>3, <2>4, <2>5, <2>6 DEF more
<1>3. ASSUME NEW i \in Places PROVE Total(<<i>>) = blocks[i].len
  <2>1. <<>> \in Buffers /\ <<i>> = Append(<<>>, i) BY DEF Buffers
  <2>2. Total(Append(<<>>, i)) = Total(<<>>) + blocks[i].len BY <1>2, <2>1
  <2>3. blocks[i].len \in Nat BY BlockTypes
  <2> QED BY <1>1, <2>1, <2>2, <2>3
<1> QED BY <1>1, <1>2, <1>3

\* The length of a chunk, and of what is gathered, is that of its blocks.
Measured(cs) == cs \in Seq(Chunks) /\ \A c \in 1..Len(cs) : cs[c].size = Total(cs[c].of)
Closed == Measured(chunks) /\ size = Total(buffer)

\* Flushing blocks at their length.
LEMMA FlushMeasured ==
  ASSUME Shape, NEW cs, Measured(cs), NEW buf \in Buffers, NEW n \in Nat, n = Total(buf)
  PROVE  Measured(Flush(cs, buf, n))
<1>1. CASE HasText(buf)
  <2> DEFINE x == Chunk(buf, n)
  <2>1. x \in Chunks /\ x.of = buf /\ x.size = n BY <1>1, ChunkTypes DEF Chunk
  <2>2. Flush(cs, buf, n) = Append(cs, x) BY <1>1 DEF Flush
  <2> HIDE DEF x
  <2> DEFINE out == Append(cs, x)
  <2>3. cs \in Seq(Chunks) /\ \A c \in 1..Len(cs) : cs[c].size = Total(cs[c].of) BY DEF Measured
  <2>4. /\ out \in Seq(Chunks) /\ Len(out) = Len(cs) + 1 /\ Len(cs) \in Nat
        /\ \A c \in 1..Len(cs) : out[c] = cs[c]
        /\ out[Len(cs) + 1] = x
        BY <2>1, <2>3
  <2> HIDE DEF out
  <2>5. \A c \in 1..Len(out) : c \in 1..Len(cs) \/ c = Len(cs) + 1 BY <2>4
  <2>6. \A c \in 1..Len(out) : out[c].size = Total(out[c].of) BY <2>1, <2>3, <2>4, <2>5
  <2> QED BY <2>2, <2>4, <2>6 DEF Measured, out
<1>2. CASE ~HasText(buf) BY <1>2 DEF Flush
<1> QED BY <1>1, <1>2

\* A document that stays has the lengths it had.
LEMMA StayingLengths ==
  ASSUME UNCHANGED blocks
  PROVE  /\ Measured(chunks') => Measured(chunks)'
         /\ size' = Total(buffer') => (size = Total(buffer))'
BY ZenonT(60) DEF Measured, Chunks, Buffers, Places, Total

\* Every step of the packer.
LEMMA NextClosed == ASSUME Shape, Closed, Next PROVE Closed'
<1>0. Measured(chunks) /\ size = Total(buffer) /\ size \in Nat /\ buffer \in Buffers
      BY DEF Closed, Shape
<1>1. UNCHANGED blocks BY DEF Next, Pack, FlushLast
<1>2. SUFFICES Measured(chunks') /\ size' = Total(buffer') BY <1>1, StayingLengths DEF Closed
<1>3. Measured(Flush(chunks, buffer, size)) BY <1>0, FlushMeasured
<1>4. CASE Pack
  <2>1. next \in Places /\ Block = blocks[next] /\ Block.len \in Nat
        BY <1>4, BlockFacts DEF Pack, Block
  <2>2. <<next>> \in Buffers /\ Total(<<next>>) = Block.len BY <2>1, TotalFacts DEF Buffers
  <2>3. CASE OpenSection BY <1>3, <2>2, <2>3 DEF OpenSection, Hold
  <2>4. CASE EmitTable
    <3>1. Measured(Flush(Flush(chunks, buffer, size), <<next>>, Block.len))
          BY <1>3, <2>1, <2>2, FlushMeasured
    <3> QED BY <2>4, <3>1, TotalFacts DEF EmitTable, Hold
  <2>5. CASE Overflow
    <3>1. Measured(chunks') BY <1>3, <2>5 DEF Overflow
    <3>2. CASE Carry = <<>>
      <4>1. buffer' = <<next>> /\ size' = Block.len + 0 BY <2>5, <3>2 DEF Overflow, Hold
      <4> QED BY <2>1, <2>2, <3>1, <4>1
    <3>3. CASE Carry # <<>>
      <4> DEFINE last == buffer[Len(buffer)]
      <4>1. Carry = <<last>> /\ last \in Places BY <2>5, <3>3, CarryFacts DEF Overflow
      <4>2. buffer' = Append(<<last>>, next) /\ size' = Block.len + blocks[last].len
            BY <2>5, <3>3, <4>1 DEF Overflow, Hold
      <4> HIDE DEF last
      <4>3. <<last>> \in Buffers /\ blocks[last].len \in Nat BY <4>1, BlockTypes DEF Buffers
      <4>4. Total(<<last>>) = blocks[last].len BY <4>1, TotalFacts
      <4>5. Total(Append(<<last>>, next)) = Total(<<last>>) + Block.len
            BY <2>1, <4>3, TotalFacts
      <4> QED BY <2>1, <3>1, <4>2, <4>3, <4>4, <4>5
    <3> QED BY <3>2, <3>3
  <2>6. CASE Gather
    <3>1. Total(Append(buffer, next)) = Total(buffer) + Block.len BY <1>0, <2>1, TotalFacts
    <3> QED BY <1>0, <2>6, <3>1 DEF Gather, Hold
  <2> QED BY <1>4, <2>3, <2>4, <2>5, <2>6 DEF Pack
<1>5. CASE FlushLast BY <1>3, <1>5, TotalFacts DEF FlushLast, Hold
<1> QED BY <1>4, <1>5 DEF Next

\* Before the loop nothing is gathered.
LEMMA StartClosed == Shape /\ Start => Closed
<1> SUFFICES ASSUME Shape, Start PROVE Closed
    OBVIOUS
<1>1. chunks = <<>> /\ buffer = <<>> /\ size = 0 BY DEF Start
<1>2. chunks \in Seq(Chunks) BY <1>1
<1> QED BY <1>1, <1>2, TotalFacts DEF Closed, Measured

\* Every step, dividing or packing.
LEMMA ClosedInv == ChunkingInv /\ Closed /\ [ChunkingNext]_chunkingVars => Closed'
<1> SUFFICES ASSUME ChunkingInv, Closed, [ChunkingNext]_chunkingVars PROVE Closed'
    OBVIOUS
<1>1. Shape /\ Shape' BY ChunkingNextInv DEF ChunkingInv, IInv
<1>2. CASE Divide
  <2>1. at <= Len(source) /\ UNCHANGED packer
        BY <1>2 DEF Divide, KeepBlock, EndBlock, KeepParagraph, OpenParagraph, CutBefore, HardCut,
                    GatherSentence, EndParagraph, AtParagraph, Reading, Dividing, Cut
  <2>2. Start' BY <2>1 DEF ChunkingInv, DivInv, Start, packer
  <2> QED BY <1>1, <2>2, StartClosed, PTL
<1>3. CASE PackDivided BY <1>1, <1>3, NextClosed DEF PackDivided
<1>4. CASE UNCHANGED chunkingVars
  <2>1. UNCHANGED <<blocks, buffer, size, chunks>> BY <1>4 DEF chunkingVars, vars, packer
  <2>2. Measured(chunks') /\ size' = Total(buffer') BY <2>1 DEF Closed
  <2> QED BY <2>1, <2>2, StayingLengths DEF Closed
<1> QED BY <1>2, <1>3, <1>4 DEF ChunkingNext

\* The types: among them, that every chunk cites pages there are.
LEMMA InvTypes == ChunkingInv /\ Closed => TypeOK
<1> SUFFICES ASSUME IInv, DivInv, Closed PROVE TypeOK
    BY DEF ChunkingInv
<1>1. PackerTypeOK BY DEF IInv, Shape, Closed, Measured, PackerTypeOK
<1>2. current \in Pieces /\ pieces \in Seq(Pieces) BY DEF DivInv, PiecesFit, Fits
<1> QED BY <1>1, <1>2 DEF DivInv, Registers, TypeOK

\* The length of the buffer holds from the start.
LEMMA ClosedInvariance == ChunkingSpec => [](ChunkingInv /\ Closed)
<1>1. ChunkingInit => ChunkingInv /\ Closed
      BY ChunkingInitInv, StartClosed DEF ChunkingInit, ChunkingInv, IInv
<1>2. ChunkingInv /\ Closed /\ [ChunkingNext]_chunkingVars => (ChunkingInv /\ Closed)'
      BY ChunkingNextInv, ClosedInv
<1> QED BY <1>1, <1>2, PTL DEF ChunkingSpec

\* Both splitters are well typed, for every document.
THEOREM ChunkingTypes == ChunkingSpec => []TypeOK
<1> QED BY ClosedInvariance, InvTypes, PTL

(***************************************************************************)
(* The text.  What was divided, the pieces and what is gathered are laid   *)
(* side by side: a step adds the stretch from the place read up to before  *)
(* it to the place read up to after it, or slices of it, after all others. *)
(***************************************************************************)

\* What NoTextMoved says, of stretches laid up to a place.
Tidy(laid, here) ==
  \A g \in 1..Len(laid) : \A j \in 1..Len(laid[g]) :
    /\ ~Earlier(here, laid[g][j].to)
    /\ \A h \in 1..Len(laid) : \A k \in 1..Len(laid[h]) :
         (g < h \/ (g = h /\ j < k)) => ~Earlier(laid[h][k].from, laid[g][j].to)

\* Where a character is: in a stretch laid, and if that is still being
\* gathered, then in something that has text.
Covered(laid, n, place) ==
  \E g \in 1..Len(laid) : \E k \in 1..Len(laid[g]) :
    Within(place, laid[g][k]) /\ (g = Len(laid) => n > 0)

\* The characters of a document that are to be kept.
Character(i, p, s, c) ==
  /\ i \in 1..Len(source) /\ source[i].kind # "blank"
  /\ p \in 1..Len(source[i].text)
  /\ s \in 1..Len(source[i].text[p].sentences)
  /\ c \in 0..(source[i].text[p].sentences[s] - 1)
AllCovered ==
  \A i, p, s, c : Character(i, p, s, c) /\ Earlier(<<i, p, s, c>>, Here)
                    => Covered(Laid, current.len, <<i, p, s, c>>)

\* The loop of _divide: nothing is gathered between paragraphs, and nothing is
\* cut of a block that is not divided.
Resting ==
  /\ sen = 0 => current = NoPiece
  /\ Dividing /\ sen # 0 => par <= Len(Source.text)
  /\ ~Dividing => par = 1 /\ sen = 0 /\ pieces = <<>>

\* Pieces are of the block at hand, what was divided is of the ones before it.
OfBlock(stretches, i) == \A k \in 1..Len(stretches) : stretches[k].from[1] = i
OfBlocks ==
  /\ OfBlock(current.of, at)
  /\ \A i \in 1..Len(pieces) : OfBlock(pieces[i].of, at)
  /\ \A b \in 1..Len(origin) : \A k \in 1..Len(origin[b]) :
       LET i == origin[b][k].from[1]
       IN  i < at /\ blocks[b].page = source[i].page /\ blocks[b].kind = source[i].kind

TextInv == Resting /\ OfBlocks /\ AllCovered /\ Tidy(Laid, Here)

\* Places are ordered.
LEMMA PlaceOrder ==
  ASSUME NEW x \in Positions, NEW y \in Positions, NEW z \in Positions,
         ~Earlier(y, x), ~Earlier(z, y)
  PROVE  ~Earlier(z, x)
<1>1. \A p \in Positions : p[1] \in Nat /\ p[2] \in Nat /\ p[3] \in Nat /\ p[4] \in Nat
      BY DEF Positions
<1>2. /\ x[1] \in Nat /\ x[2] \in Nat /\ x[3] \in Nat /\ x[4] \in Nat
      /\ y[1] \in Nat /\ y[2] \in Nat /\ y[3] \in Nat /\ y[4] \in Nat
      /\ z[1] \in Nat /\ z[2] \in Nat /\ z[3] \in Nat /\ z[4] \in Nat
      BY <1>1
<1> QED BY <1>2 DEF Earlier

\* No place is before itself.
LEMMA NotBeforeItself == ASSUME NEW x \in Positions PROVE ~Earlier(x, x)
<1>1. x[1] \in Nat /\ x[2] \in Nat /\ x[3] \in Nat /\ x[4] \in Nat BY DEF Positions
<1> QED BY <1>1 DEF Earlier

\* One more element, or several.
LEMMA AppendFacts ==
  ASSUME NEW S, NEW s \in Seq(S), NEW e \in S
  PROVE  /\ Append(s, e) \in Seq(S) /\ Len(s) \in Nat /\ Len(Append(s, e)) = Len(s) + 1
         /\ Append(s, e)[Len(s) + 1] = e
         /\ \A i \in 1..Len(s) : Append(s, e)[i] = s[i]
OBVIOUS

LEMMA ConcatFacts ==
  ASSUME NEW S, NEW s \in Seq(S), NEW t \in Seq(S)
  PROVE  /\ s \o t \in Seq(S) /\ Len(s) \in Nat /\ Len(t) \in Nat /\ Len(s \o t) = Len(s) + Len(t)
         /\ \A i \in 1..Len(s) : (s \o t)[i] = s[i]
         /\ \A i \in 1..Len(t) : (s \o t)[Len(s) + i] = t[i]
OBVIOUS

\* What is laid, by where it comes from.
LaidTypes == Registers /\ current \in Pieces /\ pieces \in Seq(Pieces)
LaidParts ==
  /\ Laid \in Seq(Seq(Stretches))
  /\ Len(origin) \in Nat /\ Len(pieces) \in Nat
  /\ Len(Laid) = Len(origin) + Len(pieces) + 1
  /\ \A g \in 1..Len(origin) : Laid[g] = origin[g]
  /\ \A i \in 1..Len(pieces) : Laid[Len(origin) + i] = pieces[i].of
  /\ Laid[Len(origin) + Len(pieces) + 1] = current.of
LEMMA LaidFacts == LaidTypes => LaidParts
<1> SUFFICES ASSUME LaidTypes PROVE LaidParts
    OBVIOUS
<1> DEFINE S == Seq(Stretches)
           cut == [i \in 1..Len(pieces) |-> pieces[i].of]
           both == origin \o cut
<1>1. origin \in Seq(S) /\ pieces \in Seq(Pieces) BY DEF LaidTypes, Registers
<1>2. Len(origin) \in Nat /\ Len(pieces) \in Nat BY <1>1
<1>3. current.of \in S /\ \A i \in 1..Len(pieces) : pieces[i].of \in S
      BY <1>1, PieceTypes DEF LaidTypes
<1>4. cut \in Seq(S) /\ Len(cut) = Len(pieces) /\ \A i \in 1..Len(pieces) : cut[i] = pieces[i].of
      BY <1>2, <1>3
<1> HIDE DEF cut, S
<1>5. /\ both \in Seq(S) /\ Len(both) = Len(origin) + Len(pieces)
      /\ \A g \in 1..Len(origin) : both[g] = origin[g]
      /\ \A i \in 1..Len(pieces) : both[Len(origin) + i] = cut[i]
  <2>0. origin \in Seq(S) /\ cut \in Seq(S) BY <1>1, <1>4
  <2>1. /\ both \in Seq(S) /\ Len(both) = Len(origin) + Len(cut)
        /\ \A g \in 1..Len(origin) : both[g] = origin[g]
        /\ \A i \in 1..Len(cut) : both[Len(origin) + i] = cut[i]
        BY ONLY <2>0, ConcatFacts
  <2> HIDE DEF both
  <2> QED BY <1>4, <2>1
<1>6. Laid = Append(both, current.of) BY DEF Laid, cut
<1> HIDE DEF both
<1>7. /\ Laid \in Seq(S) /\ Len(Laid) = Len(origin) + Len(pieces) + 1
      /\ \A g \in 1..(Len(origin) + Len(pieces)) : Laid[g] = both[g]
      /\ Laid[Len(origin) + Len(pieces) + 1] = current.of
  <2>1. /\ Laid \in Seq(S) /\ Len(Laid) = Len(both) + 1 /\ Laid[Len(both) + 1] = current.of
        /\ \A g \in 1..Len(both) : Laid[g] = both[g]
        BY <1>3, <1>5, <1>6, AppendFacts
  <2> QED BY <1>5, <2>1
<1>8. /\ \A g \in 1..Len(origin) : g \in 1..(Len(origin) + Len(pieces))
      /\ \A i \in 1..Len(pieces) : Len(origin) + i \in 1..(Len(origin) + Len(pieces))
      BY <1>2
<1> QED BY <1>2, <1>4, <1>5, <1>7, <1>8 DEF LaidParts, S

\* Stretches laid before, and after them others in order: all are in order.
Old(laid, more, g, j) == g \in 1..Len(laid) /\ j \in 1..Len(laid[g]) /\ more[g][j] = laid[g][j]
Beyond(more, g, j, h, k) == h \in 1..Len(more) /\ k \in 1..Len(more[h]) /\ (g < h \/ (g = h /\ j < k))
LEMMA LayMore ==
  ASSUME NEW laid \in Seq(Seq(Stretches)), NEW more \in Seq(Seq(Stretches)),
         NEW x \in Positions, NEW y \in Positions, ~Earlier(y, x), Tidy(laid, x),
         \A g \in 1..Len(more) : \A j \in 1..Len(more[g]) :
           \/ Old(laid, more, g, j)
           \/ /\ ~Earlier(more[g][j].from, x) /\ ~Earlier(y, more[g][j].to)
              /\ \A h, k : Beyond(more, g, j, h, k) => ~Earlier(more[h][k].from, more[g][j].to)
  PROVE  Tidy(more, y)
<1>0. /\ \A g \in 1..Len(laid) : \A j \in 1..Len(laid[g]) : laid[g][j] \in Stretches
      /\ \A g \in 1..Len(more) : \A j \in 1..Len(more[g]) : more[g][j] \in Stretches
      BY SMTT(40)
<1>1. \A f \in Stretches : f.from \in Positions /\ f.to \in Positions BY DEF Stretches
<1> SUFFICES ASSUME NEW g \in 1..Len(more), NEW j \in 1..Len(more[g])
             PROVE  /\ ~Earlier(y, more[g][j].to)
                    /\ \A h \in 1..Len(more) : \A k \in 1..Len(more[h]) :
                         (g < h \/ (g = h /\ j < k)) => ~Earlier(more[h][k].from, more[g][j].to)
    BY DEF Tidy
<1>2. CASE Old(laid, more, g, j)
  <2>1. g \in 1..Len(laid) /\ j \in 1..Len(laid[g]) /\ more[g][j] = laid[g][j] BY <1>2 DEF Old
  <2>2. ~Earlier(x, laid[g][j].to) /\ laid[g][j].to \in Positions BY <1>0, <1>1, <2>1 DEF Tidy
  <2>3. ~Earlier(y, more[g][j].to) BY <2>1, <2>2, PlaceOrder
  <2>4. ASSUME NEW h \in 1..Len(more), NEW k \in 1..Len(more[h]), g < h \/ (g = h /\ j < k)
        PROVE  ~Earlier(more[h][k].from, more[g][j].to)
    <3>1. CASE Old(laid, more, h, k)
      <4>1. h \in 1..Len(laid) /\ k \in 1..Len(laid[h]) /\ more[h][k] = laid[h][k] BY <3>1 DEF Old
      <4> QED BY <2>1, <2>4, <4>1 DEF Tidy
    <3>2. CASE ~Old(laid, more, h, k)
      <4>1. ~Earlier(more[h][k].from, x) BY <3>2
      <4>2. more[h][k].from \in Positions BY <1>0, <1>1
      <4> QED BY <2>1, <2>2, <4>1, <4>2, PlaceOrder
    <3> QED BY <3>1, <3>2
  <2> QED BY <2>3, <2>4
<1>3. CASE ~Old(laid, more, g, j) BY <1>3 DEF Beyond
<1> QED BY <1>2, <1>3

\* One stretch, from the place before to the place after, at the very end.
LEMMA LayOne ==
  ASSUME NEW laid \in Seq(Seq(Stretches)), NEW more \in Seq(Seq(Stretches)),
         NEW x \in Positions, NEW y \in Positions, ~Earlier(y, x), Tidy(laid, x),
         \A g \in 1..Len(more) : \A j \in 1..Len(more[g]) :
           \/ Old(laid, more, g, j)
           \/ more[g][j] = Stretch(x, y) /\ \A h, k : ~Beyond(more, g, j, h, k)
  PROVE  Tidy(more, y)
<1>1. ~Earlier(x, x) /\ ~Earlier(y, y) BY NotBeforeItself
<1>2. Stretch(x, y).from = x /\ Stretch(x, y).to = y BY DEF Stretch
<1>3. \A g \in 1..Len(more) : \A j \in 1..Len(more[g]) :
        \/ Old(laid, more, g, j)
        \/ /\ ~Earlier(more[g][j].from, x) /\ ~Earlier(y, more[g][j].to)
           /\ \A h, k : Beyond(more, g, j, h, k) => ~Earlier(more[h][k].from, more[g][j].to)
      BY <1>1, <1>2
<1> QED BY <1>3, LayMore

\* A character stays covered where what was laid stays.
LEMMA StaysCovered ==
  ASSUME NEW laid \in Seq(Seq(Stretches)), NEW more \in Seq(Seq(Stretches)),
         NEW n \in Nat, NEW m \in Nat, NEW place, Covered(laid, n, place),
         Len(laid) <= Len(more), \A g \in 1..(Len(laid) - 1) : more[g] = laid[g],
         n > 0 => /\ \A k \in 1..Len(laid[Len(laid)]) : Old(more, laid, Len(laid), k)
                  /\ Len(laid) < Len(more) \/ m > 0
  PROVE  Covered(more, m, place)
<1>0. PICK g \in 1..Len(laid) :
        \E k \in 1..Len(laid[g]) : Within(place, laid[g][k]) /\ (g = Len(laid) => n > 0)
      BY DEF Covered
<1>1. PICK k \in 1..Len(laid[g]) : Within(place, laid[g][k]) /\ (g = Len(laid) => n > 0)
      BY <1>0
<1>2. Len(laid) \in Nat /\ Len(more) \in Nat OBVIOUS
<1>3. CASE g < Len(laid)
  <2>1. g \in 1..(Len(laid) - 1) /\ g \in 1..Len(more) /\ g # Len(more) BY <1>2, <1>3
  <2> QED BY <1>1, <2>1 DEF Covered
<1>4. CASE g = Len(laid)
  <2>1. n > 0 /\ Old(more, laid, g, k) BY <1>1, <1>4
  <2>2. g \in 1..Len(more) /\ k \in 1..Len(more[g]) /\ more[g][k] = laid[g][k] BY <2>1 DEF Old
  <2>3. g = Len(more) => m > 0 BY <1>2, <1>4, <2>1
  <2> QED BY <1>1, <2>2, <2>3 DEF Covered
<1> QED BY <1>2, <1>3, <1>4

\* What was laid is as tidy up to a later place.
LEMMA LaterTidy ==
  ASSUME NEW laid \in Seq(Seq(Stretches)), NEW x \in Positions, NEW y \in Positions,
         ~Earlier(y, x), Tidy(laid, x)
  PROVE  Tidy(laid, y)
<1>1. \A g \in 1..Len(laid) : \A j \in 1..Len(laid[g]) : Old(laid, laid, g, j) BY DEF Old
<1> QED BY <1>1, LayOne

\* A block or a paragraph, laid while nothing is gathered.
LEMMA AddGroup ==
  ASSUME NEW laid \in Seq(Seq(Stretches)), NEW more \in Seq(Seq(Stretches)),
         NEW x \in Positions, NEW y \in Positions, ~Earlier(y, x), Tidy(laid, x),
         NEW last \in Nat \ {0}, Len(laid) = last, laid[last] = <<>>,
         Len(more) = last + 1, \A g \in 1..(last - 1) : more[g] = laid[g],
         more[last] = <<Stretch(x, y)>>, more[last + 1] = <<>>
  PROVE  /\ Tidy(more, y)
         /\ \A place : Covered(laid, 0, place) => Covered(more, 0, place)
         /\ \A place : ~Earlier(place, x) /\ Earlier(place, y) => Covered(more, 0, place)
<1>0. Len(more[last]) = 1 /\ more[last][1] = Stretch(x, y) /\ Len(more[last + 1]) = 0 OBVIOUS
<1>1. ASSUME NEW g \in 1..Len(more), NEW j \in 1..Len(more[g])
      PROVE  \/ Old(laid, more, g, j)
             \/ more[g][j] = Stretch(x, y) /\ \A h, k : ~Beyond(more, g, j, h, k)
  <2>1. CASE g \in 1..(last - 1) BY SMTT(40), <2>1 DEF Old
  <2>2. CASE g = last
    <3>0. Len(more[g]) = 1 /\ more[g][1] = Stretch(x, y) BY <1>0, <2>2
    <3>1. more[g][j] = Stretch(x, y) /\ j = 1
      <4>1. j \in 1..1 BY <3>0
      <4> QED BY <3>0, <4>1
    <3>2. ASSUME NEW h, NEW k, Beyond(more, g, j, h, k) PROVE FALSE
      <4>1. h \in 1..(last + 1) /\ k \in 1..Len(more[h]) /\ (g < h \/ (g = h /\ j < k)) BY <3>2 DEF Beyond
      <4>2. CASE h = last
        <5>1. h = g /\ ~(g < h) BY <2>2, <4>2
        <5>2. k \in 1..1 /\ j < k BY <3>0, <4>1, <5>1
        <5> QED BY <3>1, <5>2
      <4>3. CASE h = last + 1 BY <1>0, <4>1, <4>3
      <4> QED BY <2>2, <4>1, <4>2, <4>3
    <3> QED BY <3>1, <3>2
  <2>3. CASE g = last + 1 BY <2>3
  <2> QED BY <2>1, <2>2, <2>3
<1>2. Tidy(more, y) BY <1>1, LayOne
<1>3. ASSUME NEW place, Covered(laid, 0, place) PROVE Covered(more, 0, place)
  <2>1. Len(laid) <= Len(more) /\ ~(0 > 0) /\ 0 \in Nat OBVIOUS
  <2> QED BY <1>3, <2>1, StaysCovered
<1>4. ASSUME NEW place, ~Earlier(place, x), Earlier(place, y) PROVE Covered(more, 0, place)
  <2>1. Within(place, Stretch(x, y)) BY <1>4 DEF Within, Stretch
  <2>2. last \in 1..Len(more) /\ last # Len(more) /\ 1 \in 1..Len(more[last])
        /\ more[last][1] = Stretch(x, y)
        OBVIOUS
  <2> QED BY <2>1, <2>2 DEF Covered
<1> QED BY <1>2, <1>3, <1>4

\* A sentence, gathered with the ones before it or apart from them.
LEMMA AddStretch ==
  ASSUME NEW laid \in Seq(Seq(Stretches)), NEW more \in Seq(Seq(Stretches)),
         NEW x \in Positions, NEW y \in Positions, ~Earlier(y, x), Tidy(laid, x),
         NEW last \in Nat \ {0}, Len(laid) = last, \A g \in 1..(last - 1) : more[g] = laid[g],
         NEW n \in Nat, NEW m \in Nat,
         \/ Len(more) = last /\ more[last] = Append(laid[last], Stretch(x, y)) /\ (n > 0 => m > 0)
         \/ Len(more) = last + 1 /\ more[last] = laid[last] /\ more[last + 1] = <<Stretch(x, y)>>
  PROVE  /\ Tidy(more, y)
         /\ \A place : Covered(laid, n, place) => Covered(more, m, place)
         /\ m > 0 => \A place : ~Earlier(place, x) /\ Earlier(place, y) => Covered(more, m, place)
<1> DEFINE S == Stretch(x, y)
           end == Len(more)
<1>0. S \in Stretches BY StretchTypes
<1>1. laid[last] \in Seq(Stretches) OBVIOUS
<1>2. /\ Len(laid[last]) \in Nat
      /\ Append(laid[last], S) \in Seq(Stretches)
      /\ Len(Append(laid[last], S)) = Len(laid[last]) + 1
      /\ Append(laid[last], S)[Len(laid[last]) + 1] = S
      /\ \A i \in 1..Len(laid[last]) : Append(laid[last], S)[i] = laid[last][i]
      BY <1>0, <1>1, AppendFacts
<1> HIDE DEF S
<1>3. /\ end \in Nat /\ last <= end /\ \A g \in 1..end : g \in 1..(last - 1) \/ g = last \/ g = end
      /\ Len(more[end]) \in Nat \ {0} /\ more[end][Len(more[end])] = S
      /\ \A j \in 1..Len(laid[last]) : Old(laid, more, last, j) /\ Old(more, laid, last, j)
      /\ \A j \in 1..Len(more[last]) : j \in 1..Len(laid[last]) \/ (end = last /\ j = Len(more[last]))
  <2>1. CASE end = last /\ more[last] = Append(laid[last], S)
    <3>1. /\ Len(more[last]) = Len(laid[last]) + 1 /\ more[last][Len(laid[last]) + 1] = S
          /\ \A i \in 1..Len(laid[last]) : more[last][i] = laid[last][i]
          BY <1>2, <2>1
    <3>2. \A j \in 1..Len(laid[last]) : j \in 1..Len(more[last]) BY <1>2, <3>1
    <3>3. last \in 1..Len(laid) /\ last \in 1..Len(more) BY <2>1
    <3>4. \A j \in 1..Len(more[last]) : j \in 1..Len(laid[last]) \/ j = Len(more[last]) BY <1>2, <3>1
    <3> QED BY <1>2, <2>1, <3>1, <3>2, <3>3, <3>4 DEF Old
  <2>2. CASE end = last + 1 /\ more[last] = laid[last] /\ more[end] = <<S>>
    <3>1. last \in 1..Len(laid) /\ last \in 1..Len(more) BY <2>2
    <3>2. Len(more[end]) = 1 /\ more[end][1] = S BY <2>2
    <3> QED BY <2>2, <3>1, <3>2 DEF Old
  <2> QED BY <2>1, <2>2 DEF S
<1>4. ASSUME NEW g \in 1..Len(more), NEW j \in 1..Len(more[g])
      PROVE  \/ Old(laid, more, g, j)
             \/ more[g][j] = Stretch(x, y) /\ \A h, k : ~Beyond(more, g, j, h, k)
  <2>1. CASE g \in 1..(last - 1)
    <3>1. more[g] = laid[g] /\ g \in 1..Len(laid) BY <2>1
    <3> QED BY <3>1 DEF Old
  <2>2. CASE g = last /\ j \in 1..Len(laid[last]) BY <1>3, <2>2
  <2>3. CASE g = end /\ j = Len(more[end])
    <3>1. more[g][j] = Stretch(x, y) BY <1>3, <2>3 DEF S
    <3>2. ASSUME NEW h, NEW k, Beyond(more, g, j, h, k) PROVE FALSE
      <4>1. h \in 1..end /\ k \in 1..Len(more[h]) /\ (g < h \/ (g = h /\ j < k)) BY <3>2 DEF Beyond
      <4> QED BY <1>3, <2>3, <4>1
    <3> QED BY <3>1, <3>2
  <2>4. CASE g = end /\ end # last
    <3>1. more[end] = <<S>> BY <2>4 DEF S
    <3>2. j = Len(more[end]) BY <2>4, <3>1
    <3> QED BY <2>3, <2>4, <3>2
  <2> QED BY <1>3, <2>1, <2>2, <2>3, <2>4
<1>5. Tidy(more, y) BY <1>4, LayOne
<1>6. ASSUME NEW place, Covered(laid, n, place) PROVE Covered(more, m, place)
  <2>1. n > 0 => (Len(laid) < Len(more) \/ m > 0) OBVIOUS
  <2> QED BY <1>3, <1>6, <2>1, StaysCovered
<1>7. ASSUME m > 0, NEW place, ~Earlier(place, x), Earlier(place, y) PROVE Covered(more, m, place)
  <2>1. Within(place, S) BY <1>7 DEF Within, Stretch, S
  <2>2. end \in 1..Len(more) /\ Len(more[end]) \in 1..Len(more[end]) BY <1>3
  <2> QED BY <1>3, <1>7, <2>1, <2>2 DEF Covered
<1> QED BY <1>5, <1>6, <1>7

\* Nothing new, and nothing gathered any more.
LEMMA CloseGroup ==
  ASSUME NEW laid \in Seq(Seq(Stretches)), NEW more \in Seq(Seq(Stretches)),
         NEW x \in Positions, NEW y \in Positions, ~Earlier(y, x), Tidy(laid, x),
         NEW last \in Nat \ {0}, Len(laid) = last, \A g \in 1..(last - 1) : more[g] = laid[g],
         NEW n \in Nat,
         \/ Len(more) = last /\ more[last] = <<>> /\ n = 0
         \/ Len(more) = last + 1 /\ more[last] = laid[last] /\ more[last + 1] = <<>>
  PROVE  /\ Tidy(more, y)
         /\ \A place : Covered(laid, n, place) => Covered(more, 0, place)
<1>1. ASSUME NEW g \in 1..Len(more), NEW j \in 1..Len(more[g]) PROVE Old(laid, more, g, j)
  <2>1. CASE g \in 1..(last - 1) BY SMTT(40), <2>1 DEF Old
  <2>2. CASE g \notin 1..(last - 1)
    <3>1. Len(more) = last + 1 /\ more[last] = laid[last] /\ g = last BY <2>2
    <3> QED BY <3>1 DEF Old
  <2> QED BY <2>1, <2>2
<1>2. Tidy(more, y) BY <1>1, LayOne
<1>3. ASSUME NEW place, Covered(laid, n, place) PROVE Covered(more, 0, place)
  <2>1. n > 0 => \A k \in 1..Len(laid[Len(laid)]) : Old(more, laid, Len(laid), k)
    <3>1. n > 0 => more[Len(laid)] = laid[Len(laid)] /\ Len(laid) \in 1..Len(more) OBVIOUS
    <3> QED BY <3>1 DEF Old
  <2>2. n > 0 => Len(laid) < Len(more) OBVIOUS
  <2>3. Len(laid) <= Len(more) OBVIOUS
  <2> QED BY <1>3, <2>1, <2>2, <2>3, StaysCovered
<1> QED BY <1>2, <1>3

\* The slices of a sentence: each starts where the one before it ended.
From(i) == (i - 1) * Target
To(n, i) == IF From(i) + Target < n THEN From(i) + Target ELSE n
LEMMA SlicePlaces ==
  ASSUME NEW n \in Nat, n > Target, NEW m \in Nat, n <= m * Target,
         \A i \in 1..m : (i - 1) * Target \in Nat /\ (i - 1) * Target < n
  PROVE  /\ \A i \in 1..m : From(i) \in Nat /\ To(n, i) \in Nat /\ To(n, i) <= n
         /\ \A i, j \in 1..m : i < j => To(n, i) <= From(j)
         /\ \A c \in 0..(n - 1) : \E i \in 1..m : From(i) <= c /\ c < To(n, i)
<1>1. Target \in Nat \ {0} BY PackerAssumption, ChunkingAssumption
<1>2. ASSUME NEW i \in 1..m PROVE From(i) \in Nat /\ To(n, i) \in Nat /\ To(n, i) <= n
      BY <1>1 DEF From, To
<1>3. ASSUME NEW i \in 1..m, NEW j \in 1..m, i < j PROVE To(n, i) <= From(j)
  <2> DEFINE d == j - 1 - i
             a == (i - 1) * Target
  <2>1. d \in Nat /\ j - 1 = (i - 1) + 1 + d /\ i - 1 \in Nat /\ a \in Nat BY <1>3
  <2> HIDE DEF d
  <2>2. ((i - 1) + 1 + d) * Target = (i - 1) * Target + Target + d * Target /\ d * Target \in Nat
        BY <1>1, <2>1
  <2>3. (j - 1) * Target = a + Target + d * Target BY <2>1, <2>2
  <2>4. To(n, i) <= a + Target BY <1>1, <2>1 DEF To, From
  <2> HIDE DEF a
  <2>5. From(j) = a + Target + d * Target /\ To(n, i) \in Nat BY <1>2, <2>3 DEF From
  <2> QED BY <1>1, <2>1, <2>2, <2>4, <2>5
<1>4. ASSUME NEW c \in 0..(n - 1) PROVE \E i \in 1..m : From(i) <= c /\ c < To(n, i)
  <2> DEFINE d == c \div Target
             a == d * Target
  <2>1. c \in Nat /\ c < n OBVIOUS
  <2>2. d \in Nat /\ c = a + (c % Target) /\ c % Target \in 0..(Target - 1)
        BY ONLY <1>1, <2>1
  <2> HIDE DEF d
  <2>3. a \in Nat BY <1>1, <2>2
  <2>4. d < m
    <3> SUFFICES ASSUME ~(d < m) PROVE FALSE
        OBVIOUS
    <3> DEFINE e == d - m
               b == m * Target
    <3>1. e \in Nat /\ d = m + e BY <2>2
    <3> HIDE DEF e
    <3>2. a = b + e * Target /\ e * Target \in Nat /\ b \in Nat
      <4>1. (m + e) * Target = m * Target + e * Target /\ e * Target \in Nat /\ m * Target \in Nat
            BY <1>1, <3>1
      <4> QED BY <3>1, <4>1
    <3>3. n <= b OBVIOUS
    <3> HIDE DEF a, b
    <3> QED BY <2>1, <2>2, <2>3, <3>2, <3>3
  <2>5. d + 1 \in 1..m /\ From(d + 1) = a BY <2>2, <2>4 DEF From
  <2> HIDE DEF a
  <2>6. a <= c /\ c < a + Target BY <1>1, <2>1, <2>2, <2>3
  <2> QED BY <2>1, <2>5, <2>6 DEF To
<1> QED BY <1>2, <1>3, <1>4

\* Places in a sentence.
LEMMA SentencePlaces ==
  ASSUME NEW i \in Nat, NEW p \in Nat, NEW s \in Nat, NEW c \in Nat, NEW d \in Nat
  PROVE  /\ c <= d => ~Earlier(<<i, p, s, d>>, <<i, p, s, c>>)
         /\ ~Earlier(<<i, p, s + 1, 0>>, <<i, p, s, c>>)
BY DEF Earlier

\* A sentence, cut in slices, each a group of its own.
Cuts(n, m, from, to) ==
  /\ from \in [1..m -> Nat] /\ to \in [1..m -> Nat]
  /\ \A i \in 1..m : to[i] <= n
  /\ \A i, j \in 1..m : i < j => to[i] <= from[j]
  /\ \A c \in 0..(n - 1) : \E i \in 1..m : from[i] <= c /\ c < to[i]
LaysCuts(laid, more, last, m, from, to) ==
  /\ Len(laid) = last /\ \A g \in 1..(last - 1) : more[g] = laid[g]
  /\ Len(more) = last + m /\ more[last + m] = <<>>
  /\ \A i \in 1..m :
       more[last - 1 + i] = <<Stretch(<<at, par, sen, from[i]>>, <<at, par, sen, to[i]>>)>>
LEMMA AddSlices ==
  ASSUME Registers, NEW n \in Nat,
         NEW laid \in Seq(Seq(Stretches)), NEW more \in Seq(Seq(Stretches)),
         NEW x \in Positions, x = <<at, par, sen, 0>>, Tidy(laid, x),
         NEW y \in Positions, y = <<at, par, sen + 1, 0>>,
         NEW last \in Nat \ {0}, NEW m \in Nat, NEW from, NEW to,
         Cuts(n, m, from, to), LaysCuts(laid, more, last, m, from, to)
  PROVE  /\ Tidy(more, y)
         /\ \A place : Covered(laid, 0, place) => Covered(more, 0, place)
         /\ \A c \in 0..(n - 1) : Covered(more, 0, <<at, par, sen, c>>)
<1>1. /\ from \in [1..m -> Nat] /\ to \in [1..m -> Nat]
      /\ \A i \in 1..m : to[i] <= n
      /\ \A i, j \in 1..m : i < j => to[i] <= from[j]
      /\ \A c \in 0..(n - 1) : \E i \in 1..m : from[i] <= c /\ c < to[i]
      BY DEF Cuts
<1>3. /\ Len(laid) = last /\ \A g \in 1..(last - 1) : more[g] = laid[g]
      /\ Len(more) = last + m /\ more[last + m] = <<>>
      /\ \A i \in 1..m :
           more[last - 1 + i] = <<Stretch(<<at, par, sen, from[i]>>, <<at, par, sen, to[i]>>)>>
      BY DEF LaysCuts
<1>2. at \in Nat /\ par \in Nat /\ sen \in Nat BY DEF Registers
<1>8. \A i \in 1..m :
        /\ Len(more[last - 1 + i]) = 1
        /\ more[last - 1 + i][1].from = <<at, par, sen, from[i]>>
        /\ more[last - 1 + i][1].to = <<at, par, sen, to[i]>>
  <2> SUFFICES ASSUME NEW i \in 1..m
               PROVE  /\ Len(more[last - 1 + i]) = 1
                      /\ more[last - 1 + i][1].from = <<at, par, sen, from[i]>>
                      /\ more[last - 1 + i][1].to = <<at, par, sen, to[i]>>
      OBVIOUS
  <2> DEFINE one == Stretch(<<at, par, sen, from[i]>>, <<at, par, sen, to[i]>>)
  <2>1. one.from = <<at, par, sen, from[i]>> /\ one.to = <<at, par, sen, to[i]>> BY DEF Stretch
  <2>2. more[last - 1 + i] = <<one>> BY <1>3
  <2> HIDE DEF one
  <2>3. Len(<<one>>) = 1 /\ <<one>>[1] = one BY ONLY TRUE
  <2> QED BY ONLY <2>1, <2>2, <2>3
<1>9. ASSUME NEW g \in 1..Len(more), NEW j \in 1..Len(more[g]), g \notin 1..(last - 1)
      PROVE  j = 1 /\ \E i \in 1..m : g = last - 1 + i
  <2>1. g # last + m
    <3>1. Len(more[last + m]) = 0 BY <1>3
    <3>2. ASSUME g = last + m PROVE FALSE
      <4>1. j \in 1..0 BY ONLY <3>1, <3>2, j \in 1..Len(more[g])
      <4> QED BY ONLY <4>1
    <3> QED BY <3>2
  <2>2. g - last + 1 \in 1..m /\ g = last - 1 + (g - last + 1) BY <1>3, <1>9, <2>1
  <2>3. PICK i \in 1..m : g = last - 1 + i BY <2>2
  <2>4. j \in 1..1 BY <1>8, <2>3
  <2> QED BY <2>3, <2>4
<1>10. ASSUME NEW g \in 1..Len(more), NEW j \in 1..Len(more[g])
       PROVE  \/ Old(laid, more, g, j)
              \/ /\ ~Earlier(more[g][j].from, x) /\ ~Earlier(y, more[g][j].to)
                 /\ \A h, k : Beyond(more, g, j, h, k) => ~Earlier(more[h][k].from, more[g][j].to)
  <2>1. CASE g \in 1..(last - 1)
    <3>1. more[g] = laid[g] /\ g \in 1..Len(laid) BY <1>3, <2>1
    <3> QED BY <3>1 DEF Old
  <2>2. CASE g \notin 1..(last - 1)
    <3>1. j = 1 BY <1>9, <2>2
    <3>2. PICK i \in 1..m : g = last - 1 + i BY <1>9, <2>2
    <3>3. more[g][j].from = <<at, par, sen, from[i]>> /\ more[g][j].to = <<at, par, sen, to[i]>>
          BY <1>8, <3>1, <3>2
    <3>4. from[i] \in Nat /\ to[i] \in Nat BY <1>1
    <3>5. ~Earlier(more[g][j].from, x) /\ ~Earlier(y, more[g][j].to)
      <4>1. 0 <= from[i] /\ 0 \in Nat BY ONLY <3>4
      <4>2. ~Earlier(<<at, par, sen, from[i]>>, <<at, par, sen, 0>>)
            BY ONLY <1>2, <3>4, <4>1, SentencePlaces
      <4>3. ~Earlier(<<at, par, sen + 1, 0>>, <<at, par, sen, to[i]>>)
            BY ONLY <1>2, <3>4, SentencePlaces
      <4> QED BY <3>3, <4>2, <4>3
    <3>6. ASSUME NEW h, NEW k, Beyond(more, g, j, h, k) PROVE ~Earlier(more[h][k].from, more[g][j].to)
      <4>1. h \in 1..Len(more) /\ k \in 1..Len(more[h]) /\ (g < h \/ (g = h /\ j < k))
            BY <3>6 DEF Beyond
      <4>2. h \notin 1..(last - 1) BY <2>2, <4>1
      <4>3. k = 1 BY <1>9, <4>1, <4>2
      <4>4. PICK l \in 1..m : h = last - 1 + l BY <1>9, <4>1, <4>2
      <4>5. more[h][k].from = <<at, par, sen, from[l]>> /\ from[l] \in Nat BY <1>1, <1>8, <4>3, <4>4
      <4>6. i < l BY <3>1, <3>2, <4>1, <4>3, <4>4
      <4>7. to[i] <= from[l] BY <1>1, <4>6
      <4>8. ~Earlier(<<at, par, sen, from[l]>>, <<at, par, sen, to[i]>>)
            BY ONLY <1>2, <3>4, <4>5, <4>7, SentencePlaces
      <4> QED BY ONLY <3>3, <4>5, <4>8
    <3> QED BY <3>5, <3>6
  <2> QED BY <2>1, <2>2
<1>11. ~Earlier(y, x) BY <1>2 DEF Earlier
<1>12. Tidy(more, y) BY <1>10, <1>11, LayMore
<1>13. ASSUME NEW place, Covered(laid, 0, place) PROVE Covered(more, 0, place)
  <2>1. Len(laid) <= Len(more) /\ ~(0 > 0) /\ 0 \in Nat BY <1>3
  <2> QED BY <1>3, <1>13, <2>1, StaysCovered
<1>14. ASSUME NEW c \in 0..(n - 1) PROVE Covered(more, 0, <<at, par, sen, c>>)
  <2>1. PICK i \in 1..m : from[i] <= c /\ c < to[i] BY <1>1
  <2>2. more[last - 1 + i][1].from = <<at, par, sen, from[i]>>
        /\ more[last - 1 + i][1].to = <<at, par, sen, to[i]>> /\ Len(more[last - 1 + i]) = 1
        BY <1>8
  <2>3. c \in Nat /\ from[i] \in Nat /\ to[i] \in Nat BY <1>1
  <2>4. Within(<<at, par, sen, c>>, more[last - 1 + i][1])
        BY SMTT(40), <1>2, <2>1, <2>2, <2>3 DEF Within, Earlier
  <2>5. last - 1 + i \in 1..Len(more) /\ last - 1 + i # Len(more)
    <3>1. Len(more) = last + m BY <1>3
    <3> QED BY ONLY <3>1
  <2>6. 1 \in 1..Len(more[last - 1 + i]) BY ONLY <2>2
  <2> QED BY <2>4, <2>5, <2>6 DEF Covered
<1> QED BY <1>12, <1>13, <1>14

LEMMA ChunkingLaid == ChunkingInv => LaidTypes /\ LaidParts
BY LaidFacts DEF ChunkingInv, DivInv, PiecesFit, Fits, LaidTypes

\* Pieces cut: what is laid now, by what was laid and what was cut.
LEMMA CutLaid ==
  ASSUME LaidTypes, LaidParts, LaidParts', UNCHANGED origin,
         NEW qs \in Seq(Pieces), pieces' = pieces \o qs
  PROVE  /\ Laid \in Seq(Seq(Stretches)) /\ Laid' \in Seq(Seq(Stretches))
         /\ Len(Laid) \in Nat \ {0} /\ Laid[Len(Laid)] = current.of
         /\ Len(Laid') = Len(Laid) + Len(qs)
         /\ \A g \in 1..(Len(Laid) - 1) : Laid'[g] = Laid[g]
         /\ \A i \in 1..Len(qs) : Laid'[Len(Laid) - 1 + i] = qs[i].of
         /\ Laid'[Len(Laid) + Len(qs)] = current'.of
<1> DEFINE a == Len(origin)
           b == Len(pieces)
<1>1. /\ pieces' \in Seq(Pieces) /\ b \in Nat /\ Len(qs) \in Nat /\ Len(pieces') = b + Len(qs)
      /\ \A i \in 1..b : pieces'[i] = pieces[i]
      /\ \A i \in 1..Len(qs) : pieces'[b + i] = qs[i]
      BY ConcatFacts DEF LaidTypes
<1>2. /\ Laid \in Seq(Seq(Stretches)) /\ a \in Nat /\ Len(Laid) = a + b + 1
      /\ \A g \in 1..a : Laid[g] = origin[g]
      /\ \A i \in 1..b : Laid[a + i] = pieces[i].of
      /\ Laid[a + b + 1] = current.of
      BY DEF LaidParts
<1>3. /\ Laid' \in Seq(Seq(Stretches)) /\ Len(Laid') = a + Len(pieces') + 1
      /\ \A g \in 1..a : Laid'[g] = origin[g]
      /\ \A i \in 1..Len(pieces') : Laid'[a + i] = pieces'[i].of
      /\ Laid'[a + Len(pieces') + 1] = current'.of
      BY DEF LaidParts, Stretches, Positions
<1> HIDE DEF a, b
<1>4. Len(Laid') = Len(Laid) + Len(qs) /\ Len(Laid) \in Nat \ {0} BY <1>1, <1>2, <1>3
<1>5. ASSUME NEW g \in 1..(Len(Laid) - 1) PROVE Laid'[g] = Laid[g]
  <2>1. CASE g \in 1..a BY <1>2, <1>3, <2>1
  <2>2. CASE g \notin 1..a
    <3>1. g - a \in 1..b /\ g - a \in 1..Len(pieces') /\ g = a + (g - a) BY <1>1, <1>2, <2>2
    <3>2. Laid[g] = pieces[g - a].of BY <1>2, <3>1
    <3>3. Laid'[g] = pieces'[g - a].of BY <1>3, <3>1
    <3> QED BY <1>1, <3>1, <3>2, <3>3
  <2> QED BY <2>1, <2>2
<1>6. ASSUME NEW i \in 1..Len(qs) PROVE Laid'[Len(Laid) - 1 + i] = qs[i].of
  <2>1. b + i \in 1..Len(pieces') /\ Len(Laid) - 1 + i = a + (b + i) BY <1>1, <1>2
  <2>2. Laid'[a + (b + i)] = pieces'[b + i].of BY <1>3, <2>1
  <2> QED BY <1>1, <2>1, <2>2
<1>7. Laid'[Len(Laid) + Len(qs)] = current'.of
  <2>1. Len(Laid) + Len(qs) = a + Len(pieces') + 1 BY <1>1, <1>2
  <2> QED BY <1>3, <2>1
<1> QED BY <1>2, <1>3, <1>4, <1>5, <1>6, <1>7

\* No piece more, or one.
LEMMA OnePiece ==
  ASSUME NEW s \in Seq(Pieces), NEW e \in Pieces
  PROVE  /\ s = s \o <<>> /\ <<>> \in Seq(Pieces) /\ Len(<<>>) = 0
         /\ Append(s, e) = s \o <<e>> /\ <<e>> \in Seq(Pieces) /\ Len(<<e>>) = 1 /\ <<e>>[1] = e
OBVIOUS

\* The place of a character.
LEMMA CharacterFacts ==
  ASSUME Registers, NEW i, NEW p, NEW s, NEW c, Character(i, p, s, c)
  PROVE  /\ i \in Nat \ {0} /\ p \in Nat \ {0} /\ s \in Nat \ {0} /\ c \in Nat
         /\ Len(source[i].text[p].sentences) \in Nat
         /\ source[i].text[p].len \in Nat /\ source[i].text[p].sentences[s] \in Nat
         /\ c < source[i].text[p].sentences[s]
         /\ source[i].text[p].sentences[s] <= source[i].text[p].len
<1>1. /\ i \in 1..Len(source) /\ p \in 1..Len(source[i].text)
      /\ s \in 1..Len(source[i].text[p].sentences)
      /\ c \in 0..(source[i].text[p].sentences[s] - 1)
      BY DEF Character
<1>2. source[i] \in SourceBlocks /\ i \in Nat \ {0} BY <1>1 DEF Registers
<1>3. source[i].text \in Seq(Paragraphs) BY <1>2 DEF SourceBlocks
<1>4. source[i].text[p] \in Paragraphs /\ p \in Nat \ {0} BY <1>1, <1>3
<1>5. /\ source[i].text[p].len \in Nat /\ source[i].text[p].sentences \in Seq(Nat)
      /\ \A q \in DOMAIN source[i].text[p].sentences :
           source[i].text[p].sentences[q] <= source[i].text[p].len
      BY <1>4 DEF Paragraphs
<1> DEFINE sentences == source[i].text[p].sentences
           n == source[i].text[p].len
<1>6. /\ n \in Nat /\ sentences \in Seq(Nat) /\ s \in 1..Len(sentences) /\ c \in 0..(sentences[s] - 1)
      /\ \A q \in DOMAIN sentences : sentences[q] <= n
      BY <1>1, <1>5
<1> HIDE DEF sentences, n
<1>7. /\ s \in Nat \ {0} /\ c \in Nat /\ Len(sentences) \in Nat /\ sentences[s] \in Nat
      /\ c < sentences[s] /\ sentences[s] <= n
      BY <1>6
<1> QED BY <1>2, <1>4, <1>6, <1>7 DEF sentences, n

\* Before and after a step.
LEMMA HereFacts ==
  ASSUME Registers, Registers',
         \/ at' = at /\ par' = par /\ sen' = sen + 1
         \/ at' = at /\ par' = par + 1
         \/ at' = at + 1
  PROVE  /\ Here \in Positions /\ Here' \in Positions /\ ~Earlier(Here', Here)
         /\ at \in Nat /\ par \in Nat /\ sen \in Nat
<1>1. /\ at \in Nat /\ par \in Nat /\ sen \in Nat /\ at' \in Nat /\ par' \in Nat /\ sen' \in Nat
      BY DEF Registers
<1>2. Here \in Positions /\ Here' \in Positions BY <1>1 DEF Here, Positions
<1>3. ~Earlier(<<at', par', sen', 0>>, <<at, par, sen, 0>>) BY <1>1 DEF Earlier
<1> QED BY <1>1, <1>2, <1>3 DEF Here

\* A step keeps what it must of the text.
LEMMA StepCovers ==
  ASSUME AllCovered, UNCHANGED source, Tidy(Laid', Here'),
         \A place : Covered(Laid, current.len, place) => Covered(Laid', current'.len, place),
         \A i, p, s, c :
           Character(i, p, s, c) /\ ~Earlier(<<i, p, s, c>>, Here) /\ Earlier(<<i, p, s, c>>, Here')
             => Covered(Laid', current'.len, <<i, p, s, c>>)
  PROVE  AllCovered' /\ Tidy(Laid, Here)'
<1>1. ASSUME NEW i, NEW p, NEW s, NEW c, Character(i, p, s, c)', Earlier(<<i, p, s, c>>, Here')
      PROVE  Covered(Laid', current'.len, <<i, p, s, c>>)
  <2>1. Character(i, p, s, c) BY <1>1 DEF Character
  <2>2. CASE Earlier(<<i, p, s, c>>, Here) BY <2>1, <2>2 DEF AllCovered
  <2>3. CASE ~Earlier(<<i, p, s, c>>, Here) BY SMTT(40), <1>1, <2>1, <2>3
  <2> QED BY <2>2, <2>3
<1>2. AllCovered' BY SMTT(40), <1>1 DEF AllCovered, Covered, Earlier, Within
<1>3. Tidy(Laid, Here)' BY DEF Tidy, Earlier
<1> QED BY <1>2, <1>3

\* Cutting within a block.
LEMMA CutRests ==
  ASSUME Dividing, UNCHANGED <<source, at, respect>>,
         \/ sen' = 0 /\ current' = NoPiece
         \/ sen' # 0 /\ par' <= Len(Source.text)
  PROVE  Resting'
<1>1. Dividing' BY DEF Dividing, Undivided, Source
<1>2. Source' = Source BY DEF Source
<1>3. NoPiece' = NoPiece BY DEF NoPiece, Piece
<1> QED BY <1>1, <1>2, <1>3 DEF Resting

LEMMA CutOfBlock ==
  ASSUME OfBlocks, UNCHANGED <<source, at, origin, blocks>>,
         pieces \in Seq(Pieces), NEW qs \in Seq(Pieces), pieces' = pieces \o qs,
         \A i \in 1..Len(qs) : OfBlock(qs[i].of, at), OfBlock(current'.of, at)
  PROVE  OfBlocks'
<1>1. /\ Len(pieces) \in Nat /\ Len(qs) \in Nat /\ Len(pieces') = Len(pieces) + Len(qs)
      /\ \A i \in 1..Len(pieces) : pieces'[i] = pieces[i]
      /\ \A i \in 1..Len(qs) : pieces'[Len(pieces) + i] = qs[i]
      BY ConcatFacts
<1>2. ASSUME NEW i \in 1..Len(pieces') PROVE OfBlock(pieces'[i].of, at)
  <2>1. CASE i \in 1..Len(pieces) BY <1>1, <2>1 DEF OfBlocks
  <2>2. CASE i \notin 1..Len(pieces)
    <3>1. i - Len(pieces) \in 1..Len(qs) /\ i = Len(pieces) + (i - Len(pieces)) BY <1>1, <2>2
    <3> QED BY <1>1, <3>1
  <2> QED BY <2>1, <2>2
<1> QED BY <1>2 DEF OfBlocks, OfBlock

\* One stretch of the block at hand.
LEMMA StretchOfBlock ==
  ASSUME NEW x, NEW y, x[1] = at
  PROVE  OfBlock(<<Stretch(x, y)>>, at)
BY DEF OfBlock, Stretch

LEMMA StepTypes ==
  ASSUME ChunkingInv, ChunkingInv'
  PROVE  /\ LaidTypes /\ LaidParts /\ LaidParts' /\ Registers /\ Registers'
         /\ pieces \in Seq(Pieces) /\ current \in Pieces
         /\ current.len \in Nat /\ current.of \in Seq(Stretches)
         /\ current'.len \in Nat
<1>1. LaidTypes /\ LaidParts BY ChunkingLaid
<1>2. LaidTypes' /\ LaidParts' BY ChunkingLaid, PTL
<1>3. current'.len \in Nat
  <2>1. current' \in Pieces BY <1>2 DEF LaidTypes, Pieces, Stretches, Positions
  <2> QED BY <2>1, PieceTypes
<1> QED BY <1>1, <1>2, <1>3, PieceTypes DEF LaidTypes

NothingCut == NoPiece.len = 0 /\ NoPiece.of = <<>>
LEMMA NothingIsCut == NothingCut
BY DEF NothingCut, NoPiece, Piece

\* What was gathered becomes a piece if it has text, and nothing is gathered.
LEMMA CloseText ==
  ASSUME ChunkingInv, ChunkingInv', TextInv, Resting',
         UNCHANGED <<source, at, origin, blocks>>, current' = NoPiece,
         NEW qs \in Seq(Pieces), pieces' = pieces \o qs,
         (Len(qs) = 0 /\ current.len = 0) \/ (Len(qs) = 1 /\ qs[1] = current),
         (par' = par /\ sen' = sen + 1) \/ par' = par + 1,
         \A i, p, s, c :
           Character(i, p, s, c) /\ ~Earlier(<<i, p, s, c>>, Here) => ~Earlier(<<i, p, s, c>>, Here')
  PROVE  TextInv'
<1> DEFINE last == Len(Laid)
<1>1. /\ LaidTypes /\ LaidParts /\ LaidParts' /\ Registers /\ Registers'
      /\ pieces \in Seq(Pieces) /\ current.len \in Nat
      BY StepTypes
<1>2. /\ UNCHANGED origin /\ at' = at /\ current'.len = 0 /\ current'.of = <<>>
      /\ OfBlocks /\ AllCovered /\ Tidy(Laid, Here)
      BY NothingIsCut DEF NothingCut, TextInv
<1>3. Here \in Positions /\ Here' \in Positions /\ ~Earlier(Here', Here)
      BY <1>1, <1>2, HereFacts
<1>4. OfBlocks'
  <2>1. \A i \in 1..Len(qs) : OfBlock(qs[i].of, at) BY <1>2 DEF OfBlocks
  <2>2. OfBlock(current'.of, at) BY <1>2 DEF OfBlock
  <2> QED BY <1>1, <1>2, <2>1, <2>2, CutOfBlock
<1>5. /\ Laid \in Seq(Seq(Stretches)) /\ Laid' \in Seq(Seq(Stretches))
      /\ last \in Nat \ {0} /\ Laid[last] = current.of /\ Len(Laid') = last + Len(qs)
      /\ \A g \in 1..(last - 1) : Laid'[g] = Laid[g]
      /\ \A i \in 1..Len(qs) : Laid'[last - 1 + i] = qs[i].of
      /\ Laid'[last + Len(qs)] = current'.of
      BY <1>1, <1>2, CutLaid
<1>6. \/ Len(Laid') = last /\ Laid'[last] = <<>> /\ current.len = 0
      \/ Len(Laid') = last + 1 /\ Laid'[last] = Laid[last] /\ Laid'[last + 1] = <<>>
  <2> HIDE DEF last
  <2>1. last - 1 + 1 = last /\ last + 0 = last BY SMTT(40), <1>5
  <2>2. CASE Len(qs) = 0 /\ current.len = 0 BY <1>2, <1>5, <2>1, <2>2
  <2>3. CASE Len(qs) = 1 /\ qs[1] = current
    <3>1. 1 \in 1..Len(qs) BY <2>3
    <3> QED BY <1>2, <1>5, <2>1, <2>3, <3>1
  <2> QED BY <2>2, <2>3
<1>7. /\ Tidy(Laid', Here')
      /\ \A place : Covered(Laid, current.len, place) => Covered(Laid', 0, place)
      BY ZenonT(60), <1>1, <1>2, <1>3, <1>5, <1>6, CloseGroup
<1>8. AllCovered' /\ Tidy(Laid, Here)' BY <1>2, <1>7, StepCovers
<1> QED BY <1>4, <1>8 DEF TextInv

\* A paragraph that fits.
LEMMA KeepParagraphText == ASSUME ChunkingInv, ChunkingInv', TextInv, KeepParagraph PROVE TextInv'
<1> DEFINE whole == Piece(Paragraph.len, <<WholeParagraph>>)
           last == Len(Laid)
<1>1. /\ LaidTypes /\ LaidParts /\ LaidParts' /\ Registers /\ Registers'
      /\ pieces \in Seq(Pieces) /\ current.len \in Nat
      BY StepTypes
<1>2. /\ Dividing /\ at <= Len(source) /\ par <= Len(Source.text) /\ sen = 0
      /\ par' = par + 1 /\ sen' = 0 /\ current' = current
      /\ UNCHANGED <<source, at, origin, respect, blocks>>
      /\ pieces' = IF Paragraph.len = 0 THEN pieces ELSE Append(pieces, whole)
      BY DEF KeepParagraph, AtParagraph, Dividing, NextParagraph, Cut
<1>3. current = NoPiece /\ current.len = 0 /\ current.of = <<>>
      BY <1>2, NothingIsCut DEF TextInv, Resting, NothingCut
<1>4. Here \in Positions /\ Here' \in Positions /\ ~Earlier(Here', Here)
      BY <1>1, <1>2, HereFacts
<1>5. Here = <<at, par, 0, 0>> /\ Here' = <<at, par + 1, 0, 0>> BY <1>2 DEF Here
<1>6. WholeParagraph = Stretch(Here, Here') BY <1>5 DEF WholeParagraph
<1>7. Paragraph.len \in Nat BY <1>1, <1>2, ParagraphFacts
<1>8. whole \in Pieces /\ whole.of = <<Stretch(Here, Here')>>
      BY <1>1, <1>6, <1>7, WholeTypes, PieceFacts
<1>9. Resting' BY <1>2, <1>3, CutRests
<1>10. Tidy(Laid, Here) BY DEF TextInv
<1>11. OfBlock(current'.of, at) BY <1>2 DEF TextInv, OfBlocks
<1>12. UNCHANGED origin /\ OfBlocks /\ UNCHANGED <<source, at, origin, blocks>> BY <1>2 DEF TextInv
<1>13. CASE Paragraph.len # 0
  <2>1. pieces' = pieces \o <<whole>> /\ <<whole>> \in Seq(Pieces) /\ Len(<<whole>>) = 1 /\ <<whole>>[1] = whole
        BY <1>1, <1>2, <1>8, <1>13, OnePiece
  <2> DEFINE qs == <<whole>>
  <2>2. qs \in Seq(Pieces) /\ pieces' = pieces \o qs /\ Len(qs) = 1 /\ qs[1].of = <<Stretch(Here, Here')>>
        BY <1>8, <2>1
  <2> HIDE DEF qs, whole
  <2>3. OfBlock(qs[1].of, at) BY <1>5, <2>2, StretchOfBlock
  <2>4. OfBlocks'
    <3>1. \A i \in 1..Len(qs) : OfBlock(qs[i].of, at) BY <2>2, <2>3
    <3> QED BY <1>1, <1>11, <1>12, <2>2, <3>1, CutOfBlock
  <2>5. /\ Laid \in Seq(Seq(Stretches)) /\ Laid' \in Seq(Seq(Stretches))
        /\ last \in Nat \ {0} /\ Laid[last] = <<>> /\ Len(Laid') = last + 1
        /\ \A g \in 1..(last - 1) : Laid'[g] = Laid[g]
        /\ Laid'[last] = <<Stretch(Here, Here')>> /\ Laid'[last + 1] = <<>>
    <3>1. /\ Laid \in Seq(Seq(Stretches)) /\ Laid' \in Seq(Seq(Stretches))
          /\ last \in Nat \ {0} /\ Laid[last] = current.of /\ Len(Laid') = last + Len(qs)
          /\ \A g \in 1..(last - 1) : Laid'[g] = Laid[g]
          /\ \A i \in 1..Len(qs) : Laid'[last - 1 + i] = qs[i].of
          /\ Laid'[last + Len(qs)] = current'.of
          BY <1>1, <1>12, <2>2, CutLaid
    <3> HIDE DEF last
    <3>2. 1 \in 1..Len(qs) /\ last - 1 + 1 = last BY <2>2, <3>1
    <3>3. Laid'[last] = qs[1].of BY <3>1, <3>2
    <3> QED BY <1>2, <1>3, <2>2, <3>1, <3>3
  <2>6. /\ Tidy(Laid', Here')
        /\ \A place : Covered(Laid, 0, place) => Covered(Laid', 0, place)
        /\ \A place : ~Earlier(place, Here) /\ Earlier(place, Here') => Covered(Laid', 0, place)
        BY <1>4, <1>10, <2>5, AddGroup
  <2>7. AllCovered' /\ Tidy(Laid, Here)' BY <1>2, <1>3, <2>6, StepCovers DEF TextInv
  <2> QED BY <1>9, <2>4, <2>7 DEF TextInv
<1>14. CASE Paragraph.len = 0
  <2>1. <<>> \in Seq(Pieces) /\ pieces' = pieces \o <<>> /\ Len(<<>>) = 0
    <3>1. pieces' = pieces BY <1>2, <1>14
    <3>2. \A s \in Seq(Pieces) : s = s \o <<>> OBVIOUS
    <3> QED BY <1>1, <3>1, <3>2
  <2>2. ASSUME NEW i, NEW p, NEW s, NEW c, Character(i, p, s, c),
               ~Earlier(<<i, p, s, c>>, Here), Earlier(<<i, p, s, c>>, Here')
        PROVE  FALSE
    <3>1. /\ i \in Nat \ {0} /\ p \in Nat \ {0} /\ s \in Nat \ {0} /\ c \in Nat
          /\ c < source[i].text[p].sentences[s] /\ source[i].text[p].sentences[s] \in Nat
          /\ source[i].text[p].sentences[s] <= source[i].text[p].len
          /\ source[i].text[p].len \in Nat
          BY <1>1, <2>2, CharacterFacts
    <3>2. at \in Nat /\ par \in Nat BY <1>1 DEF Registers
    <3>3. i = at /\ p = par BY <1>5, <2>2, <3>1, <3>2 DEF Earlier
    <3>4. source[i].text[p].len = 0 BY <1>14, <3>3 DEF Paragraph, Source
    <3> QED BY <3>1, <3>4
  <2>3. UNCHANGED <<source, at, origin, blocks>> /\ current' = NoPiece BY <1>2, <1>3
  <2> QED BY <1>2, <1>3, <1>9, <2>1, <2>2, <2>3, CloseText
<1> QED BY <1>13, <1>14

\* A paragraph that does not: nothing is cut yet.
LEMMA OpenParagraphText == ASSUME ChunkingInv, ChunkingInv', TextInv, OpenParagraph PROVE TextInv'
<1>1. Registers /\ pieces \in Seq(Pieces) BY StepTypes
<1>2. /\ Dividing /\ par <= Len(Source.text) /\ sen = 0
      /\ par' = par /\ sen' = sen + 1 /\ sen' = 1 /\ current' = current /\ pieces' = pieces
      /\ UNCHANGED <<source, at, origin, respect, blocks>>
      BY DEF OpenParagraph, AtParagraph, NextSentence, Cut
<1>3. current = NoPiece /\ current.len = 0
      BY <1>2, NothingIsCut DEF TextInv, Resting, NothingCut
<1>4. Here = <<at, par, 0, 0>> /\ Here' = <<at, par, 1, 0>> BY <1>2 DEF Here
<1>5. Resting' BY <1>2, CutRests
<1>6. <<>> \in Seq(Pieces) /\ pieces' = pieces \o <<>> /\ Len(<<>>) = 0
  <2>1. \A s \in Seq(Pieces) : s = s \o <<>> OBVIOUS
  <2> QED BY <1>1, <1>2, <2>1
<1>7. ASSUME NEW i, NEW p, NEW s, NEW c, Character(i, p, s, c),
             ~Earlier(<<i, p, s, c>>, Here), Earlier(<<i, p, s, c>>, Here')
      PROVE  FALSE
  <2>1. i \in Nat \ {0} /\ p \in Nat \ {0} /\ s \in Nat \ {0} /\ c \in Nat
        BY <1>1, <1>7, CharacterFacts
  <2>2. at \in Nat /\ par \in Nat BY <1>1 DEF Registers
  <2> QED BY <1>4, <1>7, <2>1, <2>2 DEF Earlier
<1>8. UNCHANGED <<source, at, origin, blocks>> /\ current' = NoPiece BY <1>2, <1>3
<1> QED BY <1>2, <1>3, <1>5, <1>6, <1>7, <1>8, CloseText

\* The end of a paragraph: what was gathered is its last piece.
LEMMA EndParagraphText == ASSUME ChunkingInv, ChunkingInv', TextInv, EndParagraph PROVE TextInv'
<1> DEFINE qs == IF current.len > 0 THEN <<current>> ELSE <<>>
<1>1. Registers /\ pieces \in Seq(Pieces) /\ current \in Pieces /\ current.len \in Nat BY StepTypes
<1>2. /\ Dividing /\ par <= Len(Source.text) /\ sen = Len(Paragraph.sentences) + 1
      /\ par' = par + 1 /\ sen' = 0 /\ current' = NoPiece
      /\ pieces' = IF current.len > 0 THEN Append(pieces, current) ELSE pieces
      /\ UNCHANGED <<source, at, origin, respect, blocks>>
      BY DEF EndParagraph, NextParagraph, Cut
<1>3. Here = <<at, par, Len(Paragraph.sentences) + 1, 0>> /\ Here' = <<at, par + 1, 0, 0>>
      BY <1>2 DEF Here
<1>4. Resting' BY <1>2, CutRests
<1>5. /\ qs \in Seq(Pieces) /\ pieces' = pieces \o qs
      /\ (Len(qs) = 0 /\ current.len = 0) \/ (Len(qs) = 1 /\ qs[1] = current)
  <2>1. CASE current.len > 0 BY <1>1, <1>2, <2>1, OnePiece
  <2>2. CASE ~(current.len > 0)
    <3>1. current.len = 0 /\ qs = <<>> /\ pieces' = pieces BY <1>1, <1>2, <2>2
    <3>2. \A s \in Seq(Pieces) : s = s \o <<>> /\ <<>> \in Seq(Pieces) OBVIOUS
    <3> QED BY <1>1, <3>1, <3>2
  <2> QED BY <2>1, <2>2
<1> HIDE DEF qs
<1>6. ASSUME NEW i, NEW p, NEW s, NEW c, Character(i, p, s, c),
             ~Earlier(<<i, p, s, c>>, Here), Earlier(<<i, p, s, c>>, Here')
      PROVE  FALSE
  <2>1. /\ i \in Nat \ {0} /\ p \in Nat \ {0} /\ s \in Nat \ {0} /\ c \in Nat
        /\ Len(source[i].text[p].sentences) \in Nat
        BY <1>1, <1>6, CharacterFacts
  <2>5. s \in 1..Len(source[i].text[p].sentences) BY <1>6 DEF Character
  <2>2. at \in Nat /\ par \in Nat BY <1>1 DEF Registers
  <2>3. i = at /\ p = par /\ ~(s < Len(Paragraph.sentences) + 1)
    <3> DEFINE m == Len(Paragraph.sentences) + 1
    <3>1. sen \in Nat /\ sen = m BY <1>1, <1>2 DEF Registers
    <3> HIDE DEF m
    <3>2. m \in Nat BY <3>1
    <3>3. ~Earlier(<<i, p, s, c>>, <<at, par, m, 0>>) /\ Earlier(<<i, p, s, c>>, <<at, par + 1, 0, 0>>)
          BY <1>3, <1>6 DEF m
    <3>4. i = at /\ p = par /\ ~(s < m) BY <2>1, <2>2, <3>2, <3>3 DEF Earlier
    <3> QED BY <3>4 DEF m
  <2>4. source[i].text[p] = Paragraph BY <2>3 DEF Paragraph, Source
  <2> QED BY <2>1, <2>3, <2>4, <2>5
<1>7. UNCHANGED <<source, at, origin, blocks>> BY <1>2
<1> QED BY <1>2, <1>4, <1>5, <1>6, <1>7, CloseText

\* The characters of the sentence at hand are all that a turn reads.
LEMMA SentenceCharacters ==
  ASSUME Registers, at' = at, par' = par, sen' = sen + 1,
         NEW i, NEW p, NEW s, NEW c, Character(i, p, s, c),
         ~Earlier(<<i, p, s, c>>, Here), Earlier(<<i, p, s, c>>, Here')
  PROVE  i = at /\ p = par /\ s = sen /\ c \in 0..(Sentence - 1) /\ Sentence \in Nat /\ Sentence > 0
<1>1. /\ i \in Nat \ {0} /\ p \in Nat \ {0} /\ s \in Nat \ {0} /\ c \in Nat
      /\ source[i].text[p].sentences[s] \in Nat /\ c < source[i].text[p].sentences[s]
      BY CharacterFacts
<1>2. at \in Nat /\ par \in Nat /\ sen \in Nat BY DEF Registers
<1>3. Here = <<at, par, sen, 0>> /\ Here' = <<at, par, sen + 1, 0>> BY DEF Here
<1>4. i = at /\ p = par /\ s = sen BY <1>1, <1>2, <1>3 DEF Earlier
<1>5. source[i].text[p].sentences[s] = Sentence BY <1>4 DEF Sentence, Paragraph, Source
<1> QED BY <1>1, <1>4, <1>5

\* A sentence gathered, with what was gathered or after it is cut.
LEMMA StretchText ==
  ASSUME ChunkingInv, ChunkingInv', TextInv, Reading,
         UNCHANGED <<source, at, origin, respect, blocks>>, par' = par, sen' = sen + 1,
         NEW qs \in Seq(Pieces), pieces' = pieces \o qs,
         \/ /\ Len(qs) = 0
            /\ current' = Piece(Joined(current.len, Sentence), Append(current.of, WholeSentence))
         \/ /\ Len(qs) = 1 /\ qs[1] = current
            /\ current' = Piece(Sentence, <<WholeSentence>>)
  PROVE  TextInv'
<1> DEFINE last == Len(Laid)
<1>1. /\ LaidTypes /\ LaidParts /\ LaidParts' /\ Registers /\ Registers'
      /\ pieces \in Seq(Pieces) /\ current.len \in Nat /\ current.of \in Seq(Stretches)
      /\ current'.len \in Nat
      BY StepTypes
<1>2. Dividing /\ par <= Len(Source.text) /\ sen \in Nat /\ sen \in 1..Len(Paragraph.sentences)
      BY <1>1 DEF Reading, Registers
<1>3. OfBlocks /\ AllCovered /\ Tidy(Laid, Here) BY DEF TextInv
<1>4. Here \in Positions /\ Here' \in Positions /\ ~Earlier(Here', Here)
      BY <1>1, HereFacts
<1>5. Resting'
  <2>1. sen' # 0 /\ par' <= Len(Source.text) BY <1>2
  <2> QED BY <1>2, <2>1, CutRests
<1>6. WholeSentence = Stretch(Here, Here') /\ WholeSentence.from[1] = at
      BY DEF WholeSentence, Here, Stretch
<1>7. Sentence \in Nat
  <2>1. at <= Len(source) BY <1>2 DEF Dividing
  <2> QED BY <1>1, <1>2, <2>1, ParagraphFacts
<1>8. \/ /\ Len(qs) = 0 /\ current'.of = Append(current.of, WholeSentence)
         /\ current'.len = Joined(current.len, Sentence)
      \/ /\ Len(qs) = 1 /\ qs[1] = current /\ current'.of = <<WholeSentence>> /\ current'.len = Sentence
      BY DEF Piece
<1>9. OfBlocks'
  <2>1. \A i \in 1..Len(qs) : OfBlock(qs[i].of, at) BY <1>3, <1>8 DEF OfBlocks
  <2>2. OfBlock(current'.of, at)
    <3>1. CASE current'.of = <<WholeSentence>> BY <1>6, <3>1 DEF OfBlock
    <3>2. CASE current'.of = Append(current.of, WholeSentence)
      <4>1. WholeSentence \in Stretches BY <1>1, WholeTypes
      <4>2. /\ Len(current.of) \in Nat /\ Len(current'.of) = Len(current.of) + 1
            /\ current'.of[Len(current.of) + 1] = WholeSentence
            /\ \A k \in 1..Len(current.of) : current'.of[k] = current.of[k]
            BY <1>1, <3>2, <4>1, AppendFacts
      <4>3. \A k \in 1..Len(current.of) : current.of[k].from[1] = at BY <1>3 DEF OfBlocks, OfBlock
      <4>4. ASSUME NEW k \in 1..Len(current'.of) PROVE current'.of[k].from[1] = at
        <5>1. k \in 1..Len(current.of) \/ k = Len(current.of) + 1 BY <4>2
        <5>2. CASE k \in 1..Len(current.of)
          <6>1. current'.of[k] = current.of[k] /\ current.of[k].from[1] = at BY <4>2, <4>3, <5>2
          <6> QED BY <6>1
        <5>3. CASE k = Len(current.of) + 1
          <6>1. current'.of[k] = WholeSentence BY <4>2, <5>3
          <6> QED BY <1>6, <6>1
        <5> QED BY <5>1, <5>2, <5>3
      <4> QED BY <4>4 DEF OfBlock
    <3> QED BY <1>8, <3>1, <3>2
  <2> QED BY <1>1, <1>3, <2>1, <2>2, CutOfBlock
<1>10. /\ Laid \in Seq(Seq(Stretches)) /\ Laid' \in Seq(Seq(Stretches))
       /\ last \in Nat \ {0} /\ Laid[last] = current.of /\ Len(Laid') = last + Len(qs)
       /\ \A g \in 1..(last - 1) : Laid'[g] = Laid[g]
       /\ \A i \in 1..Len(qs) : Laid'[last - 1 + i] = qs[i].of
       /\ Laid'[last + Len(qs)] = current'.of
       BY <1>1, CutLaid
<1>11. /\ (current.len > 0 \/ Sentence > 0) /\ Len(qs) = 0 => current'.len > 0
       /\ Sentence > 0 => current'.len > 0
       BY <1>1, <1>7, <1>8 DEF Joined
<1>12. \/ /\ Len(Laid') = last /\ Laid'[last] = Append(Laid[last], Stretch(Here, Here'))
          /\ current.len > 0 => current'.len > 0
       \/ /\ Len(Laid') = last + 1 /\ Laid'[last] = Laid[last]
          /\ Laid'[last + 1] = <<Stretch(Here, Here')>>
  <2> HIDE DEF last
  <2>1. last - 1 + 1 = last /\ last + 0 = last BY <1>10
  <2>2. CASE Len(qs) = 0 BY SMTT(40), <1>6, <1>8, <1>10, <1>11, <2>1, <2>2
  <2>3. CASE Len(qs) = 1
    <3>1. 1 \in 1..Len(qs) BY <2>3
    <3>2. Laid'[last] = qs[1].of BY <1>10, <2>1, <3>1
    <3>3. qs[1] = current /\ current'.of = <<WholeSentence>> BY <1>8, <2>3
    <3>4. Laid'[last + 1] = current'.of /\ Len(Laid') = last + 1 BY <1>10, <2>3
    <3> QED BY <1>6, <1>10, <3>2, <3>3, <3>4
  <2> QED BY <1>8, <2>2, <2>3
<1>13. /\ Tidy(Laid', Here')
       /\ \A place : Covered(Laid, current.len, place) => Covered(Laid', current'.len, place)
       /\ current'.len > 0 => \A place : ~Earlier(place, Here) /\ Earlier(place, Here')
                                         => Covered(Laid', current'.len, place)
  <2> HIDE DEF last
  <2> DEFINE n == current.len
             m == current'.len
             x == Here
             y == Here'
             more == Laid'
  <2>1. /\ n \in Nat /\ m \in Nat /\ x \in Positions /\ y \in Positions /\ ~Earlier(y, x)
        /\ more \in Seq(Seq(Stretches)) /\ Laid \in Seq(Seq(Stretches)) /\ Tidy(Laid, x)
        /\ last \in Nat \ {0} /\ Len(Laid) = last /\ \A g \in 1..(last - 1) : more[g] = Laid[g]
        BY <1>1, <1>3, <1>4, <1>10 DEF last
  <2>2. \/ Len(more) = last /\ more[last] = Append(Laid[last], Stretch(x, y)) /\ (n > 0 => m > 0)
        \/ Len(more) = last + 1 /\ more[last] = Laid[last] /\ more[last + 1] = <<Stretch(x, y)>>
        BY <1>12
  <2> HIDE DEF n, m, x, y, more
  <2>3. /\ Tidy(more, y)
        /\ \A place : Covered(Laid, n, place) => Covered(more, m, place)
        /\ m > 0 => \A place : ~Earlier(place, x) /\ Earlier(place, y) => Covered(more, m, place)
        BY ONLY ZenonT(60), <2>1, <2>2, AddStretch
  <2> QED BY <2>3 DEF n, m, x, y, more
<1>14. ASSUME NEW i, NEW p, NEW s, NEW c, Character(i, p, s, c),
              ~Earlier(<<i, p, s, c>>, Here), Earlier(<<i, p, s, c>>, Here')
       PROVE  Covered(Laid', current'.len, <<i, p, s, c>>)
  <2>1. Sentence > 0 BY <1>1, <1>14, SentenceCharacters
  <2> QED BY <1>11, <1>13, <1>14, <2>1
<1>15. AllCovered' /\ Tidy(Laid, Here)' BY <1>3, <1>13, <1>14, StepCovers
<1> QED BY <1>5, <1>9, <1>15 DEF TextInv

LEMMA GatherText == ASSUME ChunkingInv, ChunkingInv', TextInv, CutBefore \/ GatherSentence PROVE TextInv'
<1>1. pieces \in Seq(Pieces) /\ current \in Pieces BY StepTypes
<1>2. /\ Reading /\ par' = par /\ sen' = sen + 1
      /\ UNCHANGED <<source, at, origin, respect, blocks>>
      BY DEF CutBefore, GatherSentence, NextSentence, Cut
<1>3. CASE CutBefore
  <2>1. pieces' = Append(pieces, current) /\ current' = Piece(Sentence, <<WholeSentence>>)
        BY <1>3 DEF CutBefore, Cut
  <2>2. pieces' = pieces \o <<current>> /\ <<current>> \in Seq(Pieces) /\ Len(<<current>>) = 1
        /\ <<current>>[1] = current
        BY <1>1, <2>1, OnePiece
  <2> QED BY <1>2, <2>1, <2>2, StretchText
<1>4. CASE GatherSentence
  <2>1. pieces' = pieces
        /\ current' = Piece(Joined(current.len, Sentence), Append(current.of, WholeSentence))
        BY <1>4 DEF GatherSentence, Gathered, Cut
  <2>2. <<>> \in Seq(Pieces) /\ pieces' = pieces \o <<>> /\ Len(<<>>) = 0
    <3>1. \A s \in Seq(Pieces) : s = s \o <<>> OBVIOUS
    <3> QED BY <1>1, <2>1, <3>1
  <2> QED BY <1>2, <2>1, <2>2, StretchText
<1> QED BY <1>3, <1>4

\* A sentence too long for a piece.
LEMMA HardCutText == ASSUME ChunkingInv, ChunkingInv', TextInv, HardCut PROVE TextInv'
<1> DEFINE last == Len(Laid)
           m == (Sentence + Target - 1) \div Target
           qs == Slices(m)
           from == [i \in 1..m |-> From(i)]
           to == [i \in 1..m |-> To(Sentence, i)]
<1>1. /\ LaidTypes /\ LaidParts /\ LaidParts' /\ Registers /\ Registers'
      /\ pieces \in Seq(Pieces) /\ current.len \in Nat
      BY StepTypes
<1>2. /\ Reading /\ current.len = 0 /\ Sentence > Target /\ par' = par /\ sen' = sen + 1
      /\ UNCHANGED <<source, at, origin, respect, blocks>>
      /\ pieces' = pieces \o qs /\ current' = NoPiece
      BY DEF HardCut, NextSentence, Cut
<1>3. Dividing /\ par <= Len(Source.text) /\ sen \in Nat /\ sen \in 1..Len(Paragraph.sentences)
      BY <1>1, <1>2 DEF Reading, Registers
<1>4. OfBlocks /\ AllCovered /\ Tidy(Laid, Here) BY DEF TextInv
<1>5. Here \in Positions /\ Here' \in Positions BY <1>1, <1>2, HereFacts
<1>6. Here = <<at, par, sen, 0>> /\ Here' = <<at, par, sen + 1, 0>> BY <1>2 DEF Here
<1>7. Resting'
  <2>1. sen' # 0 /\ par' <= Len(Source.text) BY <1>2, <1>3
  <2> QED BY <1>2, <1>3, <2>1, CutRests
<1>8. Sentence \in Nat
  <2>1. at <= Len(source) BY <1>3 DEF Dividing
  <2> QED BY <1>1, <1>3, <2>1, ParagraphFacts
<1>9. /\ m \in Nat /\ Sentence <= m * Target
      /\ \A i \in 1..m : (i - 1) * Target \in Nat /\ (i - 1) * Target < Sentence
      BY <1>2, <1>8, LastSlice
<1> HIDE DEF m
<1>10. qs \in Seq(Pieces) /\ Len(qs) = m BY <1>1, <1>8, <1>9, SliceFacts
<1>11. /\ \A i \in 1..m : From(i) \in Nat /\ To(Sentence, i) \in Nat /\ To(Sentence, i) <= Sentence
       /\ \A i, j \in 1..m : i < j => To(Sentence, i) <= From(j)
       /\ \A c \in 0..(Sentence - 1) : \E i \in 1..m : From(i) <= c /\ c < To(Sentence, i)
       BY <1>2, <1>8, <1>9, SlicePlaces
<1>12. /\ from \in [1..m -> Nat] /\ to \in [1..m -> Nat]
       /\ \A i \in 1..m : from[i] = From(i) /\ to[i] = To(Sentence, i)
       BY <1>11
<1>13. \A i \in 1..m : qs[i].of = <<Stretch(<<at, par, sen, from[i]>>, <<at, par, sen, to[i]>>)>>
       BY <1>12 DEF Slices, Slice, Piece, From, To
<1> HIDE DEF from, to, qs
<1>14. OfBlocks'
  <2>1. \A i \in 1..Len(qs) : OfBlock(qs[i].of, at)
    <3> SUFFICES ASSUME NEW i \in 1..Len(qs) PROVE OfBlock(qs[i].of, at)
        OBVIOUS
    <3>1. <<at, par, sen, from[i]>>[1] = at OBVIOUS
    <3>2. OfBlock(<<Stretch(<<at, par, sen, from[i]>>, <<at, par, sen, to[i]>>)>>, at)
          BY <3>1, StretchOfBlock
    <3> QED BY <1>10, <1>13, <3>2
  <2>2. OfBlock(current'.of, at) BY <1>2, NothingIsCut DEF OfBlock, NothingCut
  <2> QED BY <1>1, <1>2, <1>4, <1>10, <2>1, <2>2, CutOfBlock
<1>15. current'.len = 0 /\ current'.of = <<>> BY <1>2, NothingIsCut DEF NothingCut
<1>16. /\ Laid \in Seq(Seq(Stretches)) /\ Laid' \in Seq(Seq(Stretches))
       /\ last \in Nat \ {0} /\ Len(Laid') = last + Len(qs)
       /\ \A g \in 1..(last - 1) : Laid'[g] = Laid[g]
       /\ \A i \in 1..Len(qs) : Laid'[last - 1 + i] = qs[i].of
       /\ Laid'[last + Len(qs)] = current'.of
       BY <1>1, <1>2, <1>10, CutLaid
<1>17. /\ Tidy(Laid', Here')
       /\ \A place : Covered(Laid, 0, place) => Covered(Laid', 0, place)
       /\ \A c \in 0..(Sentence - 1) : Covered(Laid', 0, <<at, par, sen, c>>)
  <2> DEFINE n == Sentence
             x == Here
             y == Here'
             more == Laid'
  <2>1. /\ Registers /\ n \in Nat /\ x \in Positions /\ y \in Positions
        /\ x = <<at, par, sen, 0>> /\ y = <<at, par, sen + 1, 0>>
        /\ more \in Seq(Seq(Stretches)) /\ Laid \in Seq(Seq(Stretches)) /\ Tidy(Laid, x)
        /\ last \in Nat \ {0} /\ m \in Nat
        BY <1>1, <1>4, <1>5, <1>6, <1>8, <1>9, <1>16
  <2>2. LaysCuts(Laid, more, last, m, from, to)
        BY <1>9, <1>10, <1>13, <1>15, <1>16 DEF LaysCuts
  <2> HIDE DEF last
  <2>3. Cuts(n, m, from, to) BY <1>11, <1>12 DEF Cuts
  <2> HIDE DEF n, x, y, more
  <2>4. /\ Tidy(more, y)
        /\ \A place : Covered(Laid, 0, place) => Covered(more, 0, place)
        /\ \A c \in 0..(n - 1) : Covered(more, 0, <<at, par, sen, c>>)
        BY ONLY <2>1, <2>2, <2>3, AddSlices
  <2> QED BY <2>4 DEF n, y, more
<1>18. ASSUME NEW i, NEW p, NEW s, NEW c, Character(i, p, s, c),
              ~Earlier(<<i, p, s, c>>, Here), Earlier(<<i, p, s, c>>, Here')
       PROVE  Covered(Laid', current'.len, <<i, p, s, c>>)
  <2>1. i = at /\ p = par /\ s = sen /\ c \in 0..(Sentence - 1)
        BY <1>1, <1>2, <1>18, SentenceCharacters
  <2> QED BY <1>15, <1>17, <2>1
<1>19. AllCovered' /\ Tidy(Laid, Here)' BY <1>2, <1>4, <1>15, <1>17, <1>18, StepCovers
<1> QED BY <1>7, <1>14, <1>19 DEF TextInv

\* What is divided is of the page and the kind of its block.
LEMMA GrowOfBlocks ==
  ASSUME OfBlocks, Registers, blocks \in Seq(Blocks), at <= Len(source), UNCHANGED source, at' = at + 1,
         NEW bs \in Seq(Blocks), NEW os \in Seq(Seq(Stretches)), SameLength(bs, os),
         blocks' = blocks \o bs, origin' = origin \o os,
         \A i \in 1..Len(os) : OfBlock(os[i], at) /\ bs[i].page = Source.page /\ bs[i].kind = Source.kind,
         current' = NoPiece, pieces' = <<>>
  PROVE  OfBlocks'
<1> DEFINE S == Seq(Stretches)
<1>1. origin \in Seq(S) /\ os \in Seq(S) /\ Len(origin) = Len(blocks) /\ at \in Nat
      BY DEF Registers
<1> HIDE DEF S
<1>2. /\ Len(origin) \in Nat /\ Len(os) \in Nat /\ Len(origin') = Len(origin) + Len(os)
      /\ \A i \in 1..Len(origin) : origin'[i] = origin[i]
      /\ \A i \in 1..Len(os) : origin'[Len(origin) + i] = os[i]
  <2> DEFINE both == origin \o os
  <2>1. origin \in Seq(S) /\ os \in Seq(S) BY <1>1
  <2>2. /\ Len(origin) \in Nat /\ Len(os) \in Nat /\ Len(both) = Len(origin) + Len(os)
        /\ \A i \in 1..Len(origin) : both[i] = origin[i]
        /\ \A i \in 1..Len(os) : both[Len(origin) + i] = os[i]
        BY ONLY <2>1, ConcatFacts
  <2>3. origin' = both OBVIOUS
  <2> HIDE DEF both
  <2> QED BY <2>2, <2>3
<1>3. /\ Len(bs) = Len(os)
      /\ \A i \in 1..Len(origin) : blocks'[i] = blocks[i]
      /\ \A i \in 1..Len(os) : blocks'[Len(origin) + i] = bs[i]
  <2> DEFINE B == Blocks
             both == blocks \o bs
  <2>1. Len(blocks) = Len(origin) /\ Len(bs) = Len(os) BY <1>1 DEF SameLength
  <2>2. blocks \in Seq(B) /\ bs \in Seq(B) OBVIOUS
  <2> HIDE DEF B
  <2>3. /\ \A i \in 1..Len(blocks) : both[i] = blocks[i]
        /\ \A i \in 1..Len(bs) : both[Len(blocks) + i] = bs[i]
        BY ONLY <2>2, ConcatFacts
  <2>4. blocks' = both BY SMTT(40)
  <2> HIDE DEF both
  <2> QED BY <2>1, <2>3, <2>4
<1>4. ASSUME NEW b \in 1..Len(origin'), NEW k \in 1..Len(origin'[b])
      PROVE  LET i == origin'[b][k].from[1]
             IN  i < at' /\ blocks'[b].page = source'[i].page /\ blocks'[b].kind = source'[i].kind
  <2>1. CASE b \in 1..Len(origin)
    <3>1. origin'[b] = origin[b] /\ blocks'[b] = blocks[b] BY <1>2, <1>3, <2>1
    <3>2. k \in 1..Len(origin[b]) BY <3>1
    <3> DEFINE i == origin[b][k].from[1]
    <3>3. i < at /\ blocks[b].page = source[i].page /\ blocks[b].kind = source[i].kind
          BY <2>1, <3>2 DEF OfBlocks
    <3>4. i \in Nat
      <4>1. origin[b] \in Seq(Stretches) BY <2>1 DEF Registers
      <4>2. origin[b][k] \in Stretches BY <3>2, <4>1
      <4> QED BY <4>2 DEF Stretches, Positions
    <3> HIDE DEF i
    <3>5. i < at + 1 BY <1>1, <3>3, <3>4
    <3> QED BY <3>1, <3>3, <3>5 DEF i
  <2>2. CASE b \notin 1..Len(origin)
    <3>1. b - Len(origin) \in 1..Len(os) /\ b = Len(origin) + (b - Len(origin)) BY SMTT(40), <1>2, <2>2
    <3>2. PICK j \in 1..Len(os) : b = Len(origin) + j BY <3>1
    <3>3. origin'[b] = os[j] /\ blocks'[b] = bs[j] BY <1>2, <1>3, <3>2
    <3>4. origin'[b][k].from[1] = at BY <3>3 DEF OfBlock
    <3>5. blocks'[b].page = source[at].page /\ blocks'[b].kind = source[at].kind
          BY <3>3 DEF Source
    <3> QED BY <1>1, <3>4, <3>5
  <2> QED BY <2>1, <2>2
<1>5. OfBlock(current'.of, at') BY NothingIsCut DEF OfBlock, NothingCut
<1>6. \A i \in 1..Len(pieces') : OfBlock(pieces'[i].of, at') OBVIOUS
<1>7. /\ \A i \in 1..Len(pieces') : \A k \in 1..Len(pieces'[i].of) : pieces'[i].of[k].from[1] = at'
      /\ \A k \in 1..Len(current'.of) : current'.of[k].from[1] = at'
      BY <1>5, <1>6 DEF OfBlock
<1> QED BY ONLY <1>4, <1>7 DEF OfBlocks, OfBlock

\* What is laid after a block, all of it divided.
LEMMA GrownLaid ==
  ASSUME LaidTypes, LaidParts, LaidParts', current' = NoPiece, pieces' = <<>>,
         NEW os \in Seq(Seq(Stretches)), origin' = origin \o os
  PROVE  /\ Laid \in Seq(Seq(Stretches)) /\ Laid' \in Seq(Seq(Stretches))
         /\ Len(origin) \in Nat /\ Len(os) \in Nat /\ Len(pieces) \in Nat
         /\ Len(Laid) = Len(origin) + Len(pieces) + 1
         /\ Laid[Len(origin) + Len(pieces) + 1] = current.of
         /\ Len(Laid') = Len(origin) + Len(os) + 1
         /\ \A g \in 1..Len(origin) : Laid[g] = origin[g] /\ Laid'[g] = origin[g]
         /\ \A i \in 1..Len(pieces) : Laid[Len(origin) + i] = pieces[i].of
         /\ \A i \in 1..Len(os) : Laid'[Len(origin) + i] = os[i]
         /\ Laid'[Len(origin) + Len(os) + 1] = <<>>
<1> DEFINE a == Len(origin)
           w == Len(os)
<1>1. origin \in Seq(Seq(Stretches)) BY DEF LaidTypes, Registers
<1>2. /\ a \in Nat /\ w \in Nat /\ Len(origin') = a + w
      /\ \A g \in 1..a : origin'[g] = origin[g]
      /\ \A i \in 1..w : origin'[a + i] = os[i]
      BY <1>1, Concat
<1>3. /\ Laid \in Seq(Seq(Stretches)) /\ Len(pieces) \in Nat /\ Len(Laid) = a + Len(pieces) + 1
      /\ \A g \in 1..a : Laid[g] = origin[g]
      /\ \A i \in 1..Len(pieces) : Laid[a + i] = pieces[i].of
      /\ Laid[a + Len(pieces) + 1] = current.of
      BY DEF LaidParts
<1>4. /\ Laid' \in Seq(Seq(Stretches)) /\ Len(Laid') = Len(origin') + Len(pieces') + 1
      /\ \A g \in 1..Len(origin') : Laid'[g] = origin'[g]
      /\ Laid'[Len(origin') + Len(pieces') + 1] = current'.of
      BY DEF LaidParts, Stretches, Positions
<1>5. Len(pieces') = 0 /\ current'.of = <<>> BY NothingIsCut DEF NothingCut
<1> HIDE DEF a, w
<1>6. Len(Laid') = a + w + 1 /\ Laid'[a + w + 1] = <<>>
  <2>1. Len(origin') + Len(pieces') + 1 = a + w + 1 BY <1>2, <1>5
  <2> QED BY <1>4, <1>5, <2>1
<1>7. ASSUME NEW g \in 1..a PROVE Laid'[g] = origin[g]
  <2>1. g \in 1..Len(origin') BY <1>2
  <2> QED BY <1>2, <1>4, <2>1
<1>8. ASSUME NEW i \in 1..w PROVE Laid'[a + i] = os[i]
  <2>1. a + i \in 1..Len(origin') BY <1>2
  <2> QED BY <1>2, <1>4, <2>1
<1>9. /\ a \in Nat /\ w \in Nat /\ Laid \in Seq(Seq(Stretches)) /\ Laid' \in Seq(Seq(Stretches))
      /\ Len(Laid') = a + w + 1 /\ Laid'[a + w + 1] = <<>>
      /\ \A g \in 1..a : Laid[g] = origin[g] /\ Laid'[g] = origin[g]
      /\ \A i \in 1..w : Laid'[a + i] = os[i]
      BY <1>2, <1>3, <1>4, <1>6, <1>7, <1>8
<1> QED BY ONLY <1>3, <1>9 DEF a, w

\* A block divided.
LEMMA EndBlockText == ASSUME ChunkingInv, ChunkingInv', TextInv, EndBlock PROVE TextInv'
<1> DEFINE kept == IF Source.kind = "blank" THEN <<>> ELSE pieces
           bs == [i \in 1..Len(kept) |-> [len |-> kept[i].len, page |-> Source.page, kind |-> Source.kind]]
           os == [i \in 1..Len(kept) |-> kept[i].of]
           a == Len(origin)
           w == Len(os)
<1>1. /\ LaidTypes /\ LaidParts /\ LaidParts' /\ Registers /\ Registers'
      /\ pieces \in Seq(Pieces) /\ current.len \in Nat
      BY StepTypes
<1>2. /\ Dividing /\ at <= Len(source) /\ par = Len(Source.text) + 1
      /\ par' = 1 /\ sen' = 0 /\ pieces' = <<>> /\ at' = at + 1
      /\ blocks' = blocks \o bs /\ origin' = origin \o os
      /\ UNCHANGED <<source, current, respect>>
      BY DEF EndBlock, Divided, Dividing
<1>3. Source \in SourceBlocks /\ Source.page \in Nat \ {0} /\ Source.kind \in Kinds
      BY <1>1, <1>2, SourceFacts
<1>4. Len(Source.text) \in Nat BY <1>3 DEF SourceBlocks
<1>5. current = NoPiece /\ current' = NoPiece /\ current.len = 0
  <2>1. ~(par <= Len(Source.text)) BY <1>2, <1>4
  <2> QED BY <1>2, <2>1, NothingIsCut DEF TextInv, Resting, NothingCut
<1>6. kept \in Seq(Pieces)
  <2>1. <<>> \in Seq(Pieces) OBVIOUS
  <2> QED BY <1>1, <2>1
<1>7. \A i \in 1..Len(kept) : OfBlock(kept[i].of, at) BY DEF TextInv, OfBlocks
<1>8. (Source.kind # "blank" => kept = pieces) /\ (Source.kind = "blank" => Len(kept) = 0) OBVIOUS
<1> HIDE DEF kept
<1>9. Len(kept) \in Nat /\ \A i \in 1..Len(kept) : kept[i].len \in Nat /\ kept[i].of \in Seq(Stretches)
      BY <1>6, PieceTypes
<1>10. /\ os \in Seq(Seq(Stretches)) /\ w = Len(kept) /\ \A i \in 1..w : os[i] = kept[i].of
       BY <1>9
<1>11. /\ bs \in Seq(Blocks) /\ Len(bs) = Len(kept)
       /\ \A i \in 1..Len(kept) : bs[i].page = Source.page /\ bs[i].kind = Source.kind
  <2>1. \A i \in 1..Len(kept) :
          [len |-> kept[i].len, page |-> Source.page, kind |-> Source.kind] \in Blocks
        BY <1>3, <1>9 DEF Blocks
  <2> QED BY <1>9, <2>1
<1> HIDE DEF os, bs
<1>12. OfBlocks'
  <2>1. SameLength(bs, os) BY <1>10, <1>11 DEF SameLength
  <2>2. \A i \in 1..Len(os) : OfBlock(os[i], at) /\ bs[i].page = Source.page /\ bs[i].kind = Source.kind
        BY <1>7, <1>10, <1>11
  <2>3. blocks \in Seq(Blocks) BY DEF ChunkingInv, IInv, Shape
  <2> QED BY <1>1, <1>2, <1>5, <1>10, <1>11, <2>1, <2>2, <2>3, GrowOfBlocks DEF TextInv
<1>13. Resting'
  <2>1. NoPiece' = NoPiece BY DEF NoPiece, Piece
  <2> QED BY <1>2, <1>5, <2>1 DEF Resting
<1>14. /\ Laid \in Seq(Seq(Stretches)) /\ Laid' \in Seq(Seq(Stretches))
       /\ a \in Nat /\ w \in Nat /\ Len(pieces) \in Nat
       /\ Len(Laid) = a + Len(pieces) + 1 /\ Len(Laid') = a + w + 1
       /\ \A g \in 1..a : Laid[g] = origin[g] /\ Laid'[g] = origin[g]
       /\ \A i \in 1..Len(pieces) : Laid[a + i] = pieces[i].of
       /\ \A i \in 1..w : Laid'[a + i] = os[i]
       /\ Laid'[a + w + 1] = <<>>
       BY <1>1, <1>2, <1>5, <1>10, GrownLaid
<1> HIDE DEF a, w
<1>15. w <= Len(pieces) /\ (Source.kind # "blank" => w = Len(pieces))
  <2>1. w = Len(kept) BY <1>10
  <2>2. w \in Nat /\ Len(pieces) \in Nat BY <1>14
  <2> QED BY ONLY <1>8, <2>1, <2>2
<1>16. ASSUME NEW g \in 1..(a + w) PROVE Laid'[g] = Laid[g] /\ g \in 1..Len(Laid)
  <2>1. CASE g \in 1..a BY SMTT(40), <1>14, <2>1
  <2>2. CASE g \notin 1..a
    <3>1. g - a \in 1..w /\ g - a \in 1..Len(pieces) /\ g = a + (g - a) BY <1>14, <1>15, <2>2
    <3>2. PICK i \in 1..w : i \in 1..Len(pieces) /\ g = a + i BY <3>1
    <3>3. Laid[g] = pieces[i].of /\ Laid'[g] = os[i] BY <1>14, <3>2
    <3>4. kept = pieces BY <1>8, <1>10, <3>2
    <3>5. os[i] = pieces[i].of BY <1>10, <3>4
    <3> QED BY <1>14, <3>2, <3>3, <3>5
  <2> QED BY <2>1, <2>2
<1>17. Here \in Positions /\ Here' \in Positions /\ ~Earlier(Here', Here) BY <1>1, <1>2, HereFacts
<1>18. Tidy(Laid', Here')
  <2>1. ASSUME NEW g \in 1..Len(Laid'), NEW j \in 1..Len(Laid'[g]) PROVE Old(Laid, Laid', g, j)
    <3>1. g # a + w + 1
      <4>1. Len(Laid'[a + w + 1]) = 0 BY <1>14
      <4> QED BY <4>1
    <3>2. g \in 1..(a + w) BY <1>14, <3>1
    <3> QED BY <1>16, <3>2 DEF Old
  <2>2. Tidy(Laid, Here) BY DEF TextInv
  <2> DEFINE more == Laid'
             y == Here'
  <2>3. /\ more \in Seq(Seq(Stretches)) /\ y \in Positions /\ ~Earlier(y, Here)
        /\ \A g \in 1..Len(more) : \A j \in 1..Len(more[g]) : Old(Laid, more, g, j)
        BY <1>14, <1>17, <2>1
  <2> HIDE DEF more, y
  <2>4. Tidy(more, y) BY <1>14, <1>17, <2>2, <2>3, LayOne
  <2> QED BY <2>4 DEF more, y
<1>19. ASSUME NEW i, NEW p, NEW s, NEW c, Character(i, p, s, c), Earlier(<<i, p, s, c>>, Here')
       PROVE  Covered(Laid', current'.len, <<i, p, s, c>>)
  <2> DEFINE place == <<i, p, s, c>>
  <2>1. i \in Nat \ {0} /\ p \in Nat \ {0} /\ s \in Nat \ {0} /\ c \in Nat
        BY <1>1, <1>19, CharacterFacts
  <2>2. at \in Nat /\ par \in Nat BY <1>1 DEF Registers
  <2>3. Here' = <<at + 1, 1, 0, 0>> /\ Here = <<at, par, sen, 0>> BY <1>2 DEF Here
  <2>4. i <= at BY <1>19, <2>1, <2>2, <2>3 DEF Earlier
  <2>5. i = at => Source.kind # "blank" /\ p \in 1..Len(Source.text) BY <1>19 DEF Character, Source
  <2>6. Earlier(place, Here)
    <3>1. i < at \/ (i = at /\ p < par) BY <1>2, <1>4, <2>1, <2>2, <2>4, <2>5
    <3> QED BY <2>3, <3>1 DEF Earlier
  <2>7. Covered(Laid, 0, place) BY <1>5, <1>19, <2>6 DEF TextInv, AllCovered
  <2>8. PICK g \in 1..Len(Laid) :
          \E k \in 1..Len(Laid[g]) : Within(place, Laid[g][k]) /\ (g = Len(Laid) => 0 > 0)
        BY <2>7 DEF Covered
  <2>9. PICK k \in 1..Len(Laid[g]) : Within(place, Laid[g][k]) /\ (g = Len(Laid) => 0 > 0) BY <2>8
  <2>10. g # Len(Laid) BY <2>9
  <2>11. g \in 1..(a + w)
    <3>0. a \in Nat /\ w \in Nat /\ Len(pieces) \in Nat /\ Len(Laid) = a + Len(pieces) + 1 BY <1>14
    <3>1. CASE Source.kind # "blank" BY ONLY <1>15, <2>10, <3>0, <3>1
    <3>2. CASE Source.kind = "blank"
      <4>1. i < at BY <2>1, <2>2, <2>4, <2>5, <3>2
      <4>2. ASSUME g \notin 1..a PROVE FALSE
        <5>1. g - a \in 1..Len(pieces) /\ g = a + (g - a) BY ONLY <2>10, <3>0, <4>2
        <5>2. PICK j \in 1..Len(pieces) : g = a + j BY <5>1
        <5>3. Laid[g] = pieces[j].of BY <1>14, <5>2
        <5>4. Laid[g][k].from[1] = at BY <5>3 DEF TextInv, OfBlocks, OfBlock
        <5> QED BY <2>9, <4>1, <5>4 DEF Within, Earlier
      <4> QED BY <1>14, <4>2
    <3> QED BY <3>1, <3>2
  <2>12. Laid'[g] = Laid[g] BY <1>16, <2>11
  <2>13. g \in 1..Len(Laid') /\ g # Len(Laid') BY SMTT(40), <1>14, <2>11
  <2> QED BY <2>9, <2>12, <2>13 DEF Covered
<1>20. AllCovered'
  <2>1. ASSUME NEW i, NEW p, NEW s, NEW c, Character(i, p, s, c)' PROVE Character(i, p, s, c)
        BY <1>2, <2>1 DEF Character
  <2> QED BY <1>19, <2>1 DEF AllCovered, Covered, Earlier, Within
<1>21. Tidy(Laid, Here)' BY <1>18 DEF Tidy, Earlier
<1> QED BY <1>12, <1>13, <1>20, <1>21 DEF TextInv

\* A block kept whole.
LEMMA KeepBlockText == ASSUME ChunkingInv, ChunkingInv', TextInv, KeepBlock PROVE TextInv'
<1> DEFINE b == [len |-> Source.len, page |-> Source.page, kind |-> Source.kind]
           bs == <<b>>
           os == <<<<WholeBlock>>>>
           last == Len(Laid)
<1>1. /\ LaidTypes /\ LaidParts /\ LaidParts' /\ Registers /\ Registers'
      /\ pieces \in Seq(Pieces) /\ current.len \in Nat
      BY StepTypes
<1>2. /\ ~Dividing /\ at <= Len(source) /\ at' = at + 1
      /\ blocks' = Append(blocks, b) /\ origin' = Append(origin, <<WholeBlock>>)
      /\ UNCHANGED <<source, par, sen, current, pieces, respect>>
      BY DEF KeepBlock, Dividing
<1>3. /\ par = 1 /\ sen = 0 /\ pieces = <<>> /\ current = NoPiece
      /\ OfBlocks /\ AllCovered /\ Tidy(Laid, Here)
      BY <1>2 DEF TextInv, Resting
<1>4. /\ current' = NoPiece /\ pieces' = <<>> /\ current.len = 0 /\ current.of = <<>>
      BY <1>2, <1>3, NothingIsCut DEF NothingCut
<1>5. Here = <<at, 1, 0, 0>> /\ Here' = <<at + 1, 1, 0, 0>> BY <1>2, <1>3 DEF Here
<1>6. Here \in Positions /\ Here' \in Positions /\ ~Earlier(Here', Here) BY <1>1, <1>2, HereFacts
<1>7. WholeBlock = Stretch(Here, Here') BY <1>5 DEF WholeBlock
<1>8. Source.len \in Nat /\ Source.page \in Nat \ {0} /\ Source.kind \in Kinds
      BY <1>1, <1>2, SourceFacts
<1>9. bs \in Seq(Blocks) /\ Len(bs) = 1 /\ bs[1].page = Source.page /\ bs[1].kind = Source.kind
  <2>1. b \in Blocks BY <1>8 DEF Blocks
  <2> QED BY <2>1
<1>10. os \in Seq(Seq(Stretches)) /\ Len(os) = 1 /\ os[1] = <<WholeBlock>>
  <2>1. <<WholeBlock>> \in Seq(Stretches) BY <1>1, WholeTypes
  <2> QED BY <2>1
<1>11. blocks \in Seq(Blocks) /\ b \in Blocks BY <1>8 DEF Blocks, ChunkingInv, IInv, Shape
<1> HIDE DEF b
<1>12. blocks' = blocks \o bs BY <1>2, <1>11
<1>13. origin' = origin \o os
  <2> DEFINE S == Seq(Stretches)
             e == <<WholeBlock>>
  <2>1. origin \in Seq(S) /\ e \in S BY <1>1, WholeTypes DEF Registers
  <2>2. origin' = Append(origin, e) BY <1>2
  <2> HIDE DEF S, e
  <2>3. origin' = origin \o <<e>> BY ONLY <2>1, <2>2
  <2> QED BY <2>3 DEF e
<1> HIDE DEF bs, os
<1>14. OfBlock(os[1], at) BY <1>5, <1>7, <1>10, StretchOfBlock
<1>15. OfBlocks'
  <2>1. SameLength(bs, os) BY <1>9, <1>10 DEF SameLength
  <2>2. \A i \in 1..Len(os) : OfBlock(os[i], at) /\ bs[i].page = Source.page /\ bs[i].kind = Source.kind
        BY <1>9, <1>10, <1>14
  <2> QED BY <1>1, <1>2, <1>3, <1>4, <1>9, <1>10, <1>11, <1>12, <1>13, <2>1, <2>2, GrowOfBlocks
<1>16. Resting'
  <2>1. NoPiece' = NoPiece BY DEF NoPiece, Piece
  <2> QED BY <1>2, <1>3, <1>4, <2>1 DEF Resting
<1>17. /\ Laid \in Seq(Seq(Stretches)) /\ Laid' \in Seq(Seq(Stretches))
       /\ last \in Nat \ {0} /\ Laid[last] = <<>> /\ Len(Laid') = last + 1
       /\ \A g \in 1..(last - 1) : Laid'[g] = Laid[g]
       /\ Laid'[last] = <<Stretch(Here, Here')>> /\ Laid'[last + 1] = <<>>
  <2> DEFINE a == Len(origin)
  <2>1. /\ Laid \in Seq(Seq(Stretches)) /\ Laid' \in Seq(Seq(Stretches))
        /\ a \in Nat /\ Len(os) \in Nat /\ Len(pieces) \in Nat
        /\ Len(Laid) = a + Len(pieces) + 1 /\ Len(Laid') = a + Len(os) + 1
        /\ Laid[a + Len(pieces) + 1] = current.of
        /\ \A g \in 1..a : Laid[g] = origin[g] /\ Laid'[g] = origin[g]
        /\ \A i \in 1..Len(os) : Laid'[a + i] = os[i]
        /\ Laid'[a + Len(os) + 1] = <<>>
        BY <1>1, <1>4, <1>10, <1>13, GrownLaid
  <2>2. Len(pieces) = 0 BY <1>3
  <2> HIDE DEF a
  <2>3. last = a + 1 /\ a + Len(pieces) + 1 = last /\ a + Len(os) + 1 = last + 1 BY <1>10, <2>1, <2>2
  <2>4. 1 \in 1..Len(os) BY <1>10
  <2>5. Laid'[a + 1] = <<WholeBlock>> BY <1>10, <2>1, <2>4
  <2>6. \A g \in 1..(last - 1) : Laid'[g] = Laid[g] BY <2>1, <2>3
  <2> QED BY SMTT(40), <1>4, <1>7, <2>1, <2>3, <2>5, <2>6
<1>18. /\ Tidy(Laid', Here')
       /\ \A place : Covered(Laid, 0, place) => Covered(Laid', 0, place)
       /\ \A place : ~Earlier(place, Here) /\ Earlier(place, Here') => Covered(Laid', 0, place)
       BY <1>3, <1>6, <1>17, AddGroup
<1>19. AllCovered' /\ Tidy(Laid, Here)'
  <2>1. current'.len = 0 BY <1>2, <1>4
  <2> QED BY <1>2, <1>3, <1>4, <1>18, <2>1, StepCovers
<1> QED BY <1>15, <1>16, <1>19 DEF TextInv

\* Packing leaves the text alone.
LEMMA StayingText ==
  ASSUME TextInv, UNCHANGED <<source, at, par, sen, current, pieces, origin, blocks, respect>>
  PROVE  TextInv'
<1>1. Laid' = Laid /\ Here' = Here BY DEF Laid, Here
<1>2. Resting' BY DEF TextInv, Resting, Dividing, Undivided, Source, NoPiece, Piece
<1>3. OfBlocks' BY DEF TextInv, OfBlocks, OfBlock
<1>4. Tidy(Laid', Here') BY <1>1 DEF TextInv
<1>5. \A place : Covered(Laid, current.len, place) => Covered(Laid', current'.len, place) BY <1>1
<1>6. AllCovered' /\ Tidy(Laid, Here)' BY <1>1, <1>4, <1>5, StepCovers DEF TextInv
<1> QED BY <1>2, <1>3, <1>6 DEF TextInv

LEMMA TextStep == ChunkingInv /\ ChunkingInv' /\ TextInv /\ [ChunkingNext]_chunkingVars => TextInv'
<1> SUFFICES ASSUME ChunkingInv, ChunkingInv', TextInv, [ChunkingNext]_chunkingVars PROVE TextInv'
    OBVIOUS
<1>1. CASE KeepBlock BY <1>1, KeepBlockText
<1>2. CASE EndBlock BY <1>2, EndBlockText
<1>3. CASE KeepParagraph BY <1>3, KeepParagraphText
<1>4. CASE OpenParagraph BY <1>4, OpenParagraphText
<1>5. CASE CutBefore \/ GatherSentence BY <1>5, GatherText
<1>6. CASE HardCut BY <1>6, HardCutText
<1>7. CASE EndParagraph BY <1>7, EndParagraphText
<1>8. CASE PackDivided
  <2>1. UNCHANGED <<source, at, par, sen, current, pieces, origin, blocks, respect>>
        BY <1>8 DEF PackDivided, divider, Next, Pack, FlushLast
  <2> QED BY <2>1, StayingText
<1>9. CASE UNCHANGED chunkingVars
  <2>1. UNCHANGED <<source, at, par, sen, current, pieces, origin, blocks, respect>>
        BY <1>9 DEF chunkingVars, divider, vars
  <2> QED BY <2>1, StayingText
<1> QED BY <1>1, <1>2, <1>3, <1>4, <1>5, <1>6, <1>7, <1>8, <1>9 DEF ChunkingNext, Divide

\* Before anything is read.
LEMMA TextInit == ChunkingInit => TextInv
<1> SUFFICES ASSUME ChunkingInit PROVE TextInv
    OBVIOUS
<1>1. /\ at = 1 /\ par = 1 /\ sen = 0 /\ current = NoPiece /\ pieces = <<>> /\ origin = <<>>
      /\ current.of = <<>> /\ source \in Seq(SourceBlocks)
      BY NothingIsCut, ChunkingAssumption DEF ChunkingInit, NothingCut
<1>2. Resting BY <1>1 DEF Resting
<1>3. OfBlocks BY <1>1 DEF OfBlocks, OfBlock
<1>4. ChunkingInv BY ChunkingInitInv
<1>5. LaidParts /\ Registers BY <1>4, ChunkingLaid DEF ChunkingInv, DivInv
<1>6. Len(Laid) = 1 /\ Laid[1] = <<>> BY <1>1, <1>5 DEF LaidParts
<1>7. Tidy(Laid, Here)
  <2>1. \A g \in 1..Len(Laid) : Len(Laid[g]) = 0 BY <1>6
  <2> QED BY <2>1 DEF Tidy
<1>8. ASSUME NEW i, NEW p, NEW s, NEW c, Character(i, p, s, c), Earlier(<<i, p, s, c>>, Here)
      PROVE  FALSE
  <2>1. i \in Nat \ {0} /\ p \in Nat \ {0} /\ s \in Nat \ {0} /\ c \in Nat
        BY <1>5, <1>8, CharacterFacts
  <2>2. Here = <<1, 1, 0, 0>> BY <1>1 DEF Here
  <2> QED BY <1>8, <2>1, <2>2 DEF Earlier
<1>9. AllCovered BY <1>8 DEF AllCovered
<1> QED BY <1>2, <1>3, <1>7, <1>9 DEF TextInv

LEMMA TextInvariance == ChunkingSpec => []TextInv
<1>1. ChunkingInit => TextInv BY TextInit
<1>2. ChunkingInv /\ ChunkingInv' /\ TextInv /\ [ChunkingNext]_chunkingVars => TextInv' BY TextStep
<1> QED BY <1>1, <1>2, Invariance, PTL DEF ChunkingSpec

LEMMA TextIsKeptBy == ChunkingInv /\ Closed /\ TextInv => TextIsKept
<1> SUFFICES ASSUME ChunkingInv, Closed, TextInv PROVE TextIsKept
    OBVIOUS
<1>1. NoTextLost
  <2>1. \A n, place : Covered(Laid, n, place) =>
          \E g \in 1..Len(Laid) : \E k \in 1..Len(Laid[g]) : Within(place, Laid[g][k])
        BY DEF Covered
  <2> QED BY <2>1 DEF NoTextLost, TextInv, AllCovered, Character
<1>2. NoTextMoved BY DEF TextInv, Tidy, NoTextMoved
<1>3. PageKept
  <2>1. Len(origin) = Len(blocks) BY DEF ChunkingInv, DivInv, Registers
  <2> QED BY <2>1 DEF TextInv, OfBlocks, PageKept
<1>4. LengthsAreTrue BY DEF Closed, Measured, LengthsAreTrue
<1> QED BY <1>1, <1>2, <1>3, <1>4 DEF TextIsKept

\* Whatever the target and the document, dividing and packing keep the text: no
\* character of a block that is not blank is lost, none is copied twice or out
\* of its order, each block to pack has the page and kind of the one it was cut
\* of, and chunks are closed at the length of what they hold (chunking.py:62-112).
THEOREM TextKept == ChunkingSpec => []TextIsKept
BY ClosedInvariance, TextInvariance, TextIsKeptBy, PTL

(***************************************************************************)
(* The two arms.  The second instance of the splitter has its own copy of  *)
(* each definition: a lemma per action, or group of them, says that it is  *)
(* the same where nothing is labelled.                                     *)
(***************************************************************************)

\* The kinds that a splitter treats alike: nothing that is packed is labelled.
NothingLabelled == \A b \in 1..Len(blocks) : blocks[b].kind \notin {"heading", "table"}
ArmsInv == ChunkingInv /\ (Unlabelled => NothingLabelled)

\* The stretches of text are the same for both.
LEMMA SameStretches ==
  /\ FixedSize!WholeBlock = WholeBlock
  /\ FixedSize!WholeParagraph = WholeParagraph
  /\ FixedSize!WholeSentence = WholeSentence
BY DEF WholeBlock, FixedSize!WholeBlock, WholeParagraph, FixedSize!WholeParagraph,
       WholeSentence, FixedSize!WholeSentence, Stretch, FixedSize!Stretch

\* The block at hand is not labelled.
LEMMA SourcePlain ==
  ASSUME Registers, Unlabelled, at <= Len(source)
  PROVE  Source.kind \notin {"heading", "table"}
BY DEF Registers, Unlabelled, Source

\* So both divide it, or both do not.
LEMMA SameDividing ==
  ASSUME Registers, Unlabelled
  PROVE  /\ FixedSize!Source = Source
         /\ at <= Len(source) => (FixedSize!Undivided <=> Undivided)
         /\ FixedSize!Dividing <=> Dividing
<1>1. FixedSize!Source = Source BY DEF Source, FixedSize!Source
<1>2. at <= Len(source) => (FixedSize!Undivided <=> Undivided)
      BY <1>1, SourcePlain DEF Undivided, FixedSize!Undivided
<1> QED BY <1>1, <1>2 DEF Dividing, FixedSize!Dividing

\* A block kept whole by one is kept by the other.
LEMMA SameKeepBlock == ASSUME Registers, Unlabelled, KeepBlock PROVE FixedSize!KeepBlock
BY SameStretches, SameDividing DEF KeepBlock, FixedSize!KeepBlock, packer, FixedSize!packer

\* The end of a block is the same.
LEMMA SameEndBlock == ASSUME Registers, Unlabelled, EndBlock PROVE FixedSize!EndBlock
<1>1. FixedSize!Dividing /\ FixedSize!Source = Source BY SameDividing DEF EndBlock
<1>2. Divided(pieces) => FixedSize!Divided(pieces) BY <1>1 DEF Divided, FixedSize!Divided
<1> QED BY <1>1, <1>2 DEF EndBlock, FixedSize!EndBlock, packer, FixedSize!packer

\* Within a block, the two arms have the same loop.
LEMMA SameCuts ==
  ASSUME Registers, Unlabelled,
         KeepParagraph \/ OpenParagraph \/ CutBefore \/ HardCut \/ GatherSentence \/ EndParagraph
  PROVE  FixedSize!Divide
<1>1. FixedSize!Source = Source /\ (FixedSize!Dividing <=> Dividing) BY SameDividing
<1>2. FixedSize!Paragraph = Paragraph /\ FixedSize!Sentence = Sentence
      BY <1>1 DEF Paragraph, FixedSize!Paragraph, Sentence, FixedSize!Sentence
<1>3. FixedSize!WholeParagraph = WholeParagraph /\ FixedSize!WholeSentence = WholeSentence
      BY SameStretches
<1>4. \A n, f : FixedSize!Piece(n, f) = Piece(n, f) BY DEF Piece, FixedSize!Piece
<1>5. FixedSize!NoPiece = NoPiece BY <1>4 DEF NoPiece, FixedSize!NoPiece
<1>6. \A ps, piece : Cut(ps, piece) => FixedSize!Cut(ps, piece)
      BY DEF Cut, FixedSize!Cut, packer, FixedSize!packer
<1>7. \A start : FixedSize!Slice(start) = Slice(start)
      BY <1>2, <1>4 DEF Slice, FixedSize!Slice, Stretch, FixedSize!Stretch
<1>8. \A n : FixedSize!Slices(n) = Slices(n) BY <1>7 DEF Slices, FixedSize!Slices
<1>9. FixedSize!Gathered = Gathered
      BY <1>2, <1>3, <1>4 DEF Gathered, FixedSize!Gathered, Joined, FixedSize!Joined
<1>10. (NextSentence <=> FixedSize!NextSentence) /\ (NextParagraph <=> FixedSize!NextParagraph)
       BY DEF NextSentence, FixedSize!NextSentence, NextParagraph, FixedSize!NextParagraph
<1>11. (AtParagraph <=> FixedSize!AtParagraph) /\ (Reading <=> FixedSize!Reading)
       BY <1>1, <1>2 DEF AtParagraph, FixedSize!AtParagraph, Reading, FixedSize!Reading
<1>12. CASE KeepParagraph
  <2>1. FixedSize!KeepParagraph
        BY <1>2, <1>3, <1>4, <1>6, <1>10, <1>11, <1>12 DEF KeepParagraph, FixedSize!KeepParagraph
  <2> QED BY <2>1 DEF FixedSize!Divide
<1>13. CASE OpenParagraph
  <2>1. FixedSize!OpenParagraph
        BY <1>2, <1>6, <1>10, <1>11, <1>13 DEF OpenParagraph, FixedSize!OpenParagraph
  <2> QED BY <2>1 DEF FixedSize!Divide
<1>14. CASE CutBefore
  <2>1. FixedSize!CutBefore
        BY <1>2, <1>3, <1>4, <1>6, <1>10, <1>11, <1>14 DEF CutBefore, FixedSize!CutBefore
  <2> QED BY <2>1 DEF FixedSize!Divide
<1>15. CASE HardCut
  <2> DEFINE m == (Sentence + Target - 1) \div Target
  <2>1. Reading /\ current.len = 0 /\ Sentence > Target /\ Cut(pieces \o Slices(m), NoPiece) /\ NextSentence
        BY <1>15 DEF HardCut
  <2>2. FixedSize!Reading /\ FixedSize!Cut(pieces \o FixedSize!Slices(m), FixedSize!NoPiece)
        /\ FixedSize!NextSentence /\ FixedSize!Sentence > Target
        BY <1>2, <1>5, <1>6, <1>8, <1>10, <1>11, <2>1
  <2>3. m = (FixedSize!Sentence + Target - 1) \div Target BY <1>2
  <2> HIDE DEF m
  <2>4. FixedSize!HardCut BY <2>1, <2>2, <2>3 DEF FixedSize!HardCut
  <2> QED BY <2>4 DEF FixedSize!Divide
<1>16. CASE GatherSentence
  <2>1. FixedSize!GatherSentence
        BY <1>2, <1>6, <1>9, <1>10, <1>11, <1>16 DEF GatherSentence, FixedSize!GatherSentence
  <2> QED BY <2>1 DEF FixedSize!Divide
<1>17. CASE EndParagraph
  <2>1. FixedSize!EndParagraph
        BY <1>1, <1>2, <1>5, <1>6, <1>10, <1>17 DEF EndParagraph, FixedSize!EndParagraph
  <2> QED BY <2>1 DEF FixedSize!Divide
<1> QED BY <1>12, <1>13, <1>14, <1>15, <1>16, <1>17

\* The packer opens no section and emits no table: what remains of its loop is
\* that of the other arm.
LEMMA SamePack == ASSUME Shape, NothingLabelled, Next PROVE FixedSize!Next
<1>1. \A buf, n : FixedSize!Chunk(buf, n) = Chunk(buf, n)
      BY DEF Chunk, FixedSize!Chunk, PagesOf, FixedSize!PagesOf
<1>2. \A cs, buf, n : FixedSize!Flush(cs, buf, n) = Flush(cs, buf, n)
      BY <1>1 DEF Flush, FixedSize!Flush, HasText, FixedSize!HasText
<1>3. FixedSize!Carry = Carry BY DEF Carry, FixedSize!Carry
<1>4. \A buf, n : FixedSize!Hold(buf, n) <=> Hold(buf, n) BY DEF Hold, FixedSize!Hold
<1>5. FixedSize!Block = Block BY DEF Block, FixedSize!Block
<1>6. ~FixedSize!Opens /\ ~FixedSize!Alone BY DEF FixedSize!Opens, FixedSize!Alone
<1>7. CASE Pack
  <2>1. next <= Len(blocks) /\ next' = next + 1 /\ UNCHANGED blocks BY <1>7 DEF Pack
  <2>2. Block.kind \notin {"heading", "table"} BY <2>1 DEF Shape, NothingLabelled, Block
  <2>3. ~Opens /\ ~Alone BY <2>2 DEF Opens, Alone
  <2>4. Overflow \/ Gather BY <1>7, <2>3 DEF Pack, OpenSection, EmitTable
  <2>5. CASE Overflow
    <3>1. FixedSize!Overflow
          BY <1>2, <1>3, <1>4, <1>5, <1>6, <2>5 DEF Overflow, FixedSize!Overflow
    <3> QED BY <2>1, <3>1 DEF FixedSize!Next, FixedSize!Pack
  <2>6. CASE Gather
    <3>1. FixedSize!Gather BY <1>4, <1>5, <1>6, <2>6 DEF Gather, FixedSize!Gather
    <3> QED BY <2>1, <3>1 DEF FixedSize!Next, FixedSize!Pack
  <2> QED BY <2>4, <2>5, <2>6
<1>8. CASE FlushLast
  <2>1. FixedSize!FlushLast BY <1>2, <1>4, <1>8 DEF FlushLast, FixedSize!FlushLast
  <2> QED BY <2>1 DEF FixedSize!Next
<1> QED BY <1>7, <1>8 DEF Next

\* Every step of the one is a step of the other, over what is not labelled.
LEMMA SameStep == ASSUME ArmsInv, Unlabelled, ChunkingNext PROVE FixedSize!ChunkingNext
<1>1. Registers /\ Shape /\ NothingLabelled BY DEF ArmsInv, ChunkingInv, DivInv, IInv
<1>2. CASE KeepBlock
      BY <1>1, <1>2, SameKeepBlock DEF FixedSize!ChunkingNext, FixedSize!Divide
<1>3. CASE EndBlock
      BY <1>1, <1>3, SameEndBlock DEF FixedSize!ChunkingNext, FixedSize!Divide
<1>4. CASE KeepParagraph \/ OpenParagraph \/ CutBefore \/ HardCut \/ GatherSentence \/ EndParagraph
      BY <1>1, <1>4, SameCuts DEF FixedSize!ChunkingNext
<1>5. CASE PackDivided
  <2>1. FixedSize!PackDivided
        BY <1>1, <1>5, SamePack DEF PackDivided, FixedSize!PackDivided, divider, FixedSize!divider
  <2> QED BY <2>1 DEF FixedSize!ChunkingNext
<1> QED BY <1>2, <1>3, <1>4, <1>5 DEF ChunkingNext, Divide

\* What is divided has the kind of the block it was divided from.
LEMMA KindsStay == ASSUME ArmsInv, [ChunkingNext]_chunkingVars PROVE ArmsInv'
<1>1. ChunkingInv' BY ChunkingNextInv DEF ArmsInv
<1>2. Registers /\ blocks \in Seq(Blocks) /\ PiecesFit
      BY DEF ArmsInv, ChunkingInv, DivInv, IInv, Shape
<1>3. SUFFICES ASSUME Unlabelled' PROVE NothingLabelled'
      BY <1>1 DEF ArmsInv
<1>4. source' = source
      BY DEF ChunkingNext, Divide, KeepBlock, EndBlock, KeepParagraph, OpenParagraph, CutBefore,
             HardCut, GatherSentence, EndParagraph, Cut, PackDivided, chunkingVars
<1>5. Unlabelled /\ NothingLabelled BY <1>3, <1>4 DEF ArmsInv, Unlabelled
<1>6. CASE KeepBlock
  <2>1. Source.kind \notin {"heading", "table"} BY <1>2, <1>5, <1>6, SourcePlain DEF KeepBlock
  <2> DEFINE b == [len |-> Source.len, page |-> Source.page, kind |-> Source.kind]
  <2>2. blocks' = Append(blocks, b) BY <1>6 DEF KeepBlock
  <2>3. b.kind \notin {"heading", "table"} BY <2>1
  <2> HIDE DEF b
  <2>4. blocks \in Seq(Blocks \cup {b}) BY <1>2
  <2> QED BY <1>5, <2>2, <2>3, <2>4 DEF NothingLabelled
<1>7. CASE EndBlock
  <2> DEFINE kept == IF Source.kind = "blank" THEN <<>> ELSE pieces
             bs == [i \in 1..Len(kept) |-> [len |-> kept[i].len, page |-> Source.page, kind |-> Source.kind]]
  <2>1. Source.kind \notin {"heading", "table"}
        BY <1>2, <1>5, <1>7, SourcePlain DEF EndBlock, Dividing
  <2>2. blocks' = blocks \o bs BY <1>7 DEF EndBlock, Divided
  <2>3. Len(kept) \in Nat BY <1>2 DEF PiecesFit
  <2> HIDE DEF kept
  <2>4. bs \in Seq({bs[i] : i \in 1..Len(kept)}) /\ Len(bs) = Len(kept) BY <2>3
  <2>5. \A i \in 1..Len(bs) : bs[i].kind \notin {"heading", "table"} BY <2>1, <2>4
  <2> HIDE DEF bs
  <2>6. /\ Len(blocks') = Len(blocks) + Len(bs) /\ Len(blocks) \in Nat /\ Len(bs) \in Nat
        /\ \A i \in 1..Len(blocks) : blocks'[i] = blocks[i]
        /\ \A i \in 1..Len(bs) : blocks'[Len(blocks) + i] = bs[i]
    <3>1. bs \in Seq({bs[i] : i \in 1..Len(kept)}) /\ blocks \in Seq(Blocks) BY <1>2, <2>4
    <3>2. /\ Len(blocks \o bs) = Len(blocks) + Len(bs) /\ Len(blocks) \in Nat /\ Len(bs) \in Nat
          /\ \A i \in 1..Len(blocks) : (blocks \o bs)[i] = blocks[i]
          /\ \A i \in 1..Len(bs) : (blocks \o bs)[Len(blocks) + i] = bs[i]
          BY <3>1, Concat
    <3> QED BY <2>2, <3>2
  <2>7. ASSUME NEW b \in 1..Len(blocks') PROVE blocks'[b].kind \notin {"heading", "table"}
    <3>1. CASE b <= Len(blocks) BY <1>5, <2>6, <3>1 DEF NothingLabelled
    <3>2. CASE b > Len(blocks)
      <4>1. b - Len(blocks) \in 1..Len(bs) /\ b = Len(blocks) + (b - Len(blocks)) BY <2>6, <3>2
      <4> QED BY <2>5, <2>6, <4>1
    <3> QED BY <2>6, <3>1, <3>2
  <2> QED BY <2>7 DEF NothingLabelled
<1>8. CASE ~KeepBlock /\ ~EndBlock
  <2>1. blocks' = blocks
        BY <1>8 DEF ChunkingNext, Divide, KeepParagraph, OpenParagraph, CutBefore,
             HardCut, GatherSentence, EndParagraph, Cut, PackDivided, Next, Pack, FlushLast,
             chunkingVars, vars
  <2> QED BY <1>5, <2>1 DEF NothingLabelled
<1> QED BY <1>6, <1>7, <1>8

\* A converter that labels nothing makes the section-respecting splitter do
\* what the fixed one does, step by step (chunking.py:45).
THEOREM ArmsAgreeUnlabelled == ChunkingSpec => ArmsAgree
<1>1. ChunkingInit => ArmsInv
  <2>1. ChunkingInit => NothingLabelled BY DEF ChunkingInit, NothingLabelled
  <2> QED BY <2>1, ChunkingInitInv DEF ArmsInv
<1>2. ArmsInv /\ [ChunkingNext]_chunkingVars
        => ArmsInv' /\ [Unlabelled => FixedSize!ChunkingNext]_chunkingVars
      BY KindsStay, SameStep
<1> QED BY <1>1, <1>2, PTL DEF ChunkingSpec, ArmsAgree
=============================================================================
