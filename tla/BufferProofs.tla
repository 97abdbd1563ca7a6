---------------------------- MODULE BufferProofs ----------------------------
(***************************************************************************)
(* Proofs about module Buffer, for every content, size and prefix.         *)
(***************************************************************************)
EXTENDS Buffer, SequenceTheorems, TLAPS

\* Copying into a vector leaves its size and its type alone.
LEMMA OverwriteType ==
  ASSUME NEW cells \in Seq(Bytes), NEW at \in Nat, NEW bytes \in Seq(Bytes)
  PROVE  /\ Overwrite(cells, at, bytes) \in Seq(Bytes)
         /\ Len(Overwrite(cells, at, bytes)) = Len(cells)
         /\ \A i \in 1..Len(cells) : Overwrite(cells, at, bytes)[i] =
                IF at < i /\ i <= at + Len(bytes) THEN bytes[i - at] ELSE cells[i]
<1> DEFINE f(i) == IF at < i /\ i <= at + Len(bytes) THEN bytes[i - at] ELSE cells[i]
<1>1. \A i \in 1..Len(cells) : f(i) \in Bytes
  <2> TAKE i \in 1..Len(cells)
  <2>1. CASE at < i /\ i <= at + Len(bytes)
    <3>1. i - at \in 1..Len(bytes)
      BY <2>1
    <3> QED
      BY <2>1, <3>1, ElementOfSeq
  <2>2. CASE ~(at < i /\ i <= at + Len(bytes))
    BY <2>2, ElementOfSeq
  <2> QED
    BY <2>1, <2>2
<1>2. Overwrite(cells, at, bytes) = [i \in 1..Len(cells) |-> f(i)]
  BY DEF Overwrite
<1> QED
  BY <1>1, <1>2, LenProperties, SeqDef

\* So does growing, but for the size.
LEMMA ResizeType ==
  ASSUME NEW cells \in Seq(Bytes), NEW size \in Nat, size >= Len(cells)
  PROVE  /\ Resize(cells, size) \in Seq(Bytes)
         /\ Len(Resize(cells, size)) = size
         /\ \A i \in 1..Len(cells) : Resize(cells, size)[i] = cells[i]
<1> DEFINE f(i) == IF i <= Len(cells) THEN cells[i] ELSE 0
<1>1. \A i \in 1..size : f(i) \in Bytes
  <2> TAKE i \in 1..size
  <2>1. CASE i <= Len(cells)
    BY <2>1, ElementOfSeq
  <2> QED
    BY <2>1, BufferConstants
<1>2. Resize(cells, size) = [i \in 1..size |-> f(i)]
  BY DEF Resize
<1> QED
  BY <1>1, <1>2, LenProperties, SeqDef

\* The content is what lies between the two indices.
LEMMA ContentType ==
  ASSUME NEW b, BufferOK(b)
  PROVE  /\ content(b) \in Seq(Bytes)
         /\ Len(content(b)) = readableBytes(b)
         /\ \A i \in 1..readableBytes(b) : content(b)[i] = b.cells[b.reader + i]
         /\ readableBytes(b) \in Nat /\ writableBytes(b) \in Nat
<1> DEFINE n == readableBytes(b)
           f(i) == b.cells[b.reader + i]
<1>1. n \in Nat /\ writableBytes(b) \in Nat /\ b.cells \in Seq(Bytes)
  BY DEF BufferOK, Buffers, readableBytes, writableBytes
<1>2. \A i \in 1..n : f(i) \in Bytes
  <2> TAKE i \in 1..n
  <2>1. b.reader + i \in 1..Len(b.cells)
    BY DEF BufferOK, Buffers, readableBytes
  <2> QED
    BY <1>1, <2>1, ElementOfSeq
<1>3. content(b) = [i \in 1..n |-> f(i)]
  BY DEF content
<1> QED
  BY <1>1, <1>2, <1>3, LenProperties, SeqDef

\* Two buffers whose readable cells agree have the same content.
LEMMA SameContent ==
  ASSUME NEW b, BufferOK(b), NEW c, BufferOK(c),
         readableBytes(c) = readableBytes(b),
         \A i \in 1..readableBytes(b) : c.cells[c.reader + i] = b.cells[b.reader + i]
  PROVE  content(c) = content(b)
  BY DEF content

-----------------------------------------------------------------------------
\* makeSpace, called when len bytes do not fit behind the writer index, makes
\* them fit and keeps the content; and when it moves the content, it moves it
\* towards the front, as Buffer.h:167 asserts.
THEOREM MakeSpaceRight ==
  ASSUME NEW b, BufferOK(b), NEW len \in Nat, writableBytes(b) < len
  PROVE  /\ BufferOK(makeSpace(b, len))
         /\ content(makeSpace(b, len)) = content(b)
         /\ writableBytes(makeSpace(b, len)) >= len
         /\ makeSpace(b, len).reader # b.reader => kCheapPrepend < b.reader
<1> DEFINE m == makeSpace(b, len)
<1>1. /\ b.cells \in Seq(Bytes) /\ b.reader \in Nat /\ b.writer \in Nat
      /\ b.reader <= b.writer /\ b.writer <= Len(b.cells) /\ Len(b.cells) \in Nat
      /\ kCheapPrepend \in Nat /\ kCheapPrepend <= Len(b.cells)
  BY BufferConstants, LenProperties DEF BufferOK, Buffers
<1>2. CASE writableBytes(b) + prependableBytes(b) < len + kCheapPrepend
  <2> DEFINE cells == Resize(b.cells, b.writer + len)
  <2>1. m.cells = cells /\ m.reader = b.reader /\ m.writer = b.writer /\ m \in Buffers
    <3>1. b.writer + len >= Len(b.cells) /\ b.writer + len \in Nat
      BY <1>1 DEF writableBytes
    <3>2. cells \in Seq(Bytes)
      BY <1>1, <3>1, ResizeType
    <3>3. m = [b EXCEPT !.cells = cells]
      BY <1>2 DEF makeSpace
    <3> QED
      BY <3>2, <3>3 DEF BufferOK, Buffers
  <2>2. /\ Len(cells) = b.writer + len
        /\ \A i \in 1..Len(b.cells) : cells[i] = b.cells[i]
    <3>1. b.writer + len >= Len(b.cells) /\ b.writer + len \in Nat
      BY <1>1 DEF writableBytes
    <3> QED
      BY <1>1, <3>1, ResizeType
  <2>3. BufferOK(m)
    <3>1. Len(b.cells) <= b.writer + len
      BY <1>1 DEF writableBytes
    <3>2. kCheapPrepend <= b.writer + len /\ b.writer <= b.writer + len
      BY <1>1, <3>1
    <3> QED
      BY <1>1, <2>1, <2>2, <3>2 DEF BufferOK
  <2>4. \A i \in 1..readableBytes(b) : m.cells[m.reader + i] = b.cells[b.reader + i]
    <3> TAKE i \in 1..readableBytes(b)
    <3>1. b.reader + i \in 1..Len(b.cells)
      BY <1>1 DEF readableBytes
    <3> QED
      BY <2>1, <2>2, <3>1
  <2>5. content(m) = content(b)
    BY <2>1, <2>3, <2>4, SameContent DEF readableBytes
  <2> QED
    BY <1>1, <2>1, <2>2, <2>3, <2>5 DEF writableBytes
<1>3. CASE ~(writableBytes(b) + prependableBytes(b) < len + kCheapPrepend)
  <2> DEFINE cells == Overwrite(b.cells, kCheapPrepend, content(b))
  <2>1. kCheapPrepend < b.reader
    BY <1>1, <1>3 DEF writableBytes, prependableBytes
  <2>2. m = [cells  |-> cells,
             reader |-> kCheapPrepend,
             writer |-> kCheapPrepend + readableBytes(b)]
    BY <1>3 DEF makeSpace
  <2>3. /\ content(b) \in Seq(Bytes)
        /\ Len(content(b)) = readableBytes(b)
        /\ \A i \in 1..readableBytes(b) : content(b)[i] = b.cells[b.reader + i]
        /\ readableBytes(b) \in Nat
    BY ContentType
  <2>4. /\ cells \in Seq(Bytes)
        /\ Len(cells) = Len(b.cells)
        /\ \A i \in 1..Len(b.cells) : cells[i] =
              IF kCheapPrepend < i /\ i <= kCheapPrepend + readableBytes(b)
                THEN content(b)[i - kCheapPrepend] ELSE b.cells[i]
    <3>1. /\ cells \in Seq(Bytes)
          /\ Len(cells) = Len(b.cells)
          /\ \A i \in 1..Len(b.cells) : cells[i] =
                IF kCheapPrepend < i /\ i <= kCheapPrepend + Len(content(b))
                  THEN content(b)[i - kCheapPrepend] ELSE b.cells[i]
      BY <1>1, <2>3, OverwriteType
    <3> QED
      BY <2>3, <3>1
  <2>5. BufferOK(m) /\ readableBytes(m) = readableBytes(b)
    BY <1>1, <2>1, <2>2, <2>3, <2>4 DEF BufferOK, Buffers, readableBytes
  <2>6. \A i \in 1..readableBytes(b) : m.cells[m.reader + i] = b.cells[b.reader + i]
    <3> TAKE i \in 1..readableBytes(b)
    <3>1. kCheapPrepend + i <= b.reader + i /\ b.reader + i <= b.writer
      BY <1>1, <2>1 DEF readableBytes
    <3>2. kCheapPrepend + i \in 1..Len(b.cells)
      BY <1>1, <3>1
    <3>3. /\ kCheapPrepend < kCheapPrepend + i
          /\ kCheapPrepend + i <= kCheapPrepend + readableBytes(b)
          /\ (kCheapPrepend + i) - kCheapPrepend = i
      BY <1>1, <2>3
    <3> QED
      BY <2>2, <2>3, <2>4, <3>2, <3>3
  <2>7. content(m) = content(b)
    BY <2>5, <2>6, SameContent
  <2>8. writableBytes(m) >= len
    <3>1. (Len(b.cells) - b.writer) + b.reader >= len + kCheapPrepend
      BY <1>1, <1>3 DEF writableBytes, prependableBytes
    <3>2. writableBytes(m) = Len(b.cells) - (kCheapPrepend + (b.writer - b.reader))
      <4>1. Len(m.cells) = Len(b.cells)
        BY <2>2, <2>4
      <4>2. m.writer = kCheapPrepend + (b.writer - b.reader)
        BY <2>2 DEF readableBytes
      <4> QED
        BY <4>1, <4>2 DEF writableBytes
    <3> QED
      BY <1>1, <3>1, <3>2
  <2> QED
    BY <2>1, <2>5, <2>7, <2>8
<1> QED
  BY <1>2, <1>3

\* ensureWritableBytes keeps the content and does what its name says.
LEMMA EnsureRight ==
  ASSUME NEW b, BufferOK(b), NEW len \in Nat
  PROVE  /\ BufferOK(ensureWritableBytes(b, len))
         /\ content(ensureWritableBytes(b, len)) = content(b)
         /\ writableBytes(ensureWritableBytes(b, len)) >= len
<1>1. CASE writableBytes(b) < len
  BY <1>1, MakeSpaceRight DEF ensureWritableBytes
<1>2. CASE ~(writableBytes(b) < len)
  BY <1>2, ContentType DEF ensureWritableBytes
<1> QED
  BY <1>1, <1>2

-----------------------------------------------------------------------------
\* A new buffer is empty and has room for initialSize bytes, as the constructor
\* asserts.
THEOREM NewBufferRight ==
  ASSUME NEW initialSize \in Nat
  PROVE  /\ BufferOK(NewBuffer(initialSize))
         /\ readableBytes(NewBuffer(initialSize)) = 0
         /\ writableBytes(NewBuffer(initialSize)) = initialSize
         /\ prependableBytes(NewBuffer(initialSize)) = kCheapPrepend
<1> DEFINE n == kCheapPrepend + initialSize
           cells == [i \in 1..n |-> 0]
<1>1. n \in Nat /\ kCheapPrepend \in Nat
  BY BufferConstants
<1>2. cells \in Seq(Bytes)
  BY <1>1, BufferConstants, SeqDef
<1>3. Len(cells) = n
  BY <1>1, <1>2, LenProperties
<1>4. NewBuffer(initialSize) = [cells |-> cells, reader |-> kCheapPrepend, writer |-> kCheapPrepend]
  BY DEF NewBuffer
<1> HIDE DEF cells
<1> QED
  BY <1>1, <1>2, <1>3, <1>4
  DEF BufferOK, Buffers, readableBytes, writableBytes, prependableBytes

\* retrieve takes the first len bytes of the content away.
THEOREM RetrieveRight ==
  ASSUME NEW b, BufferOK(b), NEW len \in 0..readableBytes(b)
  PROVE  /\ BufferOK(retrieve(b, len))
         /\ readableBytes(retrieve(b, len)) = readableBytes(b) - len
         /\ \A i \in 1..(readableBytes(b) - len) :
                content(retrieve(b, len))[i] = content(b)[len + i]
<1> DEFINE r == retrieve(b, len)
<1>1. /\ b.cells \in Seq(Bytes) /\ b.reader \in Nat /\ b.writer \in Nat
      /\ b.reader <= b.writer /\ b.writer <= Len(b.cells) /\ Len(b.cells) \in Nat
      /\ kCheapPrepend \in Nat /\ kCheapPrepend <= Len(b.cells)
  BY BufferConstants, LenProperties DEF BufferOK, Buffers
<1>2. CASE len < readableBytes(b)
  <2>1. r = [b EXCEPT !.reader = @ + len]
    BY <1>2 DEF retrieve
  <2>2. BufferOK(r) /\ readableBytes(r) = readableBytes(b) - len /\ r.cells = b.cells
    BY <1>1, <1>2, <2>1 DEF BufferOK, Buffers, readableBytes
  <2>3. ASSUME NEW i \in 1..(readableBytes(b) - len)
        PROVE  content(r)[i] = content(b)[len + i]
    <3>1. len + i \in 1..readableBytes(b) /\ r.reader + i = b.reader + (len + i)
      BY <1>1, <2>1 DEF BufferOK, Buffers, readableBytes
    <3>2. content(r)[i] = b.cells[r.reader + i]
      BY <2>2, ContentType
    <3>3. content(b)[len + i] = b.cells[b.reader + (len + i)]
      BY <3>1, ContentType
    <3> QED
      BY <3>1, <3>2, <3>3
  <2> QED
    BY <2>2, <2>3
<1>3. CASE ~(len < readableBytes(b))
  <2>1. len = readableBytes(b)
    BY <1>1, <1>3 DEF readableBytes
  <2>2. r = [b EXCEPT !.reader = kCheapPrepend, !.writer = kCheapPrepend]
    BY <1>3 DEF retrieve, retrieveAll
  <2>3. /\ r.cells = b.cells /\ r.reader = kCheapPrepend /\ r.writer = kCheapPrepend
        /\ r \in Buffers
    BY <1>1, <2>2 DEF BufferOK, Buffers
  <2>4. kCheapPrepend <= Len(b.cells)
    BY <1>1
  <2>5. readableBytes(b) - len = 0
    BY <1>1, <2>1 DEF readableBytes
  <2>6. BufferOK(r) /\ readableBytes(r) = 0
    BY <1>1, <2>3, <2>4 DEF BufferOK, readableBytes
  <2> QED
    BY <2>5, <2>6
<1> QED
  BY <1>2, <1>3

-----------------------------------------------------------------------------
\* b after bytes were copied behind its writer index.
Filled(b, bytes) ==
  [b EXCEPT !.cells = Overwrite(@, b.writer, bytes), !.writer = @ + Len(bytes)]

\* Bytes that fit behind the writer index become the end of the content.
LEMMA FilledRight ==
  ASSUME NEW b, BufferOK(b), NEW bytes \in Seq(Bytes), Len(bytes) <= writableBytes(b)
  PROVE  /\ BufferOK(Filled(b, bytes))
         /\ content(Filled(b, bytes)) = content(b) \o bytes
<1> DEFINE c == Filled(b, bytes)
           cells == Overwrite(b.cells, b.writer, bytes)
<1>1. /\ b.cells \in Seq(Bytes) /\ b.reader \in Nat /\ b.writer \in Nat
      /\ b.reader <= b.writer /\ b.writer <= Len(b.cells) /\ Len(b.cells) \in Nat
      /\ Len(bytes) \in Nat /\ b.writer + Len(bytes) <= Len(b.cells)
      /\ kCheapPrepend <= Len(b.cells)
  BY LenProperties DEF BufferOK, Buffers, writableBytes
<1>2. /\ cells \in Seq(Bytes)
      /\ Len(cells) = Len(b.cells)
      /\ \A i \in 1..Len(b.cells) : cells[i] =
            IF b.writer < i /\ i <= b.writer + Len(bytes) THEN bytes[i - b.writer] ELSE b.cells[i]
  BY <1>1, OverwriteType
<1>3. c.cells = cells /\ c.reader = b.reader /\ c.writer = b.writer + Len(bytes) /\ c \in Buffers
  <2>1. c = [b EXCEPT !.cells = cells, !.writer = b.writer + Len(bytes)]
    BY DEF Filled
  <2>2. b \in Buffers
    BY DEF BufferOK
  <2>3. b.writer + Len(bytes) \in Nat
    BY <1>1
  <2> HIDE DEF c, cells
  <2>4. c.cells = cells /\ c.reader = b.reader /\ c.writer = b.writer + Len(bytes)
    BY <2>1, <2>2 DEF Buffers
  <2>5. c \in Buffers
    BY <1>2, <2>1, <2>2, <2>3 DEF Buffers
  <2> QED
    BY <2>4, <2>5
<1>4. BufferOK(c) /\ readableBytes(c) = readableBytes(b) + Len(bytes)
  BY <1>1, <1>2, <1>3 DEF BufferOK, readableBytes
<1>5. /\ content(b) \in Seq(Bytes) /\ Len(content(b)) = readableBytes(b)
      /\ \A i \in 1..readableBytes(b) : content(b)[i] = b.cells[b.reader + i]
      /\ content(c) \in Seq(Bytes) /\ Len(content(c)) = readableBytes(c)
      /\ \A i \in 1..readableBytes(c) : content(c)[i] = c.cells[c.reader + i]
      /\ readableBytes(b) \in Nat
  BY <1>4, ContentType
<1>6. /\ content(b) \o bytes \in Seq(Bytes)
      /\ Len(content(b) \o bytes) = readableBytes(b) + Len(bytes)
      /\ \A i \in 1..(readableBytes(b) + Len(bytes)) : (content(b) \o bytes)[i] =
            IF i <= readableBytes(b) THEN content(b)[i] ELSE bytes[i - readableBytes(b)]
  <2>1. /\ content(b) \o bytes \in Seq(Bytes)
        /\ Len(content(b) \o bytes) = Len(content(b)) + Len(bytes)
        /\ \A i \in 1..(Len(content(b)) + Len(bytes)) : (content(b) \o bytes)[i] =
              IF i <= Len(content(b)) THEN content(b)[i] ELSE bytes[i - Len(content(b))]
    BY <1>5, ConcatProperties
  <2> QED
    BY <1>5, <2>1
<1>7. ASSUME NEW i \in 1..Len(content(c))
      PROVE  content(c)[i] = (content(b) \o bytes)[i]
  <2>1. i \in 1..(readableBytes(b) + Len(bytes)) /\ content(c)[i] = cells[b.reader + i]
    BY <1>3, <1>4, <1>5
  <2>2. b.reader + i \in 1..Len(b.cells) /\ b.reader + i <= b.writer + Len(bytes)
    <3>1. i \in Nat /\ 1 <= i /\ i <= (b.writer - b.reader) + Len(bytes)
      BY <1>1, <2>1 DEF readableBytes
    <3>2. 1 <= b.reader + i /\ b.reader + i <= b.writer + Len(bytes)
      BY <1>1, <3>1
    <3> QED
      BY <1>1, <3>1, <3>2
  <2>3. CASE i <= readableBytes(b)
    <3>1. ~(b.writer < b.reader + i) /\ i \in 1..readableBytes(b)
      BY <1>1, <2>1, <2>3 DEF readableBytes
    <3> QED
      BY <1>2, <1>5, <1>6, <2>1, <2>2, <2>3, <3>1
  <2>4. CASE ~(i <= readableBytes(b))
    <3>1. b.writer < b.reader + i /\ (b.reader + i) - b.writer = i - readableBytes(b)
      BY <1>1, <2>1, <2>4 DEF readableBytes
    <3> QED
      BY <1>2, <1>6, <2>1, <2>2, <2>4, <3>1
  <2> QED
    BY <2>3, <2>4
<1> QED
  BY <1>4, <1>5, <1>6, <1>7, SeqEqual

\* append puts the bytes at the end of the content, moving it or growing the
\* vector where it must, and changes nothing else of it.
THEOREM AppendRight ==
  ASSUME NEW b, BufferOK(b), NEW bytes \in Seq(Bytes)
  PROVE  /\ BufferOK(append(b, bytes))
         /\ content(append(b, bytes)) = content(b) \o bytes
<1> DEFINE e == ensureWritableBytes(b, Len(bytes))
<1>1. Len(bytes) \in Nat
  BY LenProperties
<1>2. BufferOK(e) /\ content(e) = content(b) /\ writableBytes(e) >= Len(bytes)
  BY <1>1, EnsureRight
<1>3. writableBytes(e) \in Nat
  BY <1>2, ContentType
<1>4. append(b, bytes) = Filled(e, bytes)
  BY DEF append, Filled
<1> HIDE DEF e
<1> QED
  BY <1>1, <1>2, <1>3, <1>4, FilledRight

-----------------------------------------------------------------------------
\* The part of more bytes than fit that does fit fills the vector to its end.
LEMMA FilledUp ==
  ASSUME NEW b, BufferOK(b), NEW bytes \in Seq(Bytes), Len(bytes) > writableBytes(b)
  PROVE  [b EXCEPT !.cells = Overwrite(b.cells, b.writer, bytes), !.writer = Len(b.cells)]
            = Filled(b, SubSeq(bytes, 1, writableBytes(b)))
<1> DEFINE w == writableBytes(b)
           front == SubSeq(bytes, 1, w)
<1>1. /\ b.cells \in Seq(Bytes) /\ b.writer \in Nat /\ Len(b.cells) \in Nat
      /\ w \in Nat /\ b.writer + w = Len(b.cells) /\ Len(bytes) \in Nat
  BY ContentType, LenProperties DEF BufferOK, Buffers, writableBytes
<1>2. \A i \in 1..w : bytes[i] \in Bytes
  BY <1>1, ElementOfSeq
<1>3. /\ front \in Seq(Bytes) /\ Len(front) = w
      /\ \A i \in 1..w : front[i] = bytes[i]
  <2>1. /\ front \in Seq(Bytes)
        /\ Len(front) = IF 1 <= w THEN w - 1 + 1 ELSE 0
        /\ \A i \in 1..(w - 1 + 1) : front[i] = bytes[1 + i - 1]
    BY <1>1, <1>2, SubSeqProperties
  <2> QED
    BY <1>1, <2>1
<1>4. ASSUME NEW i \in 1..Len(b.cells)
      PROVE  (IF b.writer < i /\ i <= b.writer + Len(bytes) THEN bytes[i - b.writer] ELSE b.cells[i])
               = (IF b.writer < i /\ i <= b.writer + Len(front) THEN front[i - b.writer] ELSE b.cells[i])
  <2>1. CASE b.writer < i
    <3>1. i - b.writer \in 1..w /\ i <= b.writer + Len(bytes) /\ i <= b.writer + w
      BY <1>1, <2>1
    <3> QED
      BY <1>3, <2>1, <3>1
  <2>2. CASE ~(b.writer < i)
    BY <2>2
  <2> QED
    BY <2>1, <2>2
<1>5. Overwrite(b.cells, b.writer, bytes) = Overwrite(b.cells, b.writer, front)
  BY <1>4 DEF Overwrite
<1>6. b.writer + Len(front) = Len(b.cells)
  BY <1>1, <1>3
<1> QED
  BY <1>5, <1>6 DEF Filled

\* readFd puts everything it receives at the end of the content, also what had to
\* go by way of the second buffer.
THEOREM ReadFdRight ==
  ASSUME NEW b, BufferOK(b), NEW bytes \in Seq(Bytes)
  PROVE  /\ BufferOK(readFd(b, bytes))
         /\ content(readFd(b, bytes)) = content(b) \o bytes
<1> DEFINE w == writableBytes(b)
<1>1. w \in Nat /\ Len(bytes) \in Nat /\ content(b) \in Seq(Bytes)
  BY ContentType, LenProperties
<1>2. CASE Len(bytes) <= w
  <2>1. readFd(b, bytes) = Filled(b, bytes)
    BY <1>2 DEF readFd, Filled
  <2> QED
    BY <1>2, <2>1, FilledRight
<1>3. CASE ~(Len(bytes) <= w)
  <2>0. Len(bytes) > w
    BY <1>1, <1>3
  <2> DEFINE front == SubSeq(bytes, 1, w)
             rest  == SubSeq(bytes, w + 1, Len(bytes))
             full  == [b EXCEPT !.cells = Overwrite(b.cells, b.writer, bytes), !.writer = Len(b.cells)]
  <2>1. readFd(b, bytes) = append(full, rest)
    BY <1>3 DEF readFd
  <2>2. full = Filled(b, front)
    BY <2>0, FilledUp
  <2>3. /\ front \in Seq(Bytes) /\ rest \in Seq(Bytes)
        /\ Len(front) = w /\ Len(rest) = Len(bytes) - w
        /\ \A i \in 1..w : front[i] = bytes[i]
        /\ \A i \in 1..(Len(bytes) - w) : rest[i] = bytes[w + i]
    <3>1. \A i \in 1..Len(bytes) : bytes[i] \in Bytes
      BY ElementOfSeq
    <3>2. /\ front \in Seq(Bytes)
          /\ Len(front) = IF 1 <= w THEN w - 1 + 1 ELSE 0
          /\ \A i \in 1..(w - 1 + 1) : front[i] = bytes[1 + i - 1]
      BY <1>1, <1>3, <3>1, SubSeqProperties
    <3>3. /\ rest \in Seq(Bytes)
          /\ Len(rest) = IF w + 1 <= Len(bytes) THEN Len(bytes) - (w + 1) + 1 ELSE 0
          /\ \A i \in 1..(Len(bytes) - (w + 1) + 1) : rest[i] = bytes[(w + 1) + i - 1]
      BY <1>1, <1>3, <3>1, SubSeqProperties
    <3> QED
      BY <1>1, <1>3, <3>2, <3>3
  <2>4. BufferOK(full) /\ content(full) = content(b) \o front
    <3>1. front \in Seq(Bytes) /\ Len(front) <= writableBytes(b)
      BY <1>1, <2>3
    <3> HIDE DEF front, full
    <3>2. /\ BufferOK(Filled(b, front))
          /\ content(Filled(b, front)) = content(b) \o front
      BY <3>1, FilledRight
    <3> QED
      BY <2>2, <3>2
  <2>5. front \o rest = bytes
    <3>1. /\ front \o rest \in Seq(Bytes)
          /\ Len(front \o rest) = Len(front) + Len(rest)
          /\ \A i \in 1..(Len(front) + Len(rest)) : (front \o rest)[i] =
                IF i <= Len(front) THEN front[i] ELSE rest[i - Len(front)]
      BY <2>3, ConcatProperties
    <3>2. Len(front \o rest) = Len(bytes)
      BY <1>1, <2>3, <3>1
    <3>3. ASSUME NEW i \in 1..Len(front \o rest)
          PROVE  (front \o rest)[i] = bytes[i]
      <4>1. CASE i <= w
        BY <1>1, <2>3, <3>1, <3>2, <4>1
      <4>2. CASE ~(i <= w)
        <5>1. i - w \in 1..(Len(bytes) - w) /\ w + (i - w) = i
          BY <1>1, <3>2, <4>2
        <5> QED
          BY <2>3, <3>1, <4>2, <5>1
      <4> QED
        BY <4>1, <4>2
    <3> QED
      BY <3>1, <3>2, <3>3, SeqEqual
  <2> HIDE DEF full, front, rest
  <2>6. BufferOK(append(full, rest)) /\ content(append(full, rest)) = (content(b) \o front) \o rest
    BY <2>3, <2>4, AppendRight
  <2>7. (content(b) \o front) \o rest = content(b) \o (front \o rest)
    <3>1. content(b) \in Seq(Bytes) /\ front \in Seq(Bytes) /\ rest \in Seq(Bytes)
      BY <1>1, <2>3
    <3> QED
      BY <3>1, ConcatAssociative
  <2> QED
    BY <2>1, <2>5, <2>6, <2>7
<1> QED
  BY <1>2, <1>3

\* prepend puts the bytes in front of the content when they fit there.
THEOREM PrependRight ==
  ASSUME NEW b, BufferOK(b), NEW bytes \in Seq(Bytes), Len(bytes) <= prependableBytes(b)
  PROVE  /\ BufferOK(prepend(b, bytes))
         /\ content(prepend(b, bytes)) = bytes \o content(b)
<1> DEFINE c == prepend(b, bytes)
           cells == Overwrite(b.cells, b.reader - Len(bytes), bytes)
<1>1. /\ b.cells \in Seq(Bytes) /\ b.reader \in Nat /\ b.writer \in Nat
      /\ b.reader <= b.writer /\ b.writer <= Len(b.cells) /\ Len(b.cells) \in Nat
      /\ Len(bytes) \in Nat /\ Len(bytes) <= b.reader
      /\ kCheapPrepend <= Len(b.cells)
  BY LenProperties DEF BufferOK, Buffers, prependableBytes
<1>2. /\ cells \in Seq(Bytes)
      /\ Len(cells) = Len(b.cells)
      /\ \A i \in 1..Len(b.cells) : cells[i] =
            IF b.reader - Len(bytes) < i /\ i <= (b.reader - Len(bytes)) + Len(bytes)
              THEN bytes[i - (b.reader - Len(bytes))] ELSE b.cells[i]
  <2>1. b.reader - Len(bytes) \in Nat
    BY <1>1
  <2> QED
    BY <1>1, <2>1, OverwriteType
<1>3. c.cells = cells /\ c.reader = b.reader - Len(bytes) /\ c.writer = b.writer /\ c \in Buffers
  <2>1. c = [b EXCEPT !.cells = cells, !.reader = b.reader - Len(bytes)]
    BY DEF prepend
  <2>2. b \in Buffers
    BY DEF BufferOK
  <2>3. b.reader - Len(bytes) \in Nat
    BY <1>1
  <2> HIDE DEF c, cells
  <2>4. c.cells = cells /\ c.reader = b.reader - Len(bytes) /\ c.writer = b.writer
    BY <2>1, <2>2 DEF Buffers
  <2>5. c \in Buffers
    BY <1>2, <2>1, <2>2, <2>3 DEF Buffers
  <2> QED
    BY <2>4, <2>5
<1>4. BufferOK(c) /\ readableBytes(c) = Len(bytes) + readableBytes(b)
  BY <1>1, <1>2, <1>3 DEF BufferOK, readableBytes
<1>5. /\ content(b) \in Seq(Bytes) /\ Len(content(b)) = readableBytes(b)
      /\ \A i \in 1..readableBytes(b) : content(b)[i] = b.cells[b.reader + i]
      /\ content(c) \in Seq(Bytes) /\ Len(content(c)) = readableBytes(c)
      /\ \A i \in 1..readableBytes(c) : content(c)[i] = c.cells[c.reader + i]
      /\ readableBytes(b) \in Nat
  BY <1>4, ContentType
<1>6. /\ bytes \o content(b) \in Seq(Bytes)
      /\ Len(bytes \o content(b)) = Len(bytes) + readableBytes(b)
      /\ \A i \in 1..(Len(bytes) + readableBytes(b)) : (bytes \o content(b))[i] =
            IF i <= Len(bytes) THEN bytes[i] ELSE content(b)[i - Len(bytes)]
  <2>1. /\ bytes \o content(b) \in Seq(Bytes)
        /\ Len(bytes \o content(b)) = Len(bytes) + Len(content(b))
        /\ \A i \in 1..(Len(bytes) + Len(content(b))) : (bytes \o content(b))[i] =
              IF i <= Len(bytes) THEN bytes[i] ELSE content(b)[i - Len(bytes)]
    BY <1>5, ConcatProperties
  <2> QED
    BY <1>5, <2>1
<1>7. ASSUME NEW i \in 1..Len(content(c))
      PROVE  content(c)[i] = (bytes \o content(b))[i]
  <2> DEFINE j == (b.reader - Len(bytes)) + i
  <2>1. i \in 1..(Len(bytes) + readableBytes(b)) /\ content(c)[i] = cells[j]
    BY <1>3, <1>4, <1>5
  <2>2. /\ j \in 1..Len(b.cells) /\ b.reader - Len(bytes) < j
        /\ j - (b.reader - Len(bytes)) = i
        /\ j <= (b.reader - Len(bytes)) + Len(bytes) <=> i <= Len(bytes)
    <3>1. i \in 1..(Len(bytes) + (b.writer - b.reader))
      BY <2>1 DEF readableBytes
    <3>2. i \in Nat /\ 1 <= i /\ i <= Len(bytes) + (b.writer - b.reader)
      BY <1>1, <3>1
    <3>3. j \in Int /\ b.reader - Len(bytes) < j /\ j - (b.reader - Len(bytes)) = i
      BY <1>1, <3>2
    <3>4. 1 <= j /\ j <= b.writer
      BY <1>1, <3>2
    <3>5. j <= (b.reader - Len(bytes)) + Len(bytes) <=> i <= Len(bytes)
      BY <1>1, <3>2
    <3> QED
      BY <1>1, <3>3, <3>4, <3>5
  <2>3. CASE i <= Len(bytes)
    <3> HIDE DEF j, cells
    <3> QED
      BY <1>2, <1>6, <2>1, <2>2, <2>3
  <2>4. CASE ~(i <= Len(bytes))
    <3>1. i - Len(bytes) \in 1..readableBytes(b) /\ b.reader + (i - Len(bytes)) = j
      BY <1>1, <1>5, <2>1, <2>4
    <3> HIDE DEF j, cells
    <3> QED
      BY <1>2, <1>5, <1>6, <2>1, <2>2, <2>4, <3>1
  <2> QED
    BY <2>3, <2>4
<1> QED
  BY <1>4, <1>5, <1>6, <1>7, SeqEqual
=============================================================================
