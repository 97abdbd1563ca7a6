------------------------------- MODULE Buffer -------------------------------
(***************************************************************************)
(* Buffer: a vector of bytes with a reader and a writer index; what lies   *)
(* between them is the content.  New content goes behind the writer index, *)
(* and when there is no room either the content moves to the front or the  *)
(* vector grows.  The operators are the member functions, of a buffer b    *)
(* that the function changes; indices count from 0, sequences from 1.      *)
(***************************************************************************)
EXTENDS Integers, Sequences

CONSTANTS
    Bytes,          \* what a byte can be
    kCheapPrepend   \* space kept in front of the content

ASSUME BufferConstants == 0 \in Bytes /\ kCheapPrepend \in Nat

Buffers == [cells : Seq(Bytes), reader : Nat, writer : Nat]

\* 0 <= readerIndex <= writerIndex <= size, as the comment of the class draws it,
\* and room for the prefix.
BufferOK(b) ==
    /\ b \in Buffers
    /\ b.reader <= b.writer
    /\ b.writer <= Len(b.cells)
    /\ kCheapPrepend <= Len(b.cells)

readableBytes(b)    == b.writer - b.reader
writableBytes(b)    == Len(b.cells) - b.writer
prependableBytes(b) == b.reader

\* What the user sees: readableBytes() bytes from peek() on.
content(b) == [i \in 1..readableBytes(b) |-> b.cells[b.reader + i]]

\* The constructor.
NewBuffer(initialSize) ==
    [cells  |-> [i \in 1..(kCheapPrepend + initialSize) |-> 0],
     reader |-> kCheapPrepend,
     writer |-> kCheapPrepend]

\* std::copy of bytes to cells from index at on.
Overwrite(cells, at, bytes) ==
    [i \in 1..Len(cells) |->
        IF at < i /\ i <= at + Len(bytes) THEN bytes[i - at] ELSE cells[i]]

\* std::vector::resize, to a size that is not smaller.
Resize(cells, size) == [i \in 1..size |-> IF i <= Len(cells) THEN cells[i] ELSE 0]

retrieveAll(b) == [b EXCEPT !.reader = kCheapPrepend, !.writer = kCheapPrepend]

retrieve(b, len) ==
    IF len < readableBytes(b) THEN [b EXCEPT !.reader = @ + len] ELSE retrieveAll(b)

\* Faulty variant: the space kept in front is not counted.
makeSpace_UsesPrefix(b, len) ==
    IF writableBytes(b) + prependableBytes(b) < len
      THEN [b EXCEPT !.cells = Resize(@, b.writer + len)]
      ELSE [cells  |-> Overwrite(b.cells, kCheapPrepend, content(b)),
            reader |-> kCheapPrepend,
            writer |-> kCheapPrepend + readableBytes(b)]

makeSpace(b, len) ==
    IF writableBytes(b) + prependableBytes(b) < len + kCheapPrepend
      THEN [b EXCEPT !.cells = Resize(@, b.writer + len)]
      ELSE [cells  |-> Overwrite(b.cells, kCheapPrepend, content(b)),
            reader |-> kCheapPrepend,
            writer |-> kCheapPrepend + readableBytes(b)]

ensureWritableBytes(b, len) == IF writableBytes(b) < len THEN makeSpace(b, len) ELSE b

append(b, bytes) ==
    LET e == ensureWritableBytes(b, Len(bytes)) IN
    [e EXCEPT !.cells  = Overwrite(@, e.writer, bytes),
              !.writer = @ + Len(bytes)]

\* For len(bytes) <= prependableBytes(b).
prepend(b, bytes) ==
    [b EXCEPT !.cells  = Overwrite(@, b.reader - Len(bytes), bytes),
              !.reader = @ - Len(bytes)]

\* readFd, when the socket has bytes: what does not fit behind the writer index
\* goes to a second buffer on the stack and is appended.
readFd(b, bytes) ==
    LET writable == writableBytes(b)
        filled   == Overwrite(b.cells, b.writer, bytes)
    IN  IF Len(bytes) <= writable
          THEN [b EXCEPT !.cells = filled, !.writer = @ + Len(bytes)]
          ELSE append([b EXCEPT !.cells = filled, !.writer = Len(b.cells)],
                      SubSeq(bytes, writable + 1, Len(bytes)))
=============================================================================
