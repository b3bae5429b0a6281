------------------------------ MODULE DBPages ------------------------------
(***************************************************************************)
(* Caplets written into database pages and read back                       *)
(* (db/DBPageManager.java, db/Page.java, db/PageHeader.java).              *)
(*                                                                         *)
(* A DB worker packs caplets into the pages of a message.  A caplet that   *)
(* does not fit is split: its header and the first bytes of its payload    *)
(* fill the page, the rest opens the next one, which may belong to the     *)
(* next message.  A page ends with its header, which says how many caplets *)
(* start in the page and where the first does.  Full messages become the   *)
(* file; the reader gets them back one read at a time, as many pages as a  *)
(* message has, and puts the caplets of each read into a message.  It is   *)
(* not always able to: an assertion on a page's header can fail, and a     *)
(* message has room for a fixed number of caplets.                         *)
(*                                                                         *)
(* Memory is a sequence of cells, one per unit of size; the first cell of  *)
(* a field carries its value.                                              *)
(***************************************************************************)
EXTENDS Integers, FiniteSets, SequencesExt

CONSTANTS
  PageSize,     \* GLOBAL_CONSTANTS.DB_PAGE_SIZE
  PageHeader,   \* PageHeader.getPackedBufferSize
  CapHeader,    \* CapletHeader.getPackedBufferSize
  IntSize,      \* GLOBAL_CONSTANTS.INT_SIZE
  MaxPages,     \* GLOBAL_CONSTANTS.MAX_DB_PAGES_PER_IO: pages of a message, and of a read
  CapletsPerMsg,\* caplets that a caplet message has objects for (KB = 1024 in the code)
  Sizes,        \* lengths of payloads
  MaxCaplets    \* bound: caplets of a session

Packed(len) == CapHeader + IntSize + len

Room == PageSize - PageHeader

\* A packet is at most 64 KB, a page 2 MB: no caplet spans three pages, and one
\* that is split is never the first of its page.
ASSUME PageAssumption ==
  /\ {PageSize, PageHeader, CapHeader, IntSize, MaxPages, CapletsPerMsg} \subseteq Nat \ {0}
  /\ PageHeader < PageSize
  /\ Sizes \subseteq Nat
  /\ \A len \in Sizes : 2 * Packed(len) <= Room

VARIABLES
  pc,        \* "idle", "pack" (inside addCaplet), "closed" (written), "page" (reading), "done",
             \* "dead" (the reading worker died), "failed" (the client was sent MSG_FAIL)
  written,   \* lengths of the caplets added so far
  offset,    \* cft.offset of the caplet being added: its bytes already packed
  appender,  \* cft.pageAppenderLen
  page,      \* pages of the message taken so far
  used,      \* Page.currentUsedSpace
  ph,        \* PageHeader of the current page: id is the offset, n the caplets that start in it
  bytes,     \* what the packer has put in the message: its length is the local offset
  cur,       \* current offset of the message's memory block: the records finished so far
  ret,       \* the full message that addCaplet will return, <<>> if none
  file,      \* what the I/O worker has written
  asserts,   \* TRUE if the program runs with assertions enabled
  reads,     \* reads made
  buf,       \* buffer of the read
  pos,       \* position of the unpacker in it
  base,      \* current offset of the buffer: start of the page being read
  left,      \* caplets of the page still to be read in full
  pending,   \* pendingCaplet
  mem,       \* memory of the caplet message being filled
  taken,     \* caplet objects in use in the caplet message being filled
  got        \* caplets read into caplet messages

writer == <<written, offset, appender, page, used, ph, bytes, cur, ret, file>>
reader == <<asserts, reads, buf, pos, base, left, pending, mem, taken, got>>
vars == <<pc, writer, reader>>

-----------------------------------------------------------------------------
(* Cells and headers *)

Cell(kind, id, n) == [kind |-> kind, id |-> id, n |-> n, flags |-> {}]

Filler(n) == [i \in 1..n |-> Cell("filler", 0, 0)]

Field(cell, size) == <<cell>> \o Filler(size - 1)

Payload(id, from, n) == [i \in 1..n |-> Cell("payload", id, from + i)]

\* PageHeader.reset: an offset of -1 and no caplets.
NoHeader == [kind |-> "page", id |-> -1, n |-> 0, flags |-> {}]

\* offsetFlagIndicator holds flags and offset in one int: in -1 every flag is set.
Flagged(h, f) == h.id < 0 \/ f \in h.flags

\* A caplet read in part: number, length, and length of that part.
NoCaplet == [id |-> 0, len |-> 0, part |-> 0]

Free == Room - used

\* addPageHeader: filler up to the header, and the header.
PageEnd(h, free) == Filler(free) \o Field(h, PageHeader)

-----------------------------------------------------------------------------
(* Writing *)

Init ==
  /\ pc = "idle" /\ written = <<>> /\ offset = 0 /\ appender = 0
  /\ page = 1 /\ used = 0 /\ ph = NoHeader
  /\ bytes = <<>> /\ cur = 0 /\ ret = <<>> /\ file = <<>>
  /\ asserts \in BOOLEAN
  /\ reads = 0 /\ buf = Filler(MaxPages * PageSize) /\ pos = 0 /\ base = 0 /\ left = 0
  /\ pending = NoCaplet /\ mem = <<>> /\ taken = 0 /\ got = <<>>

AddCaplet(len) ==
  /\ pc = "idle" /\ Len(written) < MaxCaplets
  /\ written' = Append(written, len)
  /\ offset' = 0 /\ appender' = 0
  /\ pc' = "pack"
  /\ UNCHANGED <<page, used, ph, bytes, cur, ret, file, reader>>

Id == Len(written)

Length == written[Id]

\* A page is over, with b in the message and the records up to c finished.
NextPage(b, c) ==
  /\ ph' = NoHeader /\ used' = 0
  /\ IF page < MaxPages
     THEN page' = page + 1 /\ bytes' = b /\ cur' = c /\ UNCHANGED ret
     ELSE page' = 1 /\ bytes' = <<>> /\ cur' = 0
          /\ ret' = SubSeq(b, 1, c + offset' + appender')
  /\ UNCHANGED <<pc, written, file, reader>>

\* The caplet's own header does not fit: the page ends without it.
Skip ==
  /\ pc = "pack" /\ offset = 0
  /\ Free < Packed(Length) /\ Free < CapHeader + 2 * IntSize
  /\ UNCHANGED <<offset, appender>>
  /\ NextPage(bytes \o PageEnd(ph, Free), cur + Free + PageHeader)

\* The flag says that the page's last caplet goes on in the next page.  In a page
\* without an offset it would be lost, but no caplet splits there (PageAssumption).
SplitHeaderUncounted == [ph EXCEPT !.flags = @ \cup {"spilled"}]

SplitHeader == [ph EXCEPT !.flags = @ \cup {"spilled"}, !.n = @ + 1]

\* What fits of a caplet, then the page's header.
Split ==
  /\ pc = "pack" /\ offset = 0
  /\ Free < Packed(Length) /\ Free >= CapHeader + 2 * IntSize
  /\ offset' = Free /\ appender' = PageHeader
  /\ LET part == Free - CapHeader - IntSize IN
     NextPage(bytes \o Field(Cell("caplet", Id, Length), CapHeader)
                    \o Field(Cell("length", 0, part), IntSize)
                    \o Payload(Id, 0, part) \o PageEnd(SplitHeader, 0), cur)

\* addCaplet returns; its caller sends the full message to the I/O worker.
Return ==
  /\ pc' = "idle"
  /\ file' = file \o ret /\ ret' = <<>>
  /\ UNCHANGED <<written, appender, page, reader>>

\* The record to finish: the whole caplet with the page's end in between, or
\* only the rest in a new message.
RestRecord(rest) == IF cur = 0 THEN rest ELSE Packed(Length) + appender

\* The rest of a split caplet.
Rest ==
  /\ pc = "pack" /\ offset > 0
  /\ LET rest == Packed(Length) - offset IN
     /\ Free >= rest
     /\ bytes' = bytes \o Payload(Id, offset - CapHeader - IntSize, rest)
     /\ used' = used + rest
     /\ cur' = cur + RestRecord(rest)
  /\ offset' = Packed(Length)
  /\ UNCHANGED ph
  /\ Return

\* A caplet that fits.  The first one of a page sets the page's offset, counted
\* from the start of the message.
Whole ==
  /\ pc = "pack" /\ offset = 0 /\ Free >= Packed(Length)
  /\ bytes' = bytes \o Field(Cell("caplet", Id, Length), CapHeader)
                    \o Field(Cell("length", 0, Length), IntSize) \o Payload(Id, 0, Length)
  /\ used' = used + Packed(Length)
  /\ cur' = cur + Packed(Length) + appender
  /\ offset' = Packed(Length)
  /\ ph' = [ph EXCEPT !.n = @ + 1, !.id = IF @ < 0 THEN Len(bytes) ELSE @]
  /\ Return

\* finishWritingCaplets, and the last message sent.
FinishWritingCaplets ==
  /\ pc = "idle"
  /\ LET b == bytes \o PageEnd([ph EXCEPT !.flags = @ \cup {"last"}], Free) IN
     file' = file \o SubSeq(b, 1, cur + (PageSize - (cur % PageSize)))
  /\ pc' = "closed"
  /\ UNCHANGED <<written, offset, appender, page, used, ph, bytes, cur, ret, reader>>
-----------------------------------------------------------------------------
(* Reading *)

BufSize == MaxPages * PageSize

\* The next pages of the file; a short read leaves the rest of the buffer as it was.
Chunk == SubSeq(file, reads * BufSize + 1,
                IF (reads + 1) * BufSize < Len(file) THEN (reads + 1) * BufSize ELSE Len(file))

NewBuf == Chunk \o SubSeq(buf, Len(Chunk) + 1, BufSize)

\* extractPageHeader: the header is at the end of the page.
HeaderAt(b, at) == b[at + Room + 1]

\* The caplets that the loop is to read in full from a page.  It is below 0 for
\* one header only: the NoHeader of a last page in which no caplet starts.
Starts(h) == h.n - (IF Flagged(h, "spilled") THEN 1 ELSE 0)

\* A caplet whose bytes are at the end of the caplet message's memory m.  Its
\* payload is what CRPString returns: len bytes from the string's offset off.
Caplet(id, len, m, off, split) ==
  [id |-> id, len |-> len, split |-> split,
   stored |-> SubSeq(m, Len(m) - len + 1, Len(m)), payload |-> SubSeq(m, off + 1, off + len)]

RestSizeWhole(c) == c.len

RestSize(c) == c.len - c.part

\* The rest of the pending caplet, the first thing in the buffer.
ReadPending ==
  LET m == mem \o SubSeq(NewBuf, 1, RestSize(pending)) IN
  /\ pending # NoCaplet
  /\ mem' = m
  /\ got' = Append(got, Caplet(pending.id, pending.len, m, 0, FALSE))
  /\ pos' = RestSize(pending)
  /\ left' = Starts(HeaderAt(NewBuf, 0))

\* The first caplet of the buffer is where the page's header says, and in the
\* last page at its start.
ReadFirst ==
  LET h == HeaderAt(NewBuf, 0) IN
  /\ pending = NoCaplet
  /\ IF Flagged(h, "last") THEN pos' = 0 /\ left' = h.n ELSE pos' = h.id /\ left' = Starts(h)
  /\ UNCHANGED <<mem, got>>

\* A request for the next pages, answered by the I/O worker.  A first page that is
\* not the last has caplets that start in it or the rest of the pending one, so the
\* return for a page with zero records is never taken.
Read ==
  /\ pc = "closed" /\ Chunk # <<>>
  /\ ReadPending \/ ReadFirst
  /\ reads' = reads + 1 /\ buf' = NewBuf /\ base' = 0
  /\ pc' = "page"
  /\ UNCHANGED <<asserts, pending, taken, writer>>

EndOfData ==
  /\ pc = "closed" /\ Chunk = <<>>
  /\ pc' = "done"
  /\ UNCHANGED <<writer, reader>>

\* At the position: a caplet's header, the length of what follows of its payload
\* in this page, and those bytes.
Start == buf[pos + 1]

Part == buf[pos + CapHeader + 1].n

PartBytes == SubSeq(buf, pos + CapHeader + IntSize + 1, pos + Packed(Part))

\* The next object of the caplet message's memory.
TakeObject == taken < CapletsPerMsg /\ taken' = taken + 1

ReadCaplet ==
  LET m == mem \o PartBytes IN
  /\ pc = "page" /\ left > 0
  /\ TakeObject
  /\ mem' = m
  /\ got' = Append(got, Caplet(Start.id, Part, m, Len(mem), FALSE))
  /\ pos' = pos + Packed(Part)
  /\ left' = left - 1
  /\ UNCHANGED <<pc, asserts, reads, buf, base, pending, writer>>

Header == HeaderAt(buf, base)

\* isCapletSpilledToNextPage, the first thing in the loop for every page, asserts
\* that the header has an offset.  The worker catches exceptions, not this error.
Unasserted == asserts /\ left < 0

SpillAssert ==
  /\ pc = "page" /\ Unasserted
  /\ pc' = "dead"
  /\ UNCHANGED <<writer, reader>>

LastPage ==
  /\ pc = "page" /\ left <= 0 /\ ~Unasserted /\ Flagged(Header, "last")
  /\ pc' = "closed"
  /\ UNCHANGED <<writer, reader>>

MoreReadings == pc = "page" /\ left <= 0 /\ ~Flagged(Header, "last")

ToPage(at) == base' = at /\ left' = Starts(HeaderAt(buf, at))

\* Mutant: the objects of the caplet message before are not given back.
MoveToNextDBPageUnreset ==
  /\ MoreReadings /\ ~Flagged(Header, "spilled")
  /\ IF base + PageSize = BufSize
     THEN pc' = "closed" /\ mem' = <<>> /\ pending' = NoCaplet /\ UNCHANGED <<pos, base, left>>
     ELSE ToPage(base + PageSize) /\ pos' = base + PageSize /\ UNCHANGED <<pc, mem, pending>>
  /\ UNCHANGED <<asserts, reads, buf, taken, got, writer>>

\* The next page, or the end of the buffer and a new caplet message.
MoveToNextDBPage ==
  /\ MoreReadings /\ ~Flagged(Header, "spilled")
  /\ IF base + PageSize = BufSize
     THEN pc' = "closed" /\ mem' = <<>> /\ taken' = 0 /\ pending' = NoCaplet
          /\ UNCHANGED <<pos, base, left>>
     ELSE ToPage(base + PageSize) /\ pos' = base + PageSize /\ UNCHANGED <<pc, mem, taken, pending>>
  /\ UNCHANGED <<asserts, reads, buf, got, writer>>

SplitInBuffer == MoreReadings /\ Flagged(Header, "spilled") /\ BufSize - base > PageSize

\* A caplet split between two pages of the buffer.  unpackPartial does not set
\* the string's offset: it stays 0, the start of the caplet message.
ReadSplit ==
  LET next == base + PageSize
      rest == Start.n - Part
      m == mem \o PartBytes \o SubSeq(buf, next + 1, next + rest) IN
  /\ SplitInBuffer
  /\ TakeObject
  /\ mem' = m
  /\ got' = Append(got, Caplet(Start.id, Start.n, m, 0, TRUE))
  /\ pos' = next + rest
  /\ ToPage(next)
  /\ UNCHANGED <<pc, asserts, reads, buf, pending, writer>>

\* A caplet that goes on in the next read: its part opens a new caplet message.
ReadPart ==
  /\ MoreReadings /\ Flagged(Header, "spilled") /\ BufSize - base <= PageSize
  /\ mem' = PartBytes /\ taken' = 1
  /\ pending' = [id |-> Start.id, len |-> Start.n, part |-> Part]
  /\ pc' = "closed"
  /\ UNCHANGED <<asserts, reads, buf, pos, base, left, got, writer>>

\* The message has no object left: getNextAvailableCaplet resets the null it got,
\* before its caller looks at it.  The worker catches that; the client, which is
\* sent MSG_FAIL instead of the message, asks no more.
NoObjectLeft ==
  /\ pc = "page" /\ taken = CapletsPerMsg
  /\ left > 0 \/ SplitInBuffer
  /\ pc' = "failed"
  /\ UNCHANGED <<writer, reader>>

-----------------------------------------------------------------------------
Write == (\E len \in Sizes : AddCaplet(len)) \/ Skip \/ Split \/ Rest \/ Whole \/ FinishWritingCaplets

ReadBuffer ==
  \/ Read \/ EndOfData \/ ReadCaplet \/ LastPage \/ MoveToNextDBPage \/ ReadSplit \/ ReadPart
  \/ SpillAssert \/ NoObjectLeft

Next == Write \/ ReadBuffer

\* The client asks until it is told that there is no more; the workers answer.
Spec == Init /\ [][Next]_vars /\ WF_vars(ReadBuffer)

-----------------------------------------------------------------------------
(* Properties *)

Pages == 1..(Len(file) \div PageSize)

CellsOf(j) == ((j - 1) * PageSize + 1)..(j * PageSize)

\* Where the caplets of page j start, and the message that the page is in.
StartsIn(j) == {i \in CellsOf(j) : file[i].kind = "caplet"}

MessageOf(j) == ((j - 1) \div MaxPages) * BufSize

\* Page.addCaplet and finishWritingRecord: the file is made of whole pages, and
\* each header, found at the end of its page, tells the truth: how many caplets
\* start in the page, where the first does, whether the last one goes on in the
\* next page and whether there is one.
HeadersExact ==
  /\ Len(file) % PageSize = 0
  /\ \A j \in Pages :
       LET h == HeaderAt(file, (j - 1) * PageSize) IN
       /\ h.kind = "page"
       /\ h.n = Cardinality(StartsIn(j))
       /\ h.n > 0 => /\ MessageOf(j) + h.id + 1 \in StartsIn(j)
                     /\ \A i \in StartsIn(j) : MessageOf(j) + h.id + 1 <= i
       /\ j + 1 \in Pages =>
            Flagged(h, "spilled") = (file[j * PageSize + 1].kind = "payload")
       /\ Flagged(h, "last") = (pc \notin {"idle", "pack"} /\ j + 1 \notin Pages)

\* readNextCapletsIntoMsg: caplets come back in the order they were written, with
\* their lengths and their bytes.  One split between two pages of a read has its
\* bytes in the message, but its payload is taken from the message's start.  When
\* the client is told that there is no more, it has them all.
ReadBack ==
  /\ \A k \in 1..Len(got) :
       /\ got[k].id = k /\ k <= Len(written) /\ got[k].len = written[k]
       /\ got[k].stored = Payload(k, 0, written[k])
       /\ ~got[k].split => got[k].payload = got[k].stored
  /\ pc = "done" => Len(got) = Len(written)

\* The caplets that end in read r, or start there and are still pending at its end.
TakenIn(r) ==
  LET from == (r - 1) * BufSize + 1
      to == r * BufSize
      CutAt(i) == i \in DOMAIN file /\ file[i].kind = "payload"
  IN  Cardinality({i \in DOMAIN file : i \in from..to /\ file[i].kind = "caplet"})
        + (IF CutAt(from) THEN 1 ELSE 0) - (IF CutAt(to + 1) THEN 1 ELSE 0)

\* The reader's limits: the caplets of every read have objects in their message, and
\* with assertions a caplet starts in the last page, unless there is none at all.
Readable ==
  /\ \A r \in 1..(Len(file) \div BufSize + 1) : TakenIn(r) <= CapletsPerMsg
  /\ asserts /\ written # <<>> => StartsIn(Len(file) \div PageSize) # {}

\* readNextCapletsIntoMsg: the reads of a closed session whose file is within the
\* reader's limits end, and nothing that was written is missing.
AllRead == pc = "closed" /\ Readable ~> pc = "done" /\ Len(got) = Len(written)
=============================================================================
