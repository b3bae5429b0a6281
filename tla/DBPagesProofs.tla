--------------------------- MODULE DBPagesProofs ---------------------------
(***************************************************************************)
(* The headers of the pages that DBPages writes tell the truth, and the    *)
(* reader gets back what was written.                                      *)
(*                                                                         *)
(* HeadersExact is about the file.  The invariant is about everything      *)
(* packed so far, Made: the file, the full message that is about to be     *)
(* sent, and the message being filled.  The pages of Made that are over    *)
(* say what is in them, and whether the caplet that goes on in the next    *)
(* page has its rest there or, at the end of Made, still to come; the      *)
(* header of the open page is right for what is in the page already.       *)
(* Placed says where the packer is: without it nothing would make a record *)
(* end where the message's offset says, or a page where its header is.     *)
(*                                                                         *)
(* ReadBack needs to know where each caplet is (Laid): caplet k is the     *)
(* k-th that starts, behind it the next one starts or none does in its     *)
(* page, and the rest of one that is split opens the next page.  The       *)
(* reader is at a cell of the file (Reads), with the caplets that start    *)
(* before it in its hands and the number of those to come in the page;     *)
(* between two reads it is at the start of a page (NextRead).              *)
(***************************************************************************)
EXTENDS DBPages, SequenceTheorems, FiniteSetTheorems, TLAPS

Kinds == {"filler", "caplet", "length", "payload", "page"}

Cells == [kind : Kinds, id : Int, n : Nat, flags : SUBSET {"spilled", "last"}]

Typed ==
  /\ pc \in {"idle", "pack", "closed", "page", "done", "dead", "failed"}
  /\ written \in Seq(Sizes) /\ (pc = "pack" => written # << >>)
  /\ offset \in Nat /\ appender \in Nat /\ cur \in Nat
  /\ page \in 1 .. MaxPages /\ used \in 0 .. Room
  /\ ph \in Cells
  /\ bytes \in Seq(Cells) /\ ret \in Seq(Cells) /\ file \in Seq(Cells)

Writing == pc \in {"idle", "pack"}

\* A caplet is split, its rest not yet packed.
Mid == pc = "pack" /\ offset > 0

\* What was packed so far.
Out == file \o ret
Made == Out \o bytes

Placed ==
  /\ Len(bytes) = (page - 1) * PageSize + used
  /\ \E k \in Nat : Len(file) = k * BufSize
  /\ ret # << >> => Len(ret) = BufSize /\ pc = "pack" /\ used = 0 /\ page = 1
  /\ ~Mid => cur = Len(bytes)
  /\ pc = "pack" /\ offset = 0 => appender = 0
  /\ Mid => /\ used = 0 /\ appender = PageHeader
            /\ CapHeader + IntSize <= offset /\ offset < Packed(Length)
            /\ page = 1 => cur = 0
            /\ page # 1 => cur > 0 /\ cur + offset + appender = Len(bytes)
  /\ ph.n = 0 => 2 * used < Room

\* The starts of caplets among the cells of s from a + 1 to b.
StartsOf(s, a, b) == {i \in a + 1 .. b : s[i].kind = "caplet"}

\* h says how many caplets start there, and where the first does, counted from m.
Tells(h, st, m) ==
  /\ h.kind = "page" /\ h.n = Cardinality(st)
  /\ h.n > 0 => h.id >= 0 /\ m + h.id + 1 \in st /\ \A i \in st : m + h.id + 1 <= i

\* A page that is not the last one.
Headed(s, a, m) ==
  /\ Tells(HeaderAt(s, a), StartsOf(s, a, a + PageSize), m)
  /\ HeaderAt(s, a).n > 0 /\ "last" \notin HeaderAt(s, a).flags

\* The flag of the page from a on says how the next one begins.
Spills(s, a, mid) ==
  ("spilled" \in HeaderAt(s, a).flags)
    <=> IF a + PageSize < Len(s) THEN s[a + PageSize + 1].kind = "payload" ELSE mid

\* All pages of s that are over.
Full(s, mid) ==
  \A j \in Nat \ {0} : j * PageSize <= Len(s) =>
    Headed(s, (j - 1) * PageSize, MessageOf(j)) /\ Spills(s, (j - 1) * PageSize, mid)

FullPages == Full(Made, Mid)

OpenPage ==
  /\ Tells(ph, StartsOf(Made, Len(Made) - used, Len(Made)), Len(Out))
  /\ ph.flags = {} /\ (ph.n = 0 => ph.id < 0)

WInv == Typed /\ (Writing => Placed /\ FullPages /\ OpenPage) /\ (~Writing => HeadersExact)

-----------------------------------------------------------------------------
(* Numbers.                                                                *)

\* What the constants are.
LEMMA Numbers ==
  /\ PageSize \in Nat /\ PageHeader \in Nat /\ CapHeader \in Nat /\ IntSize \in Nat /\ MaxPages \in Nat
  /\ PageSize >= 1 /\ PageHeader >= 1 /\ CapHeader >= 1 /\ IntSize >= 1 /\ MaxPages >= 1
  /\ Room \in Nat /\ Room >= 1 /\ Room + PageHeader = PageSize
  /\ BufSize = MaxPages * PageSize /\ BufSize \in Nat
  /\ \A len \in Sizes : len \in Nat /\ Packed(len) = CapHeader + IntSize + len /\ 2 * Packed(len) <= Room
<1>1. /\ PageSize \in Nat \ {0} /\ PageHeader \in Nat \ {0} /\ CapHeader \in Nat \ {0}
      /\ IntSize \in Nat \ {0} /\ MaxPages \in Nat \ {0} /\ PageHeader < PageSize
      /\ Sizes \subseteq Nat /\ \A len \in Sizes : 2 * Packed(len) <= Room
  BY PageAssumption
<1>2. Room \in Nat /\ Room >= 1 /\ Room + PageHeader = PageSize
  BY <1>1 DEF Room
<1>3. \A p \in Nat, q \in Nat : p * q \in Nat
  OBVIOUS
<1>4. BufSize = MaxPages * PageSize /\ BufSize \in Nat
  BY <1>1, <1>3 DEF BufSize
<1> QED BY <1>1, <1>2, <1>4 DEF Packed

\* More pages are longer.
LEMMA MoreIsLonger ==
  ASSUME NEW p \in Nat, NEW i \in Int, NEW j \in Int, i < j
  PROVE  i * p \in Int /\ j * p \in Int /\ i * p + p <= j * p
<1>1. j = (i + 1) + (j - (i + 1)) /\ j - (i + 1) \in Nat
  OBVIOUS
<1>2. PICK d \in Nat : j = (i + 1) + d
  BY <1>1
<1>3. j * p = i * p + p + d * p
  BY <1>2
<1>4. d * p \in Nat
  OBVIOUS
<1>5. i * p \in Int /\ j * p \in Int
  OBVIOUS
<1> QED BY <1>3, <1>4, <1>5

\* A page that ends before the end of page n is one of those before n.
LEMMA WithinPages ==
  ASSUME NEW j \in Nat, NEW n \in Nat, NEW u \in Nat, u < PageSize, j * PageSize <= n * PageSize + u
  PROVE  j <= n
<1> SUFFICES ASSUME n < j PROVE FALSE
  OBVIOUS
<1>1. n * PageSize \in Int /\ j * PageSize \in Int /\ n * PageSize + PageSize <= j * PageSize
  BY Numbers, MoreIsLonger
<1> QED BY <1>1, Numbers

\* Division of multiples.
LEMMA Divides ==
  ASSUME NEW k \in Nat, NEW r \in Nat, NEW p \in Nat, r < p
  PROVE  (k * p + r) \div p = k /\ (k * p + r) % p = r
<1>1. PICK n \in Nat : n = k * p + r
  <2>1. k * p \in Nat
    OBVIOUS
  <2> QED BY <2>1
<1>2. PICK q \in Int, m \in 0 .. p - 1 : n = q * p + m /\ q = n \div p /\ m = n % p
  <2>1. n = (n \div p) * p + (n % p) /\ n \div p \in Int /\ n % p \in 0 .. p - 1
    OBVIOUS
  <2> QED BY <2>1
<1>3. k * p + r = q * p + m
  BY <1>1, <1>2
<1>4. ~(q < k)
  <2> SUFFICES ASSUME q < k PROVE FALSE
    OBVIOUS
  <2>1. q * p \in Int /\ k * p \in Int /\ q * p + p <= k * p
    BY MoreIsLonger
  <2> QED BY <1>3, <2>1
<1>5. ~(k < q)
  <2> SUFFICES ASSUME k < q PROVE FALSE
    OBVIOUS
  <2>1. q * p \in Int /\ k * p \in Int /\ k * p + p <= q * p
    BY MoreIsLonger
  <2> QED BY <1>3, <2>1
<1>6. q = k
  BY <1>4, <1>5
<1>7. m = r
  BY <1>3, <1>6
<1> QED BY <1>1, <1>2, <1>6, <1>7

\* The message of a page, and where the page starts.
LEMMA PageOfMessage ==
  ASSUME NEW k \in Nat, NEW q \in 1 .. MaxPages
  PROVE  /\ k * MaxPages + q \in Nat \ {0}
         /\ MessageOf(k * MaxPages + q) = k * BufSize /\ k * BufSize \in Nat
         /\ (k * MaxPages + q - 1) * PageSize = k * BufSize + (q - 1) * PageSize
         /\ (q - 1) * PageSize \in Nat
<1>1. MaxPages \in Nat /\ PageSize \in Nat /\ BufSize = MaxPages * PageSize /\ BufSize \in Nat
  BY Numbers
<1>2. k * MaxPages \in Nat /\ k * BufSize \in Nat /\ q - 1 \in Nat /\ q - 1 < MaxPages
  BY <1>1
<1>3. (k * MaxPages + (q - 1)) \div MaxPages = k
  BY <1>1, <1>2, Divides
<1>4. (k * MaxPages + q) - 1 = k * MaxPages + (q - 1)
  BY <1>1, <1>2
<1>5. MessageOf(k * MaxPages + q) = k * BufSize
  BY <1>3, <1>4 DEF MessageOf
<1>6. (k * MaxPages + (q - 1)) * PageSize = k * (MaxPages * PageSize) + (q - 1) * PageSize
  <2>1. \A x, y, z \in Int : (x + y) * z = x * z + y * z
    OBVIOUS
  <2>2. \A x, y, z \in Int : (x * y) * z = x * (y * z)
    OBVIOUS
  <2>3. (k * MaxPages + (q - 1)) * PageSize = (k * MaxPages) * PageSize + (q - 1) * PageSize
    BY <1>1, <1>2, <2>1
  <2> QED BY <1>1, <2>2, <2>3
<1>7. (q - 1) * PageSize \in Nat
  BY <1>1, <1>2
<1> QED BY <1>1, <1>2, <1>4, <1>5, <1>6, <1>7

-----------------------------------------------------------------------------
(* Cells.                                                                  *)

\* What is in a concatenation.
LEMMA Joins ==
  ASSUME NEW T, NEW s \in Seq(T), NEW t \in Seq(T)
  PROVE  /\ s \o t \in Seq(T) /\ Len(s) \in Nat /\ Len(t) \in Nat /\ Len(s \o t) = Len(s) + Len(t)
         /\ \A i \in 1 .. Len(s) : (s \o t)[i] = s[i]
         /\ \A i \in 1 .. Len(t) : (s \o t)[Len(s) + i] = t[i]
<1>1. Len(s) \in Nat /\ Len(t) \in Nat
  BY LenProperties
<1>2. /\ s \o t \in Seq(T) /\ Len(s \o t) = Len(s) + Len(t)
      /\ \A i \in 1 .. Len(s) + Len(t) : (s \o t)[i] = IF i <= Len(s) THEN s[i] ELSE t[i - Len(s)]
  BY ConcatProperties
<1> QED BY <1>1, <1>2

\* A sequence of cells of which none is a caplet's header.
Dull(x, n) == x \in Seq(Cells) /\ Len(x) = n /\ \A i \in 1 .. n : x[i].kind # "caplet"

\* Its first cell is a caplet's header, and no other.
Opened(x, n) == /\ x \in Seq(Cells) /\ Len(x) = n /\ n >= 1 /\ x[1].kind = "caplet"
                /\ \A i \in 2 .. n : x[i].kind # "caplet"

\* A cell is one.
LEMMA CellType ==
  ASSUME NEW k \in Kinds, NEW id \in Int, NEW n \in Nat
  PROVE  Cell(k, id, n) \in Cells /\ Cell(k, id, n).kind = k /\ Cell(k, id, n).id = id
         /\ Cell(k, id, n).n = n
BY DEF Cell, Cells

\* Filler is dull.
LEMMA FillerIs ==
  ASSUME NEW n \in Nat
  PROVE  Dull(Filler(n), n) /\ \A i \in 1 .. n : Filler(n)[i].kind = "filler"
<1>1. PICK c \in Cells : c = Cell("filler", 0, 0) /\ c.kind = "filler"
  BY CellType DEF Kinds
<1>2. Filler(n) = [i \in 1 .. n |-> c]
  BY <1>1 DEF Filler
<1>3. [i \in 1 .. n |-> c] \in Seq(Cells) /\ Len([i \in 1 .. n |-> c]) = n
  BY IsASeq, LenProperties
<1> QED BY <1>1, <1>2, <1>3 DEF Dull

\* A field starts with its value.
LEMMA FieldIs ==
  ASSUME NEW c \in Cells, NEW n \in Nat, n >= 1
  PROVE  /\ Field(c, n) \in Seq(Cells) /\ Len(Field(c, n)) = n /\ Field(c, n)[1] = c
         /\ \A i \in 2 .. n : Field(c, n)[i].kind = "filler"
<1>1. PICK f \in Seq(Cells) : f = Filler(n - 1) /\ Len(f) = n - 1 /\ \A i \in 1 .. n - 1 : f[i].kind = "filler"
  BY FillerIs, n - 1 \in Nat DEF Dull
<1>2. <<c>> \in Seq(Cells) /\ Len(<<c>>) = 1 /\ <<c>>[1] = c
  OBVIOUS
<1>3. Field(c, n) = <<c>> \o f
  BY <1>1 DEF Field
<1>4. /\ <<c>> \o f \in Seq(Cells) /\ Len(<<c>> \o f) = 1 + (n - 1) /\ (<<c>> \o f)[1] = c
      /\ \A i \in 1 .. n - 1 : (<<c>> \o f)[1 + i] = f[i]
  BY <1>1, <1>2, Joins
<1>5. ASSUME NEW i \in 2 .. n PROVE (<<c>> \o f)[i].kind = "filler"
  <2>1. i - 1 \in 1 .. n - 1 /\ 1 + (i - 1) = i
    OBVIOUS
  <2> QED BY <1>1, <1>4, <2>1
<1> QED BY <1>3, <1>4, <1>5

\* Payload is dull.
LEMMA PayloadIs ==
  ASSUME NEW id \in Int, NEW from \in Nat, NEW n \in Nat
  PROVE  Dull(Payload(id, from, n), n) /\ \A i \in 1 .. n : Payload(id, from, n)[i].kind = "payload"
<1> DEFINE p == [i \in 1 .. n |-> Cell("payload", id, from + i)]
<1>1. \A i \in 1 .. n : Cell("payload", id, from + i) \in Cells /\ Cell("payload", id, from + i).kind = "payload"
  BY CellType DEF Kinds
<1>2. p \in [1 .. n -> Cells] /\ \A i \in 1 .. n : p[i].kind = "payload"
  BY <1>1
<1>3. Payload(id, from, n) = p
  BY DEF Payload
<1> HIDE DEF p
<1>4. p \in Seq(Cells) /\ Len(p) = n
  <2>1. p = [i \in 1 .. n |-> p[i]] /\ \A i \in 1 .. n : p[i] \in Cells
    BY <1>2
  <2> QED BY <1>2, <2>1, SeqDef, LenProperties
<1> QED BY <1>2, <1>3, <1>4 DEF Dull

\* The end of a page.
LEMMA PageEndIs ==
  ASSUME NEW h \in Cells, NEW n \in Nat, h.kind = "page"
  PROVE  Dull(PageEnd(h, n), n + PageHeader) /\ PageEnd(h, n)[n + 1] = h
         /\ (n > 0 => PageEnd(h, n)[1].kind = "filler")
<1>1. PICK f \in Seq(Cells) : f = Filler(n) /\ Len(f) = n /\ \A i \in 1 .. n : f[i].kind = "filler"
  BY FillerIs DEF Dull
<1>2. PICK g \in Seq(Cells) : /\ g = Field(h, PageHeader) /\ Len(g) = PageHeader /\ g[1] = h
                              /\ \A i \in 2 .. PageHeader : g[i].kind = "filler"
  BY FieldIs, Numbers
<1>3. PICK x \in Seq(Cells) : /\ x = f \o g /\ Len(x) = n + PageHeader
                              /\ \A i \in 1 .. n : x[i] = f[i]
                              /\ \A i \in 1 .. PageHeader : x[n + i] = g[i]
  <2>1. /\ f \o g \in Seq(Cells) /\ Len(f \o g) = Len(f) + Len(g)
        /\ \A i \in 1 .. Len(f) : (f \o g)[i] = f[i]
        /\ \A i \in 1 .. Len(g) : (f \o g)[Len(f) + i] = g[i]
    BY Joins
  <2>2. /\ f \o g \in Seq(Cells) /\ Len(f \o g) = n + PageHeader
        /\ \A i \in 1 .. n : (f \o g)[i] = f[i]
        /\ \A i \in 1 .. PageHeader : (f \o g)[n + i] = g[i]
    BY <1>1, <1>2, <2>1
  <2> QED BY <2>2
<1>4. PageEnd(h, n) = x
  BY <1>1, <1>2, <1>3 DEF PageEnd
<1>5. \A i \in 1 .. PageHeader : g[i].kind # "caplet"
  BY <1>2
<1>6. ASSUME NEW i \in 1 .. n + PageHeader PROVE x[i].kind # "caplet"
  <2>1. CASE i <= n
    BY <1>1, <1>3, <2>1
  <2>2. CASE i > n
    <3>1. i - n \in 1 .. PageHeader /\ n + (i - n) = i
      BY <2>2, Numbers
    <3>2. x[i] = g[i - n]
      BY <1>3, <3>1
    <3> QED BY <1>5, <3>1, <3>2
  <2> QED BY <2>1, <2>2
<1>7. x[n + 1] = h
  BY <1>2, <1>3, Numbers
<1>8. n > 0 => x[1].kind = "filler"
  BY <1>1, <1>3
<1> QED BY <1>3, <1>4, <1>6, <1>7, <1>8 DEF Dull

\* What is packed of a caplet: its header, a length, and as much of its payload.
Record(id, len, part) ==
  Field(Cell("caplet", id, len), CapHeader) \o Field(Cell("length", 0, part), IntSize)
    \o Payload(id, 0, part)

\* What a reader finds in it.
Says(y, id, len, part) ==
  /\ y[1] = Cell("caplet", id, len) /\ y[CapHeader + 1] = Cell("length", 0, part)
  /\ \A m \in 1 .. part : y[CapHeader + IntSize + m] = Cell("payload", id, m)

\* A record starts with a caplet's header, and has no other.
LEMMA RecordIs ==
  ASSUME NEW id \in Int, NEW len \in Nat, NEW part \in Nat
  PROVE  Opened(Record(id, len, part), Packed(part)) /\ Says(Record(id, len, part), id, len, part)
<1>0. PICK h \in Nat, s \in Nat : h = CapHeader /\ s = IntSize /\ h >= 1 /\ s >= 1
  BY Numbers
<1>1. PICK f \in Seq(Cells) : /\ f = Field(Cell("caplet", id, len), CapHeader) /\ Len(f) = h
                              /\ f[1] = Cell("caplet", id, len) /\ f[1].kind = "caplet"
                              /\ \A i \in 2 .. h : f[i].kind # "caplet"
  <2>1. PICK c \in Cells : c = Cell("caplet", id, len) /\ c.kind = "caplet"
    BY CellType DEF Kinds
  <2>2. /\ Field(c, h) \in Seq(Cells) /\ Len(Field(c, h)) = h
        /\ Field(c, h)[1] = c /\ \A i \in 2 .. h : Field(c, h)[i].kind = "filler"
    BY <1>0, FieldIs
  <2>3. ASSUME NEW i \in 2 .. h PROVE Field(c, h)[i].kind # "caplet"
    BY <2>2
  <2> QED BY <1>0, <2>1, <2>2, <2>3
<1>2. PICK g \in Seq(Cells) : /\ g = Field(Cell("length", 0, part), IntSize) /\ Len(g) = s
                              /\ g[1] = Cell("length", 0, part) /\ \A i \in 1 .. s : g[i].kind # "caplet"
  <2>1. PICK c \in Cells : c = Cell("length", 0, part) /\ c.kind = "length"
    BY CellType DEF Kinds
  <2>2. /\ Field(c, s) \in Seq(Cells) /\ Len(Field(c, s)) = s
        /\ Field(c, s)[1] = c /\ \A i \in 2 .. s : Field(c, s)[i].kind = "filler"
    BY <1>0, FieldIs
  <2>3. ASSUME NEW i \in 1 .. s PROVE Field(c, s)[i].kind # "caplet"
    BY <2>1, <2>2
  <2> QED BY <1>0, <2>1, <2>2, <2>3
<1>3. PICK p \in Seq(Cells) : /\ p = Payload(id, 0, part) /\ Len(p) = part
                              /\ \A i \in 1 .. part : p[i].kind # "caplet"
                              /\ \A i \in 1 .. part : p[i] = Cell("payload", id, i)
  <2>1. \A i \in 1 .. part : Payload(id, 0, part)[i] = Cell("payload", id, i)
    <3>1. \A i \in 1 .. part : 0 + i = i
      OBVIOUS
    <3> QED BY <3>1 DEF Payload
  <2> QED BY <2>1, PayloadIs DEF Dull
<1>4. PICK x \in Seq(Cells) : /\ x = f \o g /\ Len(x) = h + s
                              /\ \A i \in 1 .. h : x[i] = f[i]
                              /\ \A i \in 1 .. s : x[h + i] = g[i]
  <2>1. /\ f \o g \in Seq(Cells) /\ Len(f \o g) = Len(f) + Len(g)
        /\ \A i \in 1 .. Len(f) : (f \o g)[i] = f[i]
        /\ \A i \in 1 .. Len(g) : (f \o g)[Len(f) + i] = g[i]
    BY Joins
  <2>2. /\ f \o g \in Seq(Cells) /\ Len(f \o g) = h + s
        /\ \A i \in 1 .. h : (f \o g)[i] = f[i]
        /\ \A i \in 1 .. s : (f \o g)[h + i] = g[i]
    BY <1>1, <1>2, <2>1
  <2> QED BY <2>2
<1>5. PICK y \in Seq(Cells) : /\ y = x \o p /\ Len(y) = h + s + part
                              /\ \A i \in 1 .. h + s : y[i] = x[i]
                              /\ \A i \in 1 .. part : y[h + s + i] = p[i]
  <2>1. /\ x \o p \in Seq(Cells) /\ Len(x \o p) = Len(x) + Len(p)
        /\ \A i \in 1 .. Len(x) : (x \o p)[i] = x[i]
        /\ \A i \in 1 .. Len(p) : (x \o p)[Len(x) + i] = p[i]
    BY Joins
  <2>2. /\ x \o p \in Seq(Cells) /\ Len(x \o p) = (h + s) + part
        /\ \A i \in 1 .. (h + s) : (x \o p)[i] = x[i]
        /\ \A i \in 1 .. part : (x \o p)[(h + s) + i] = p[i]
    BY <1>3, <1>4, <2>1
  <2> QED BY <2>2
<1>6. Record(id, len, part) = y
  BY <1>1, <1>2, <1>3, <1>4, <1>5 DEF Record
<1>7. y[1] = f[1] /\ y[1].kind = "caplet" /\ y[h + 1] = g[1]
  <2>1. 1 \in 1 .. h /\ 1 \in 1 .. h + s /\ h + 1 \in 1 .. h + s /\ 1 \in 1 .. s
    BY <1>0
  <2>2. y[1] = x[1] /\ x[1] = f[1] /\ y[h + 1] = x[h + 1] /\ x[h + 1] = g[1]
    BY <1>4, <1>5, <2>1
  <2> QED BY <1>1, <2>2
<1>8. ASSUME NEW i \in 2 .. h + s + part PROVE y[i].kind # "caplet"
  <2>1. CASE i <= h
    <3>1. i \in 2 .. h /\ i \in 1 .. h /\ i \in 1 .. h + s
      BY <1>0, <2>1
    <3>2. y[i] = f[i]
      BY <1>4, <1>5, <3>1
    <3> QED BY <1>1, <3>1, <3>2
  <2>2. CASE i > h /\ i <= h + s
    <3>1. i - h \in 1 .. s /\ h + (i - h) = i /\ i \in 1 .. h + s
      BY <1>0, <2>2
    <3>2. y[i] = x[i] /\ x[i] = g[i - h]
      BY <1>4, <1>5, <3>1
    <3> QED BY <1>2, <3>1, <3>2
  <2>3. CASE i > h + s
    <3>1. i - (h + s) \in 1 .. part /\ h + s + (i - (h + s)) = i
      BY <1>0, <2>3
    <3>2. y[i] = p[i - (h + s)]
      BY <1>5, <3>1
    <3> QED BY <1>3, <3>1, <3>2
  <2>4. i <= h \/ (i > h /\ i <= h + s) \/ i > h + s
    BY <1>0
  <2> QED BY <2>1, <2>2, <2>3, <2>4, Zenon
<1>9. Packed(part) = h + s + part /\ Packed(part) >= 1
  BY <1>0 DEF Packed
<1>10. Opened(y, Packed(part))
  BY <1>5, <1>7, <1>8, <1>9 DEF Opened
<1>11. Says(y, id, len, part)
  <2>1. \A m \in 1 .. part : y[h + s + m] = Cell("payload", id, m)
    BY <1>3, <1>5
  <2> QED BY <1>0, <1>1, <1>2, <1>7, <2>1 DEF Says
<1> QED BY <1>6, <1>10, <1>11

-----------------------------------------------------------------------------
(* Pages.                                                                  *)

\* There are finitely many starts.
LEMMA StartsFinite ==
  ASSUME NEW s, NEW a \in Int, NEW b \in Int
  PROVE  IsFiniteSet(StartsOf(s, a, b)) /\ StartsOf(s, a, b) \subseteq a + 1 .. b
<1>1. StartsOf(s, a, b) \subseteq a + 1 .. b
  BY DEF StartsOf
<1>2. IsFiniteSet(a + 1 .. b)
  BY FS_Interval
<1> QED BY <1>1, <1>2, FS_Subset

\* What follows does not change a page.
LEMMA PageStays ==
  ASSUME NEW s \in Seq(Cells), NEW x \in Seq(Cells), NEW a \in Nat, a + PageSize <= Len(s)
  PROVE  /\ HeaderAt(s \o x, a) = HeaderAt(s, a)
         /\ StartsOf(s \o x, a, a + PageSize) = StartsOf(s, a, a + PageSize)
<1>1. Len(s) \in Nat /\ \A i \in 1 .. Len(s) : (s \o x)[i] = s[i]
  BY Joins
<1>2. a + Room + 1 \in 1 .. Len(s)
  BY <1>1, Numbers
<1>3. \A i \in a + 1 .. a + PageSize : i \in 1 .. Len(s)
  BY <1>1, Numbers
<1> QED BY <1>1, <1>2, <1>3 DEF HeaderAt, StartsOf

\* Dull cells add no start.
LEMMA StartsDull ==
  ASSUME NEW s \in Seq(Cells), NEW x, NEW n \in Nat, Dull(x, n), NEW a \in Nat, a <= Len(s)
  PROVE  StartsOf(s \o x, a, Len(s) + n) = StartsOf(s, a, Len(s))
<1>1. /\ Len(s) \in Nat /\ Len(x) = n
      /\ \A i \in 1 .. Len(s) : (s \o x)[i] = s[i]
      /\ \A i \in 1 .. Len(x) : (s \o x)[Len(s) + i] = x[i]
  BY Joins DEF Dull
<1>2. ASSUME NEW i \in a + 1 .. Len(s) + n
      PROVE  (s \o x)[i].kind = "caplet" <=> i \in a + 1 .. Len(s) /\ s[i].kind = "caplet"
  <2>1. CASE i <= Len(s)
    <3>1. (s \o x)[i] = s[i]
      BY <1>1, <2>1
    <3> QED BY <1>1, <2>1, <3>1
  <2>2. CASE i > Len(s)
    <3>1. i - Len(s) \in 1 .. n /\ Len(s) + (i - Len(s)) = i
      BY <1>1, <2>2
    <3>2. (s \o x)[i] = x[i - Len(s)]
      BY <1>1, <3>1
    <3>3. x[i - Len(s)].kind # "caplet"
      BY <3>1 DEF Dull
    <3> QED BY <1>1, <2>2, <3>2, <3>3
  <2> QED BY <1>1, <2>1, <2>2
<1>3. \A i \in a + 1 .. Len(s) : i \in a + 1 .. Len(s) + n
  BY <1>1
<1> QED BY <1>2, <1>3 DEF StartsOf

\* A record adds one, behind all others.
LEMMA StartsOpened ==
  ASSUME NEW s \in Seq(Cells), NEW x, NEW n \in Nat, Opened(x, n), NEW a \in Nat, a <= Len(s)
  PROVE  StartsOf(s \o x, a, Len(s) + n) = StartsOf(s, a, Len(s)) \cup {Len(s) + 1}
<1>1. /\ Len(s) \in Nat /\ Len(x) = n /\ n >= 1
      /\ \A i \in 1 .. Len(s) : (s \o x)[i] = s[i]
      /\ \A i \in 1 .. Len(x) : (s \o x)[Len(s) + i] = x[i]
  BY Joins DEF Opened
<1>2. ASSUME NEW i \in a + 1 .. Len(s) + n
      PROVE  (s \o x)[i].kind = "caplet" <=> \/ i \in a + 1 .. Len(s) /\ s[i].kind = "caplet"
                                             \/ i = Len(s) + 1
  <2>1. CASE i <= Len(s)
    <3>1. (s \o x)[i] = s[i]
      BY <1>1, <2>1
    <3> QED BY <1>1, <2>1, <3>1
  <2>2. CASE i > Len(s)
    <3>1. i - Len(s) \in 1 .. n /\ Len(s) + (i - Len(s)) = i
      BY <1>1, <2>2
    <3>2. (s \o x)[i] = x[i - Len(s)]
      BY <1>1, <3>1
    <3>3. x[i - Len(s)].kind = "caplet" <=> i - Len(s) = 1
      <4>1. i - Len(s) = 1 \/ i - Len(s) \in 2 .. n
        BY <3>1
      <4> QED BY <4>1 DEF Opened
    <3> QED BY <1>1, <2>2, <3>2, <3>3
  <2> QED BY <1>1, <2>1, <2>2
<1>3. \A i \in a + 1 .. Len(s) : i \in a + 1 .. Len(s) + n
  BY <1>1
<1>4. Len(s) + 1 \in a + 1 .. Len(s) + n
  BY <1>1
<1> QED BY <1>2, <1>3, <1>4 DEF StartsOf

\* A header counts one more caplet.
LEMMA TellsMore ==
  ASSUME NEW h \in Cells, NEW g \in Cells, NEW a \in Int, NEW b \in Int, NEW st \in SUBSET (a .. b),
         IsFiniteSet(st), NEW m \in Nat, Tells(h, st, m), NEW e \in Int, b < e,
         g.kind = "page", g.n = h.n + 1, h.n = 0 => g.id >= 0 /\ m + g.id + 1 = e,
         h.n > 0 => g.id = h.id
  PROVE  Tells(g, st \cup {e}, m) /\ g.n > 0
<1>1. e \notin st /\ \A i \in st : i \in Int /\ i < e
  OBVIOUS
<1>2. h.n \in Nat /\ h.id \in Int /\ g.id \in Int
  BY DEF Cells
<1>3. Cardinality(st \cup {e}) = Cardinality(st) + 1
  BY <1>1, FS_AddElement
<1>4. g.n = Cardinality(st \cup {e}) /\ g.n > 0
  BY <1>2, <1>3 DEF Tells
<1>5. CASE h.n = 0
  <2>1. st = {}
    BY <1>5, FS_EmptySet DEF Tells
  <2> QED BY <1>1, <1>4, <1>5, <2>1 DEF Tells
<1>6. CASE h.n > 0
  <2>1. h.id >= 0 /\ m + h.id + 1 \in st /\ \A i \in st : m + h.id + 1 <= i
    BY <1>6 DEF Tells
  <2> QED BY <1>1, <1>2, <1>4, <1>6, <2>1 DEF Tells
<1> QED BY <1>2, <1>5, <1>6

\* The start of page j.
LEMMA PageStart ==
  ASSUME NEW j \in Nat \ {0}
  PROVE  (j - 1) * PageSize \in Nat /\ (j - 1) * PageSize + PageSize = j * PageSize
<1>1. PageSize \in Nat /\ j - 1 \in Nat
  BY Numbers
<1>2. (j - 1) * PageSize \in Nat
  BY <1>1
<1>3. \A p \in Nat : (j - 1) * p + p = j * p
  OBVIOUS
<1> QED BY <1>1, <1>2, <1>3

\* What follows does not change the pages that are over, if it goes on as the
\* last one says.
LEMMA OldPage ==
  ASSUME NEW s \in Seq(Cells), NEW x \in Seq(Cells), Len(x) >= 1,
         NEW mid \in BOOLEAN, NEW mid2 \in BOOLEAN, Full(s, mid),
         NEW j \in Nat \ {0}, j * PageSize <= Len(s),
         j * PageSize = Len(s) => (x[1].kind = "payload" <=> mid)
  PROVE  Headed(s \o x, (j - 1) * PageSize, MessageOf(j)) /\ Spills(s \o x, (j - 1) * PageSize, mid2)
<1>1. PICK a \in Nat : a = (j - 1) * PageSize /\ a + PageSize = j * PageSize /\ a + PageSize <= Len(s)
  BY PageStart
<1>2. Headed(s, a, MessageOf(j)) /\ Spills(s, a, mid)
  BY <1>1 DEF Full
<1>3. PICK h : h = HeaderAt(s \o x, a) /\ h = HeaderAt(s, a)
  BY <1>1, PageStays
<1>4. StartsOf(s \o x, a, a + PageSize) = StartsOf(s, a, a + PageSize)
  BY <1>1, PageStays
<1>5. Headed(s \o x, a, MessageOf(j))
  BY <1>2, <1>3, <1>4 DEF Headed
<1>6. /\ Len(s) \in Nat /\ Len(x) \in Nat /\ Len(s \o x) = Len(s) + Len(x)
      /\ \A i \in 1 .. Len(s) : (s \o x)[i] = s[i]
      /\ \A i \in 1 .. Len(x) : (s \o x)[Len(s) + i] = x[i]
  BY Joins
<1>7. a + PageSize < Len(s \o x)
  <2>1. Len(s) \in Nat /\ Len(s \o x) = Len(s) + Len(x) /\ Len(x) \in Nat
    BY <1>6
  <2>2. \A n, l, k, y \in Nat : n + l <= k /\ y >= 1 => n + l < k + y
    OBVIOUS
  <2>3. PageSize \in Nat
    BY Numbers
  <2> QED BY <1>1, <2>1, <2>2, <2>3
<1>8. "spilled" \in h.flags <=> (s \o x)[a + PageSize + 1].kind = "payload"
  <2>1. CASE a + PageSize < Len(s)
    <3>1. (s \o x)[a + PageSize + 1] = s[a + PageSize + 1]
      BY <1>6, <2>1, Numbers
    <3> QED BY <1>2, <1>3, <2>1, <3>1 DEF Spills
  <2>2. CASE a + PageSize = Len(s)
    <3>1. (s \o x)[a + PageSize + 1] = x[1]
      BY <1>6, <2>2
    <3>2. "spilled" \in h.flags <=> mid
      BY <1>2, <1>3, <1>6, <2>2 DEF Spills
    <3> QED BY <1>1, <2>2, <3>1, <3>2
  <2> QED BY <1>1, <1>6, <2>1, <2>2, Numbers
<1>9. Spills(s \o x, a, mid2)
  BY <1>3, <1>7, <1>8 DEF Spills
<1> QED BY <1>1, <1>5, <1>9

\* Cells that do not end the page.
LEMMA Grows ==
  ASSUME NEW s \in Seq(Cells), NEW x \in Seq(Cells), NEW n \in Nat, NEW u \in Nat,
         Len(s) = n * PageSize + u, Len(x) >= 1, u + Len(x) < PageSize,
         NEW mid \in BOOLEAN, NEW mid2 \in BOOLEAN, Full(s, mid), u = 0 => (x[1].kind = "payload" <=> mid)
  PROVE  Full(s \o x, mid2)
<1> SUFFICES ASSUME NEW j \in Nat \ {0}, j * PageSize <= Len(s \o x)
             PROVE  /\ Headed(s \o x, (j - 1) * PageSize, MessageOf(j))
                    /\ Spills(s \o x, (j - 1) * PageSize, mid2)
  BY DEF Full
<1>1. Len(s \o x) = Len(s) + Len(x) /\ Len(x) \in Nat /\ Len(s) \in Nat
  BY Joins
<1>2. PageSize \in Nat /\ n * PageSize \in Nat /\ j * PageSize \in Nat
  BY Numbers
<1>3. j * PageSize <= n * PageSize + (u + Len(x)) /\ u + Len(x) \in Nat
  BY <1>1, <1>2
<1>4. j <= n
  BY <1>3, WithinPages
<1>5. j * PageSize <= n * PageSize
  <2>1. j = n \/ j < n
    BY <1>4
  <2> QED BY <1>2, <2>1, MoreIsLonger
<1>6. j * PageSize <= Len(s) /\ (j * PageSize = Len(s) => u = 0)
  BY <1>2, <1>5
<1> QED BY <1>6, OldPage

\* Cells that end the page.
LEMMA Fills ==
  ASSUME NEW s \in Seq(Cells), NEW x \in Seq(Cells), NEW n \in Nat, NEW u \in Nat,
         Len(s) = n * PageSize + u, Len(x) >= 1, u + Len(x) = PageSize,
         NEW mid \in BOOLEAN, NEW mid2 \in BOOLEAN, Full(s, mid), u = 0 => (x[1].kind = "payload" <=> mid),
         NEW j \in Nat \ {0}, j * PageSize <= Len(s \o x), j # n + 1
  PROVE  Headed(s \o x, (j - 1) * PageSize, MessageOf(j)) /\ Spills(s \o x, (j - 1) * PageSize, mid2)
<1>1. Len(s \o x) = Len(s) + Len(x) /\ Len(x) \in Nat /\ Len(s) \in Nat
  BY Joins
<1>2. PageSize \in Nat /\ PageSize >= 1 /\ n * PageSize \in Nat /\ j * PageSize \in Nat
  BY Numbers
<1>3. (n + 1) * PageSize = n * PageSize + PageSize
  <2>1. \A p \in Nat : (n + 1) * p = n * p + p
    OBVIOUS
  <2> QED BY <1>2, <2>1
<1>4. j * PageSize <= (n + 1) * PageSize + 0
  BY <1>1, <1>2, <1>3
<1>5. j <= n + 1
  <2>1. 0 < PageSize /\ 0 \in Nat /\ n + 1 \in Nat
    BY <1>2
  <2> QED BY <1>4, <2>1, WithinPages
<1>6. j * PageSize <= n * PageSize
  <2>1. j = n \/ j < n
    BY <1>5
  <2> QED BY <1>2, <2>1, MoreIsLonger
<1>7. j * PageSize <= Len(s) /\ (j * PageSize = Len(s) => u = 0)
  BY <1>2, <1>6
<1> QED BY <1>7, OldPage

\* The page from a on, page j, is over.
Over(s, a, j, mid) == Headed(s, a, MessageOf(j)) /\ ("spilled" \in HeaderAt(s, a).flags <=> mid)

\* The page that ends, if it is not the last one.
LEMMA Filled ==
  ASSUME NEW s \in Seq(Cells), NEW x \in Seq(Cells), NEW n \in Nat, NEW u \in Nat,
         Len(s) = n * PageSize + u, Len(x) >= 1, u + Len(x) = PageSize,
         NEW mid \in BOOLEAN, NEW mid2 \in BOOLEAN, Full(s, mid), u = 0 => (x[1].kind = "payload" <=> mid),
         Over(s \o x, n * PageSize, n + 1, mid2)
  PROVE  Full(s \o x, mid2)
<1>3. Len(s \o x) = Len(s) + Len(x) /\ Len(x) \in Nat /\ Len(s) \in Nat
  BY Joins
<1> SUFFICES ASSUME NEW j \in Nat \ {0}, j * PageSize <= Len(s \o x)
             PROVE  /\ Headed(s \o x, (j - 1) * PageSize, MessageOf(j))
                    /\ Spills(s \o x, (j - 1) * PageSize, mid2)
  BY DEF Full
<1>1. CASE j # n + 1
  BY <1>1, Fills
<1>2. CASE j = n + 1
  <2>2. j - 1 = n /\ n * PageSize \in Nat /\ PageSize \in Nat
    BY <1>2, Numbers
  <2>3. ~(n * PageSize + PageSize < Len(s \o x))
    BY <1>3, <2>2
  <2> QED BY <1>2, <2>2, <2>3 DEF Spills, Over
<1> QED BY <1>1, <1>2

\* Cells, grouped.
LEMMA Regroup ==
  \A r \in Seq(Cells), s \in Seq(Cells), t \in Seq(Cells) : (r \o s) \o t = r \o (s \o t)
<1> SUFFICES ASSUME NEW T, NEW r \in Seq(T), NEW s \in Seq(T), NEW t \in Seq(T)
             PROVE  (r \o s) \o t = r \o (s \o t)
  OBVIOUS
<1> QED BY ConcatAssociative

\* Concatenation as a function of two sequences of which the provers know no more.
Cat(s, t) == s \o t

\* What they need to know of it.
LEMMA CatRegroups ==
  ASSUME NEW r \in Seq(Cells), NEW s \in Seq(Cells), NEW t \in Seq(Cells)
  PROVE  Cat(r, s) \in Seq(Cells) /\ Cat(Cat(r, s), t) = Cat(r, Cat(s, t))
<1>1. (r \o s) \o t = r \o (s \o t)
  BY Regroup
<1>2. r \o s \in Seq(Cells)
  BY ConcatProperties
<1> QED BY <1>1, <1>2 DEF Cat

\* The header at the end of a page, and the caplets before it.
LEMMA PageCloses ==
  ASSUME NEW s \in Seq(Cells), NEW h \in Cells, h.kind = "page", NEW free \in Nat, NEW a \in Nat, a <= Len(s),
         Len(s) + free + PageHeader = a + PageSize
  PROVE  /\ HeaderAt(s \o PageEnd(h, free), a) = h
         /\ StartsOf(s \o PageEnd(h, free), a, a + PageSize) = StartsOf(s, a, Len(s))
<1>1. PICK x \in Seq(Cells) : /\ x = PageEnd(h, free) /\ Dull(x, free + PageHeader) /\ x[free + 1] = h
                              /\ Len(x) = free + PageHeader
  BY PageEndIs DEF Dull
<1>2. Len(s) \in Nat /\ free + PageHeader \in Nat
  BY LenProperties, Numbers
<1>3. StartsOf(s \o x, a, Len(s) + (free + PageHeader)) = StartsOf(s, a, Len(s))
  BY <1>1, <1>2, StartsDull
<1>4. Len(s) + (free + PageHeader) = a + PageSize
  BY <1>2, Numbers
<1>5. (s \o x)[Len(s) + (free + 1)] = h
  <2>1. \A i \in 1 .. Len(x) : (s \o x)[Len(s) + i] = x[i]
    BY Joins
  <2>2. free + 1 \in 1 .. Len(x)
    BY <1>1, Numbers
  <2> QED BY <1>1, <2>1, <2>2
<1>6. Len(s) + (free + 1) = a + Room + 1
  BY <1>2, Numbers
<1> QED BY <1>1, <1>3, <1>4, <1>5, <1>6 DEF HeaderAt

-----------------------------------------------------------------------------
(* Steps.                                                                  *)

\* The caplet being added.
LEMMA TheCaplet ==
  ASSUME Typed, pc = "pack"
  PROVE  /\ Id \in Nat /\ Id >= 1 /\ Length \in Sizes /\ Length \in Nat
         /\ Packed(Length) = CapHeader + IntSize + Length /\ 2 * Packed(Length) <= Room
         /\ Free \in Nat /\ Free = Room - used
<1>1. written \in Seq(Sizes) /\ written # << >>
  BY DEF Typed
<1>2. Len(written) \in Nat /\ Len(written) >= 1
  BY <1>1, EmptySeq
<1>3. Length \in Sizes
  BY <1>1, <1>2, ElementOfSeq DEF Length, Id
<1>4. Free \in Nat /\ Free = Room - used
  BY Numbers DEF Typed, Free
<1> QED BY <1>2, <1>3, <1>4, Numbers DEF Id

\* Where the packer is.
LEMMA Where ==
  ASSUME Typed, Placed
  PROVE  /\ Out \in Seq(Cells) /\ Made \in Seq(Cells) /\ Len(Out) \in Nat /\ Len(bytes) \in Nat
         /\ Len(Made) = Len(Out) + Len(bytes) /\ Mid \in BOOLEAN /\ Len(file) \in Nat
         /\ used \in Nat /\ used < PageSize
         /\ \E n \in Nat : /\ Len(Made) = n * PageSize + used /\ n * PageSize \in Nat
                           /\ MessageOf(n + 1) = Len(Out)
         /\ \E k \in Nat : Len(Out) = k * BufSize
<1>1. /\ file \in Seq(Cells) /\ ret \in Seq(Cells) /\ bytes \in Seq(Cells)
      /\ page \in 1 .. MaxPages /\ used \in 0 .. Room
  BY DEF Typed
<1>2. Out \in Seq(Cells) /\ Len(Out) = Len(file) + Len(ret) /\ Len(file) \in Nat /\ Len(ret) \in Nat
  BY <1>1, Joins DEF Out
<1>3. Made \in Seq(Cells) /\ Len(Made) = Len(Out) + Len(bytes) /\ Len(bytes) \in Nat /\ Len(Out) \in Nat
  BY <1>1, <1>2, Joins DEF Made
<1>4. PICK k \in Nat : Len(Out) = k * BufSize
  <2>1. PICK i \in Nat : Len(file) = i * BufSize
    BY DEF Placed
  <2>2. CASE ret = << >>
    BY <1>2, <2>1, <2>2, EmptySeq
  <2>3. CASE ret # << >>
    <3>1. Len(ret) = BufSize
      BY <2>3 DEF Placed
    <3>2. i * BufSize + BufSize = (i + 1) * BufSize
      <4>1. \A b \in Nat : i * b + b = (i + 1) * b
        OBVIOUS
      <4> QED BY <4>1, Numbers
    <3> QED BY <1>2, <2>1, <3>1, <3>2
  <2> QED BY <2>2, <2>3
<1>5. PICK n \in Nat : n = k * MaxPages + page - 1 /\ n + 1 = k * MaxPages + page
  <2>1. k * MaxPages \in Nat
    BY Numbers
  <2> QED BY <1>1, <2>1
<1>6. /\ MessageOf(n + 1) = k * BufSize /\ k * BufSize \in Nat
      /\ n * PageSize = k * BufSize + (page - 1) * PageSize /\ (page - 1) * PageSize \in Nat
  BY <1>1, <1>5, PageOfMessage
<1>7. Len(bytes) = (page - 1) * PageSize + used
  BY DEF Placed
<1>8. Len(Made) = n * PageSize + used /\ n * PageSize \in Nat
  <2>1. PICK i \in Nat, j \in Nat : i = k * BufSize /\ j = (page - 1) * PageSize
    BY <1>6
  <2>2. PICK u \in Nat : u = used
    BY <1>1
  <2>3. Len(Made) = i + (j + u) /\ n * PageSize = i + j
    BY <1>3, <1>4, <1>6, <1>7, <2>1, <2>2
  <2>4. i + (j + u) = (i + j) + u /\ i + j \in Nat
    OBVIOUS
  <2> QED BY <2>2, <2>3, <2>4
<1>9. used \in Nat /\ used < PageSize
  BY <1>1, Numbers
<1>10. Mid \in BOOLEAN
  BY DEF Mid
<1> QED BY <1>2, <1>3, <1>4, <1>6, <1>8, <1>9, <1>10

\* A record is put in the message field by field.
LEMMA RecordJoins ==
  ASSUME NEW b \in Seq(Cells), NEW id \in Int, NEW len \in Nat, NEW part \in Nat
  PROVE  b \o Field(Cell("caplet", id, len), CapHeader) \o Field(Cell("length", 0, part), IntSize)
           \o Payload(id, 0, part) = b \o Record(id, len, part)
<1>1. PICK f \in Seq(Cells) : f = Field(Cell("caplet", id, len), CapHeader)
  BY FieldIs, CellType, Numbers DEF Kinds
<1>2. PICK g \in Seq(Cells) : g = Field(Cell("length", 0, part), IntSize)
  <2>1. Cell("length", 0, part) \in Cells
    BY CellType DEF Kinds
  <2> QED BY <2>1, FieldIs, Numbers
<1>3. PICK p \in Seq(Cells) : p = Payload(id, 0, part)
  BY PayloadIs DEF Dull
<1>4. f \o g \in Seq(Cells) /\ b \o f \in Seq(Cells)
  BY Joins
<1>5. ((b \o f) \o g) \o p = b \o ((f \o g) \o p)
  <2>1. Cat(Cat(Cat(b, f), g), p) = Cat(b, Cat(Cat(f, g), p))
    <3>1. Cat(f, g) \in Seq(Cells)
      BY CatRegroups
    <3>2. Cat(Cat(b, f), g) = Cat(b, Cat(f, g))
      BY CatRegroups
    <3>3. Cat(Cat(b, Cat(f, g)), p) = Cat(b, Cat(Cat(f, g), p))
      BY <3>1, CatRegroups
    <3> QED BY <3>2, <3>3
  <2> QED BY <2>1, Zenon DEF Cat
<1>7. Record(id, len, part) = (f \o g) \o p
  BY <1>1, <1>2, <1>3 DEF Record
<1> QED BY <1>1, <1>2, <1>3, <1>5, <1>7

\* What is put in the message is put behind everything made.
LEMMA Packs ==
  ASSUME Typed, NEW x \in Seq(Cells), bytes' = bytes \o x, file' = file \o ret, ret' = << >>
  PROVE  /\ Made' = Made \o x /\ Out' = Out
         /\ file' \in Seq(Cells) /\ ret' \in Seq(Cells) /\ bytes' \in Seq(Cells)
         /\ Len(bytes') = Len(bytes) + Len(x)
<1>1. file \in Seq(Cells) /\ ret \in Seq(Cells) /\ bytes \in Seq(Cells)
  BY DEF Typed
<1>2. Out \in Seq(Cells)
  BY <1>1, Joins DEF Out
<1>3. Out' = Out
  <2>1. (file \o ret) \o << >> = file \o ret
    BY <1>2, ConcatEmptySeq DEF Out
  <2> QED BY <2>1 DEF Out
<1>4. Out \o (bytes \o x) = (Out \o bytes) \o x
  <2>1. PICK o \in Seq(Cells), b \in Seq(Cells) : o = Out /\ b = bytes
    BY <1>1, <1>2
  <2>2. (o \o b) \o x = o \o (b \o x)
    BY Regroup
  <2> QED BY <2>1, <2>2
<1>5. bytes \o x \in Seq(Cells) /\ Len(bytes \o x) = Len(bytes) + Len(x)
  BY <1>1, Joins
<1>6. << >> \in Seq(Cells) /\ file \o ret \in Seq(Cells)
  BY <1>2 DEF Out
<1> QED BY <1>3, <1>4, <1>5, <1>6 DEF Made

\* x ends the page, with the records up to c finished.
Turn(x, c) == NextPage(bytes \o x, c)

\* The next page, in the same message or in a new one.
LEMMA Turns ==
  ASSUME Typed, Placed, pc = "pack", used > 0, NEW x \in Seq(Cells), used + Len(x) = PageSize, NEW c \in Nat,
         offset' \in Nat, appender' \in Nat, c + offset' + appender' = Len(bytes) + Len(x),
         Turn(x, c)
  PROVE  /\ Made' = Made \o x /\ file' \in Seq(Cells) /\ ret' \in Seq(Cells) /\ bytes' \in Seq(Cells)
         /\ Len(bytes') = (page' - 1) * PageSize + used' /\ used' = 0 /\ page' \in 1 .. MaxPages
         /\ ph' = NoHeader /\ pc' = pc /\ written' = written /\ file' = file
         /\ (ret' # << >> => Len(ret') = BufSize /\ page' = 1)
         /\ IF page' = 1 THEN cur' = 0 /\ bytes' = << >> ELSE cur' = c /\ Len(bytes') = Len(bytes) + Len(x)
<1>1. /\ file \in Seq(Cells) /\ ret \in Seq(Cells) /\ bytes \in Seq(Cells)
      /\ page \in 1 .. MaxPages /\ used \in 0 .. Room
  BY DEF Typed
<1>2. ret = << >> /\ Len(bytes) = (page - 1) * PageSize + used
  BY DEF Placed
<1>3. Out = file /\ Made = file \o bytes
  BY <1>1, <1>2, ConcatEmptySeq DEF Out, Made
<1>4. PICK b \in Seq(Cells) : b = bytes \o x /\ Len(b) = Len(bytes) + Len(x) /\ Len(x) \in Nat /\ Len(bytes) \in Nat
  BY <1>1, Joins
<1>5. file \o b = Made \o x /\ file \o b \in Seq(Cells)
  <2>1. PICK f \in Seq(Cells), y \in Seq(Cells) : f = file /\ y = bytes
    BY <1>1
  <2>2. (f \o y) \o x = f \o (y \o x)
    BY Regroup
  <2>3. f \o b \in Seq(Cells)
    BY Joins
  <2> QED BY <1>3, <1>4, <2>1, <2>2, <2>3
<1>6. Len(b) = (page - 1) * PageSize + PageSize /\ (page - 1) * PageSize + PageSize = page * PageSize
  <2>1. (page - 1) * PageSize \in Nat /\ (page - 1) * PageSize + PageSize = page * PageSize
    BY <1>1, Numbers, PageStart
  <2>2. \A z \in Nat : Len(bytes) = z + used => Len(bytes) + Len(x) = z + PageSize
    <3>2. used \in Nat /\ PageSize \in Nat
      BY <1>1, Numbers
    <3>3. Len(bytes) \in Nat /\ Len(x) \in Nat
      BY <1>4
    <3> QED BY <3>2, <3>3
  <2> QED BY <1>2, <1>4, <2>1, <2>2
<1>7. ph' = NoHeader /\ used' = 0 /\ pc' = pc /\ written' = written /\ file' = file
  BY DEF Turn, NextPage
<1>8. CASE page < MaxPages
  <2>1. page' = page + 1 /\ bytes' = b /\ cur' = c /\ ret' = ret
    BY <1>4, <1>8 DEF Turn, NextPage
  <2>2. Made' = Made \o x
    <3>1. Out' = file
      BY <1>2, <1>3, <1>7, <2>1 DEF Out
    <3> QED BY <1>5, <2>1, <3>1 DEF Made
  <2>3. page' \in 1 .. MaxPages /\ page' # 1 /\ page' - 1 = page
    BY <1>1, <1>8, <2>1, Numbers
  <2>4. Len(bytes') = (page' - 1) * PageSize + 0
    BY <1>1, <1>6, <2>1, <2>3, Numbers
  <2> QED BY <1>1, <1>2, <1>4, <1>7, <2>1, <2>2, <2>3, <2>4
<1>9. CASE ~(page < MaxPages)
  <2>1. page' = 1 /\ bytes' = << >> /\ cur' = 0 /\ ret' = SubSeq(b, 1, c + offset' + appender')
    BY <1>4, <1>9 DEF Turn, NextPage
  <2>2. ret' = b
    BY <1>4, <2>1, SubSeqFull
  <2>3. Made' = Made \o x
    <3>1. Out' = file \o b
      BY <1>7, <2>2 DEF Out
    <3> QED BY <1>5, <2>1, <3>1, ConcatEmptySeq DEF Made
  <2>4. Len(ret') = BufSize
    <3>1. page = MaxPages
      BY <1>1, <1>9, Numbers
    <3> QED BY <1>6, <2>2, <3>1, Numbers
  <2>5. Len(bytes') = (page' - 1) * PageSize + 0
    <3>1. Len(<< >>) = 0 /\ \A p \in Nat : (1 - 1) * p = 0
      OBVIOUS
    <3> QED BY <2>1, <3>1, Numbers
  <2>6. page' \in 1 .. MaxPages
    BY <2>1, Numbers
  <2>7. << >> \in Seq(Cells)
    OBVIOUS
  <2> QED BY <1>1, <1>7, <2>1, <2>2, <2>3, <2>4, <2>5, <2>6, <2>7
<1> QED BY <1>8, <1>9

\* All that is known while caplets are added.
Packing == Typed /\ Placed /\ FullPages /\ OpenPage

\* addCaplet starts.
LEMMA AddCapletStep == ASSUME Packing, NEW len \in Sizes, AddCaplet(len) PROVE Packing'
<1>1. /\ pc = "idle" /\ pc' = "pack" /\ written' = Append(written, len) /\ offset' = 0 /\ appender' = 0
      /\ page' = page /\ used' = used /\ ph' = ph /\ bytes' = bytes /\ cur' = cur /\ ret' = ret /\ file' = file
  BY DEF AddCaplet
<1>2. Typed /\ Placed
  BY DEF Packing
<1>3. ret = << >> /\ ~Mid /\ ~Mid' /\ Made' = Made /\ Out' = Out
  BY <1>1, <1>2 DEF Placed, Mid, Made, Out
<1>4. Append(written, len) \in Seq(Sizes) /\ Append(written, len) # << >>
  BY <1>2, AppendProperties DEF Typed
<1>5. Typed'
  BY <1>1, <1>2, <1>4 DEF Typed
<1>6. Placed'
  BY <1>1, <1>2, <1>3 DEF Placed
<1>7. FullPages'
  <2>1. Mid = FALSE /\ Mid' = FALSE
    BY <1>3 DEF Mid
  <2> QED BY <1>3, <2>1 DEF Packing, FullPages
<1>8. OpenPage'
  BY <1>1, <1>3 DEF Packing, OpenPage
<1> QED BY <1>5, <1>6, <1>7, <1>8 DEF Packing

\* A page that is just begun has no caplets.
LEMMA EmptyPage ==
  ASSUME used' = 0, ph' = NoHeader, NEW l \in Nat, Len(Made') = l
  PROVE  OpenPage' /\ ph' \in Cells
<1>1. StartsOf(Made', l - 0, l) = {}
  BY DEF StartsOf
<1>2. Cardinality({}) = 0
  BY FS_EmptySet
<1>3. /\ NoHeader.kind = "page" /\ NoHeader.id = -1 /\ NoHeader.n = 0 /\ NoHeader.flags = {}
      /\ NoHeader \in Cells
  BY DEF NoHeader, Cells, Kinds
<1>4. StartsOf(Made', Len(Made') - used', Len(Made')) = {}
  BY <1>1
<1>5. Tells(NoHeader, {}, Len(Out')) /\ NoHeader.flags = {} /\ NoHeader.id < 0
  BY <1>2, <1>3 DEF Tells
<1> QED BY <1>3, <1>4, <1>5 DEF OpenPage

\* A page that a caplet does not fit in has one.
LEMMA PageInUse ==
  ASSUME Typed, Placed, pc = "pack", Free < Packed(Length)
  PROVE  used > 0 /\ ph.n > 0 /\ ph.n \in Nat /\ ret = << >> /\ offset = 0 /\ appender = 0 /\ cur = Len(bytes)
<1>1. /\ Packed(Length) \in Nat /\ 2 * Packed(Length) <= Room /\ Free \in Nat /\ Free = Room - used
  BY TheCaplet, Numbers
<1>2. used \in Nat /\ Room \in Nat /\ Room >= 1
  BY Numbers DEF Typed
<1>3. used > 0 /\ ~(2 * used < Room)
  BY <1>1, <1>2
<1>4. ph.n \in Nat /\ ph.n # 0
  BY <1>3 DEF Typed, Placed, Cells
<1>5. ret = << >> /\ ~Mid
  BY <1>3 DEF Placed
<1>6. offset = 0
  BY <1>5 DEF Mid, Typed
<1> QED BY <1>3, <1>4, <1>5, <1>6 DEF Placed

\* The page that x ends says how many caplets start in it, and how it goes on.
TurnOver(x) ==
  \A j \in Nat : MessageOf(j) = Len(Out) => Over(Made \o x, Len(Made) - used, j, offset' > 0)

\* What Skip and Split leave of the caplet and of its position.
TurnedTo(c) ==
  /\ offset' = 0 => appender' = 0
  /\ offset' > 0 => /\ appender' = PageHeader /\ c = Len(bytes)
                    /\ CapHeader + IntSize <= offset' /\ offset' < Packed(Length)

\* A page ends within a caplet, or before it.
LEMMA TurnStep ==
  ASSUME Packing, pc = "pack", Free < Packed(Length), offset' \in Nat, appender' \in Nat,
         NEW x \in Seq(Cells), used + Len(x) = PageSize,
         NEW c \in Nat, c + offset' + appender' = Len(bytes) + Len(x), Turn(x, c), TurnOver(x), TurnedTo(c)
  PROVE  Packing' /\ Made' = Made \o x
<1>1. Typed /\ Placed /\ OpenPage /\ Full(Made, Mid)
  BY DEF Packing, FullPages
<1>2. used > 0 /\ used \in Nat /\ Len(bytes) \in Nat /\ Len(bytes) > 0
  <2>1. used > 0 /\ used \in Nat /\ Len(bytes) \in Nat
    BY <1>1, PageInUse, Where
  <2>2. Len(bytes) = (page - 1) * PageSize + used /\ (page - 1) * PageSize \in Nat
    BY <1>1, Numbers, PageStart DEF Placed, Typed
  <2> QED BY <2>1, <2>2
<1>3. Len(x) \in Nat /\ Len(x) >= 1
  <2>1. Len(x) \in Nat
    BY LenProperties
  <2>2. used < PageSize /\ PageSize \in Nat
    BY <1>1, Where, Numbers
  <2> QED BY <1>2, <2>1, <2>2
<1>4. /\ Made' = Made \o x /\ file' \in Seq(Cells) /\ ret' \in Seq(Cells) /\ bytes' \in Seq(Cells)
      /\ Len(bytes') = (page' - 1) * PageSize + used' /\ used' = 0 /\ page' \in 1 .. MaxPages
      /\ ph' = NoHeader /\ pc' = pc /\ written' = written /\ file' = file
      /\ (ret' # << >> => Len(ret') = BufSize /\ page' = 1)
      /\ IF page' = 1 THEN cur' = 0 /\ bytes' = << >> ELSE cur' = c /\ Len(bytes') = Len(bytes) + Len(x)
  BY <1>1, <1>2, Turns
<1>5. PICK s \in Seq(Cells), n \in Nat : /\ s = Made /\ Len(s) = n * PageSize + used /\ n * PageSize \in Nat
                                         /\ MessageOf(n + 1) = Len(Out) /\ Len(s) \in Nat
  BY <1>1, Where, LenProperties
<1>6. Len(s \o x) \in Nat
  BY LenProperties, Joins
<1>7. OpenPage' /\ ph' \in Cells
  BY <1>4, <1>5, <1>6, EmptyPage
<1>8. PICK mid \in BOOLEAN, mid2 \in BOOLEAN : mid = Mid /\ mid2 = Mid' /\ mid2 = (offset' > 0)
  <2>1. Mid \in BOOLEAN /\ Mid' \in BOOLEAN
    BY DEF Mid
  <2>2. Mid' = (offset' > 0)
    BY <1>4 DEF Mid
  <2> QED BY <2>1, <2>2, Zenon
<1>9. Over(s \o x, n * PageSize, n + 1, mid2)
  <2>1. Len(s) - used = n * PageSize /\ n + 1 \in Nat
    <3>1. PICK a \in Nat : a = n * PageSize
      BY <1>5
    <3>2. Len(s) = a + used
      BY <1>5, <3>1
    <3> QED BY <1>2, <3>1, <3>2
  <2>2. MessageOf(n + 1) = Len(Out) => Over(Made \o x, Len(Made) - used, n + 1, offset' > 0)
    BY <2>1 DEF TurnOver
  <2> QED BY <1>5, <1>8, <2>1, <2>2
<1>10. Full(s \o x, mid2)
  <2>1. PICK u \in Nat : u = used /\ u # 0
    BY <1>2
  <2>2. Len(s) = n * PageSize + u /\ u + Len(x) = PageSize /\ Full(s, mid)
    BY <1>1, <1>5, <1>8, <2>1
  <2> QED BY <1>3, <1>9, <2>1, <2>2, Filled
<1>11. FullPages'
  BY <1>4, <1>5, <1>8, <1>10 DEF FullPages
<1>12. Typed'
  <2>1. used' \in 0 .. Room /\ cur' \in Nat
    <3>1. used' = 0 /\ (cur' = 0 \/ cur' = c)
      BY <1>4
    <3> QED BY <3>1, Numbers
  <2> QED BY <1>1, <1>4, <1>7, <2>1 DEF Typed
<1>13. ~Mid' => cur' = Len(bytes')
  <2> SUFFICES ASSUME ~Mid' PROVE cur' = Len(bytes')
    OBVIOUS
  <2>1. offset' = 0
    BY <1>4 DEF Mid
  <2>2. c = Len(bytes) + Len(x)
    <3>1. appender' = 0
      BY <2>1 DEF TurnedTo
    <3> QED BY <2>1, <3>1
  <2>3. Len(<< >>) = 0
    OBVIOUS
  <2> QED BY <1>4, <2>2, <2>3
<1>14. ASSUME Mid'
       PROVE  /\ used' = 0 /\ appender' = PageHeader
              /\ CapHeader + IntSize <= offset' /\ offset' < Packed(Length')
              /\ page' = 1 => cur' = 0
              /\ page' # 1 => cur' > 0 /\ cur' + offset' + appender' = Len(bytes')
  <2>1. offset' > 0
    BY <1>14 DEF Mid
  <2>2. Length' = Length
    BY <1>4 DEF Length, Id
  <2>3. /\ appender' = PageHeader /\ c = Len(bytes)
        /\ CapHeader + IntSize <= offset' /\ offset' < Packed(Length)
    BY <2>1 DEF TurnedTo
  <2>4. page' # 1 => cur' > 0 /\ cur' + offset' + appender' = Len(bytes')
    BY <1>2, <1>4, <2>3
  <2> QED BY <1>4, <2>2, <2>3, <2>4
<1>15. Placed'
  <2>1. \E k \in Nat : Len(file') = k * BufSize
    BY <1>1, <1>4 DEF Placed
  <2>2. 2 * used' < Room
    BY <1>4, Numbers
  <2>3. offset' = 0 => appender' = 0
    BY DEF TurnedTo
  <2> QED BY <1>4, <1>13, <1>14, <2>1, <2>2, <2>3 DEF Placed
<1> QED BY <1>4, <1>7, <1>11, <1>12, <1>15 DEF Packing

\* The caplet's header does not fit.
LEMMA SkipStep ==
  ASSUME Packing, Skip
  PROVE  Packing' /\ Made' = Made \o PageEnd(ph, Free)
<1>1. /\ pc = "pack" /\ offset = 0 /\ Free < Packed(Length) /\ offset' = offset /\ appender' = appender
      /\ NextPage(bytes \o PageEnd(ph, Free), cur + Free + PageHeader)
  BY DEF Skip
<1>2. Typed /\ Placed /\ OpenPage
  BY DEF Packing
<1>3. /\ ph.n > 0 /\ ph.n \in Nat /\ appender = 0 /\ cur = Len(bytes)
  BY <1>1, <1>2, PageInUse
<1>4. Free \in Nat /\ Free = Room - used /\ used \in Nat
  BY <1>1, <1>2, TheCaplet, Where
<1>5. ph \in Cells /\ ph.kind = "page" /\ ph.flags = {}
  BY <1>2 DEF Typed, OpenPage, Tells
<1>6. PICK x \in Seq(Cells) : x = PageEnd(ph, Free) /\ Len(x) = Free + PageHeader
  BY <1>4, <1>5, PageEndIs DEF Dull
<1>7. used + Len(x) = PageSize
  BY <1>4, <1>6, Numbers
<1>8. PICK c \in Nat : c = cur + Free + PageHeader
  BY <1>2, <1>4, Numbers DEF Typed
<1>9. Turn(x, c)
  BY <1>1, <1>6, <1>8 DEF Turn
<1>10. offset' = 0 /\ appender' = 0
  BY <1>1, <1>3
<1>11. c + offset' + appender' = Len(bytes) + Len(x)
  <2>1. PICK l \in Nat, p \in Nat : l = Len(bytes) /\ p = PageHeader
    BY <1>2, Where, Numbers
  <2>2. c = l + Free + p /\ Len(x) = Free + p
    BY <1>3, <1>6, <1>8, <2>1
  <2>3. c + 0 + 0 = l + Len(x)
    BY <1>4, <2>1, <2>2
  <2> QED BY <1>10, <2>1, <2>3
<1>12. TurnOver(x)
  <2>1. PICK s \in Seq(Cells), a \in Nat : s = Made /\ a = Len(Made) - used /\ Len(s) = a + used
    BY <1>2, Where
  <2>2. Len(s) + Free + PageHeader = a + PageSize /\ a <= Len(s)
    BY <1>4, <2>1, Numbers
  <2>3. /\ HeaderAt(s \o x, a) = ph
        /\ StartsOf(s \o x, a, a + PageSize) = StartsOf(s, a, Len(s))
    BY <1>4, <1>5, <1>6, <2>1, <2>2, PageCloses
  <2>4. ASSUME NEW j \in Nat, MessageOf(j) = Len(Out) PROVE Over(s \o x, a, j, offset' > 0)
    <3>1. Tells(ph, StartsOf(s, a, Len(s)), MessageOf(j))
      BY <1>2, <2>1, <2>4 DEF OpenPage
    <3> QED BY <1>3, <1>5, <1>10, <2>3, <3>1 DEF Over, Headed
  <2> QED BY <2>1, <2>4 DEF TurnOver
<1>13. TurnedTo(c)
  BY <1>10 DEF TurnedTo
<1>14. offset' \in Nat /\ appender' \in Nat
  BY <1>10
<1>15. Packing' /\ Made' = Made \o x
  BY <1>1, <1>7, <1>9, <1>11, <1>12, <1>13, <1>14, TurnStep
<1> QED BY <1>6, <1>15

\* A header with other flags, another count, another offset.
LEMMA WithFlags ==
  ASSUME NEW h \in Cells, NEW d \in SUBSET {"spilled", "last"}
  PROVE  LET g == [h EXCEPT !.flags = d]
         IN  g \in Cells /\ g.flags = d /\ g.id = h.id /\ g.n = h.n /\ g.kind = h.kind
BY DEF Cells

\* The count.
LEMMA WithCount ==
  ASSUME NEW h \in Cells, NEW d \in Nat
  PROVE  LET g == [h EXCEPT !.n = d]
         IN  g \in Cells /\ g.flags = h.flags /\ g.id = h.id /\ g.n = d /\ g.kind = h.kind
BY DEF Cells

\* The offset.
LEMMA WithOffset ==
  ASSUME NEW h \in Cells, NEW d \in Int
  PROVE  LET g == [h EXCEPT !.id = d]
         IN  g \in Cells /\ g.flags = h.flags /\ g.id = d /\ g.n = h.n /\ g.kind = h.kind
BY DEF Cells

\* The header of a page whose last caplet is split.
LEMMA SplitHeaderIs ==
  ASSUME ph \in Cells, ph.flags = {}
  PROVE  /\ SplitHeader \in Cells /\ SplitHeader.kind = ph.kind /\ SplitHeader.n = ph.n + 1
         /\ SplitHeader.id = ph.id /\ SplitHeader.flags = {"spilled"}
<1>1. PICK h \in Cells : h = ph /\ h.flags = {} /\ h.n \in Nat
  BY DEF Cells
<1>2. PICK d \in SUBSET {"spilled", "last"} : d = h.flags \cup {"spilled"} /\ d = {"spilled"}
  BY <1>1
<1>3. PICK g \in Cells : g = [h EXCEPT !.flags = d] /\ g.flags = d /\ g.id = h.id /\ g.n = h.n /\ g.kind = h.kind
  BY WithFlags
<1>4. PICK e \in Nat : e = h.n + 1
  BY <1>1
<1>5. PICK f \in Cells : f = [g EXCEPT !.n = e] /\ f.flags = g.flags /\ f.id = g.id /\ f.n = e /\ f.kind = g.kind
  BY WithCount
<1>6. [h EXCEPT !.flags = @ \cup {"spilled"}, !.n = @ + 1]
        = [[h EXCEPT !.flags = h.flags \cup {"spilled"}] EXCEPT !.n = h.n + 1]
  OBVIOUS
<1>7. SplitHeader = f
  BY <1>1, <1>2, <1>3, <1>4, <1>5, <1>6 DEF SplitHeader
<1> QED BY <1>1, <1>2, <1>3, <1>4, <1>5, <1>7

\* One record, and the header that counts it.
LEMMA Counts ==
  ASSUME Typed, Placed, OpenPage, NEW x, NEW k \in Nat, Opened(x, k), NEW g \in Cells, g.kind = "page",
         g.n = ph.n + 1, ph.n = 0 => g.id = Len(bytes), ph.n > 0 => g.id = ph.id
  PROVE  /\ Made \o x \in Seq(Cells) /\ Len(Made \o x) = Len(Made) + k
         /\ Tells(g, StartsOf(Made \o x, Len(Made) - used, Len(Made) + k), Len(Out)) /\ g.n > 0
<1>1. PICK s \in Seq(Cells), a \in Nat : s = Made /\ a = Len(Made) - used /\ a <= Len(s) /\ Len(s) \in Nat
  <2>1. PICK n \in Nat : Len(Made) = n * PageSize + used /\ n * PageSize \in Nat
    BY Where
  <2>2. PICK a \in Nat : a = n * PageSize
    BY <2>1
  <2>3. used \in Nat /\ Made \in Seq(Cells) /\ Len(Made) = a + used
    BY <2>1, <2>2, Where
  <2> QED BY <2>3
<1>2. x \in Seq(Cells) /\ Len(x) = k
  BY DEF Opened
<1>3. StartsOf(s \o x, a, Len(s) + k) = StartsOf(s, a, Len(s)) \cup {Len(s) + 1}
  BY <1>1, StartsOpened
<1>4. PICK st \in SUBSET (a + 1 .. Len(s)) : st = StartsOf(s, a, Len(s)) /\ IsFiniteSet(st)
  BY <1>1, StartsFinite
<1>5. PICK m \in Nat : m = Len(Out)
  BY Where
<1>6. ph \in Cells /\ Tells(ph, st, m)
  BY <1>1, <1>4, <1>5 DEF Typed, OpenPage
<1>7. ph.n = 0 => g.id >= 0 /\ m + g.id + 1 = Len(s) + 1
  <2>1. Len(s) = m + Len(bytes) /\ Len(bytes) \in Nat
    BY <1>1, <1>5, Where
  <2> QED BY <1>1, <2>1
<1>8. Tells(g, st \cup {Len(s) + 1}, m) /\ g.n > 0
  <2>1. PICK b \in Int, e \in Int, c \in Int : b = Len(s) /\ e = Len(s) + 1 /\ b < e /\ c = a + 1
    BY <1>1
  <2>2. st \in SUBSET (c .. b) /\ IsFiniteSet(st)
    BY <1>4, <2>1
  <2>3. ph.n = 0 => g.id >= 0 /\ m + g.id + 1 = e
    BY <1>7, <2>1
  <2> QED BY <1>6, <2>1, <2>2, <2>3, TellsMore
<1>9. s \o x \in Seq(Cells) /\ Len(s \o x) = Len(s) + k
  BY <1>2, Joins
<1> QED BY <1>1, <1>3, <1>4, <1>5, <1>8, <1>9

\* A caplet is split.
LEMMA SplitStep ==
  ASSUME Packing, Split, NEW part, part = Free - CapHeader - IntSize
  PROVE  Packing' /\ Made' = Made \o (Record(Id, Length, part) \o PageEnd(SplitHeader, 0))
<1>1. /\ pc = "pack" /\ offset = 0 /\ Free < Packed(Length) /\ Free >= CapHeader + 2 * IntSize
      /\ offset' = Free /\ appender' = PageHeader
  BY DEF Split
<1>2. Typed /\ Placed /\ OpenPage
  BY DEF Packing
<1>3. /\ ph.n > 0 /\ ph.n \in Nat /\ cur = Len(bytes) /\ cur \in Nat
  BY <1>1, <1>2, PageInUse DEF Typed
<1>4. /\ Free \in Nat /\ Free = Room - used /\ used \in Nat /\ Id \in Nat /\ Length \in Nat
      /\ bytes \in Seq(Cells)
  BY <1>1, <1>2, TheCaplet, Where DEF Typed
<1>5. ph \in Cells /\ ph.kind = "page" /\ ph.flags = {} /\ ph.id \in Int
  BY <1>2 DEF Typed, OpenPage, Tells, Cells
<1>6. PICK q \in Nat : q = part /\ q = Free - CapHeader - IntSize /\ Packed(q) = Free
  BY <1>1, <1>4, Numbers DEF Packed
<1>7. PICK r \in Seq(Cells) : r = Record(Id, Length, q) /\ Opened(r, Free) /\ Len(r) = Free
  <2>1. PICK len \in Nat, id \in Int : len = Length /\ id = Id
    BY <1>4
  <2>2. Opened(Record(id, len, q), Packed(q))
    BY RecordIs
  <2>3. Opened(Record(id, len, q), Free)
    BY <1>6, <2>2
  <2>4. Record(id, len, q) \in Seq(Cells) /\ Len(Record(id, len, q)) = Free
    BY <2>3 DEF Opened
  <2> QED BY <2>1, <2>3, <2>4
<1>8. PICK g \in Cells : /\ g = SplitHeader /\ g.kind = "page" /\ g.n = ph.n + 1 /\ g.id = ph.id
                         /\ g.flags = {"spilled"}
  BY <1>5, SplitHeaderIs
<1>9. PICK e \in Seq(Cells) : e = PageEnd(g, 0) /\ Len(e) = PageHeader
  <2>1. Dull(PageEnd(g, 0), 0 + PageHeader)
    BY <1>8, PageEndIs
  <2>2. 0 + PageHeader = PageHeader
    BY Numbers
  <2> QED BY <2>1, <2>2 DEF Dull
<1>10. PICK x \in Seq(Cells) : x = r \o e /\ Len(x) = Free + PageHeader
  <2>1. r \o e \in Seq(Cells) /\ Len(r \o e) = Len(r) + Len(e)
    BY Joins
  <2> QED BY <1>7, <1>9, <2>1
<1>11. used + Len(x) = PageSize
  BY <1>4, <1>10, Numbers
<1>12. Turn(x, cur)
  <2>1. PICK len \in Nat, id \in Nat, b \in Seq(Cells) : len = Length /\ id = Id /\ b = bytes
    BY <1>4
  <2>2. b \o Field(Cell("caplet", id, len), CapHeader) \o Field(Cell("length", 0, q), IntSize)
          \o Payload(id, 0, q) = b \o r
    <3>1. id \in Int /\ r = Record(id, len, q)
      BY <1>7, <2>1
    <3> QED BY <3>1, RecordJoins
  <2>3. (b \o r) \o e = b \o (r \o e)
    BY Regroup
  <2>4. NextPage(bytes \o Field(Cell("caplet", Id, Length), CapHeader)
                       \o Field(Cell("length", 0, q), IntSize)
                       \o Payload(Id, 0, q) \o PageEnd(SplitHeader, 0), cur)
    BY <1>6 DEF Split
  <2> QED BY <1>8, <1>9, <1>10, <2>1, <2>2, <2>3, <2>4 DEF Turn
<1>13. cur + offset' + appender' = Len(bytes) + Len(x)
  <2>1. PICK p \in Nat, f \in Nat : p = PageHeader /\ f = Free
    BY <1>4, Numbers
  <2>2. offset' = f /\ appender' = p /\ Len(x) = f + p
    BY <1>1, <1>10, <2>1
  <2>3. cur + f + p = cur + (f + p)
    BY <1>3
  <2> QED BY <1>3, <2>2, <2>3
<1>14. TurnOver(x)
  <2>1. PICK s \in Seq(Cells), a \in Nat : s = Made /\ a = Len(Made) - used /\ Len(s) = a + used
    <3>1. PICK n \in Nat : Len(Made) = n * PageSize + used /\ n * PageSize \in Nat
      BY <1>2, Where
    <3>2. PICK a \in Nat : a = n * PageSize /\ Len(Made) = a + used
      BY <3>1
    <3>3. a = Len(Made) - used
      BY <1>4, <3>2
    <3> QED BY <1>2, <3>2, <3>3, Where
  <2>2. /\ s \o r \in Seq(Cells) /\ Len(s \o r) = Len(s) + Free
        /\ Tells(g, StartsOf(s \o r, a, Len(s) + Free), Len(Out)) /\ g.n > 0
    <3>1. (ph.n = 0 => g.id = Len(bytes)) /\ (ph.n > 0 => g.id = ph.id) /\ g.n = ph.n + 1 /\ g.kind = "page"
      BY <1>3, <1>8
    <3>2. PICK f \in Nat : f = Free /\ Opened(r, f)
      BY <1>4, <1>7
    <3>3. /\ Made \o r \in Seq(Cells) /\ Len(Made \o r) = Len(Made) + f
          /\ Tells(g, StartsOf(Made \o r, Len(Made) - used, Len(Made) + f), Len(Out)) /\ g.n > 0
      BY <1>2, <3>1, <3>2, Counts
    <3> QED BY <2>1, <3>2, <3>3
  <2>3. PICK z \in Seq(Cells) : z = s \o r /\ Len(z) = Len(s) + Free
    BY <2>2
  <2>4. Len(z) + 0 + PageHeader = a + PageSize /\ a <= Len(z)
    <3>1. PICK f \in Nat, u \in Nat : f = Free /\ u = used /\ u + f + PageHeader = PageSize
      BY <1>4, Numbers
    <3>2. Len(z) = (a + u) + f
      BY <2>1, <2>3, <3>1
    <3>3. PageHeader \in Nat /\ PageSize \in Nat
      BY Numbers
    <3> QED BY <3>1, <3>2, <3>3
  <2>5. /\ HeaderAt(z \o e, a) = g
        /\ StartsOf(z \o e, a, a + PageSize) = StartsOf(z, a, Len(z))
    BY <1>8, <1>9, <2>4, PageCloses
  <2>6. z \o e = s \o x
    <3>1. Cat(Cat(s, r), e) = Cat(s, Cat(r, e))
      BY CatRegroups
    <3> QED BY <1>10, <2>3, <3>1, Zenon DEF Cat
  <2>7. ASSUME NEW j \in Nat, MessageOf(j) = Len(Out) PROVE Over(s \o x, a, j, offset' > 0)
    <3>1. Tells(g, StartsOf(s \o x, a, a + PageSize), MessageOf(j))
      BY <2>2, <2>3, <2>5, <2>6, <2>7
    <3>2. HeaderAt(s \o x, a) = g
      BY <2>5, <2>6
    <3>3. offset' > 0
      BY <1>1, <1>4, Numbers
    <3>4. "last" \notin g.flags /\ "spilled" \in g.flags
      BY <1>8
    <3> QED BY <2>2, <3>1, <3>2, <3>3, <3>4 DEF Over, Headed
  <2> QED BY <2>1, <2>7 DEF TurnOver
<1>15. TurnedTo(cur)
  <2>1. CapHeader + IntSize <= Free /\ Free # 0
    BY <1>1, <1>4, Numbers
  <2> QED BY <1>1, <1>3, <2>1 DEF TurnedTo
<1>16. offset' \in Nat /\ appender' \in Nat
  BY <1>1, <1>4, Numbers
<1>17. Packing' /\ Made' = Made \o x
  BY <1>1, <1>3, <1>11, <1>12, <1>13, <1>14, <1>15, <1>16, TurnStep
<1> QED BY <1>6, <1>7, <1>8, <1>9, <1>10, <1>17

\* With x behind it the header is right.
Counted(x) == Tells(ph', StartsOf(Made \o x, Len(Made) - used, Len(Made) + Len(x)), Len(Out))

\* A caplet, or the rest of one, that fits: x is put in the message.
LEMMA Fit ==
  ASSUME Packing, pc = "pack", Return, NEW x \in Seq(Cells), bytes' = bytes \o x, Len(x) >= 1,
         used' = used + Len(x), used' <= Room, offset' \in Nat, cur' = Len(bytes'), ph' \in Cells,
         ph'.n = 0 => 2 * used' < Room, ph'.flags = {}, ph'.n = 0 => ph'.id < 0,
         used = 0 => (x[1].kind = "payload" <=> Mid),
         Counted(x)
  PROVE  Packing' /\ Made' = Made \o x
<1>1. Typed /\ Placed /\ Full(Made, Mid)
  BY DEF Packing, FullPages
<1>2. /\ pc' = "idle" /\ file' = file \o ret /\ ret' = << >> /\ appender' = appender /\ page' = page
      /\ written' = written
  BY DEF Return
<1>3. /\ Made' = Made \o x /\ Out' = Out
      /\ file' \in Seq(Cells) /\ ret' \in Seq(Cells) /\ bytes' \in Seq(Cells)
      /\ Len(bytes') = Len(bytes) + Len(x)
  BY <1>1, <1>2, Packs
<1>4. PICK s \in Seq(Cells), n \in Nat, a \in Nat :
         s = Made /\ Len(s) = n * PageSize + used /\ Len(s) \in Nat /\ a = n * PageSize
  BY <1>1, Where, LenProperties
<1>5. used \in Nat /\ Len(x) \in Nat /\ Len(bytes) \in Nat
  BY <1>1, Where, LenProperties
<1>6. Full(s \o x, FALSE)
  <2>1. PICK mid \in BOOLEAN : mid = Mid
    BY <1>1, Where
  <2>2. PICK u \in Nat : u = used /\ u + Len(x) < PageSize /\ Len(s) = n * PageSize + u
    BY <1>3, <1>4, <1>5, Numbers
  <2>3. Full(s, mid) /\ (u = 0 => (x[1].kind = "payload" <=> mid))
    BY <1>1, <1>4, <2>1, <2>2
  <2>4. FALSE \in BOOLEAN
    OBVIOUS
  <2> QED BY <2>2, <2>3, <2>4, Grows
<1>7. Mid' = FALSE
  BY <1>2 DEF Mid
<1>8. FullPages'
  BY <1>3, <1>4, <1>6, <1>7 DEF FullPages
<1>9. OpenPage'
  <2>1. Len(Made') = Len(s) + Len(x) /\ Len(Made') - used' = Len(s) - used
    <3>1. Len(s \o x) = Len(s) + Len(x)
      BY Joins
    <3>2. PICK u \in Nat, l \in Nat, k \in Nat : u = used /\ l = Len(x) /\ k = Len(s)
      BY <1>4, <1>5
    <3>3. Len(Made') = k + l /\ used' = u + l
      BY <1>3, <1>4, <3>1, <3>2
    <3>4. (k + l) - (u + l) = k - u
      BY <3>2
    <3> QED BY <3>2, <3>3, <3>4
  <2> QED BY <1>3, <1>4, <2>1 DEF OpenPage, Counted
<1>10. Typed'
  <2>1. used' \in 0 .. Room /\ cur' \in Nat
    <3>1. Len(bytes) + Len(x) \in Nat /\ used + Len(x) \in Nat
      BY <1>5
    <3> QED BY <1>3, <3>1, Numbers
  <2> QED BY <1>1, <1>2, <1>3, <2>1 DEF Typed
<1>11. Placed'
  <2>1. \E k \in Nat : Len(file') = k * BufSize
    BY <1>1, <1>2, Where DEF Out
  <2>2. Len(bytes') = (page' - 1) * PageSize + used'
    <3>1. PICK z \in Nat : z = (page - 1) * PageSize /\ Len(bytes) = z + used
      BY <1>1, Numbers, PageStart DEF Placed, Typed
    <3>2. Len(bytes') = z + used'
      BY <1>3, <1>5, <3>1
    <3> QED BY <1>2, <3>1, <3>2
  <2> QED BY <1>2, <1>7, <2>1, <2>2 DEF Placed
<1> QED BY <1>3, <1>8, <1>9, <1>10, <1>11 DEF Packing

\* The header that counts one more caplet, and knows where the first starts.
LEMMA WholeHeaderIs ==
  ASSUME ph \in Cells, NEW l \in Nat,
         NEW g, g = [ph EXCEPT !.n = @ + 1, !.id = IF @ < 0 THEN l ELSE @]
  PROVE  /\ g \in Cells /\ g.kind = ph.kind /\ g.n = ph.n + 1 /\ g.flags = ph.flags
         /\ g.id = IF ph.id < 0 THEN l ELSE ph.id
<1>1. PICK h \in Cells : h = ph /\ h.n \in Nat /\ h.id \in Int
  BY DEF Cells
<1>2. PICK e \in Nat, d \in Int : e = h.n + 1 /\ d = IF h.id < 0 THEN l ELSE h.id
  <2>1. (IF h.id < 0 THEN l ELSE h.id) \in Int /\ h.n + 1 \in Nat
    BY <1>1
  <2> QED BY <2>1
<1>3. PICK f \in Cells : f = [h EXCEPT !.n = e] /\ f.flags = h.flags /\ f.id = h.id /\ f.n = e /\ f.kind = h.kind
  BY WithCount
<1>4. PICK q \in Cells : q = [f EXCEPT !.id = d] /\ q.flags = f.flags /\ q.id = d /\ q.n = f.n /\ q.kind = f.kind
  BY WithOffset
<1>5. [h EXCEPT !.n = @ + 1, !.id = IF @ < 0 THEN l ELSE @]
        = [[h EXCEPT !.n = h.n + 1] EXCEPT !.id = IF h.id < 0 THEN l ELSE h.id]
  OBVIOUS
<1>6. g = q
  BY <1>1, <1>2, <1>3, <1>4, <1>5
<1> QED BY <1>1, <1>2, <1>3, <1>4, <1>6

\* A caplet that fits.
LEMMA WholeStep ==
  ASSUME Packing, Whole
  PROVE  Packing' /\ Made' = Made \o Record(Id, Length, Length)
<1>1. /\ pc = "pack" /\ offset = 0 /\ Free >= Packed(Length) /\ used' = used + Packed(Length)
      /\ cur' = cur + Packed(Length) + appender /\ offset' = Packed(Length) /\ Return
      /\ ph' = [ph EXCEPT !.n = @ + 1, !.id = IF @ < 0 THEN Len(bytes) ELSE @]
  BY DEF Whole
<1>2. Typed /\ Placed /\ OpenPage
  BY DEF Packing
<1>3. /\ Free \in Nat /\ Free = Room - used /\ used \in Nat /\ Id \in Nat /\ Length \in Nat
      /\ Packed(Length) = CapHeader + IntSize + Length /\ Len(bytes) \in Nat /\ Len(Made) \in Nat
  BY <1>1, <1>2, TheCaplet, Where, LenProperties
<1>4. /\ ph \in Cells /\ ph.kind = "page" /\ ph.flags = {} /\ (ph.n = 0 => ph.id < 0)
      /\ (ph.n > 0 => ph.id >= 0)
  BY <1>2 DEF Typed, OpenPage, Tells
<1>5. ph.n \in Nat /\ ph.id \in Int
  BY <1>4 DEF Cells
<1>6. /\ ph' \in Cells /\ ph'.kind = "page" /\ ph'.n = ph.n + 1 /\ ph'.flags = {}
      /\ (ph.n = 0 => ph'.id = Len(bytes)) /\ (ph.n > 0 => ph'.id = ph.id)
  <2>1. /\ ph' \in Cells /\ ph'.kind = ph.kind /\ ph'.n = ph.n + 1 /\ ph'.flags = ph.flags
        /\ ph'.id = IF ph.id < 0 THEN Len(bytes) ELSE ph.id
    <3>1. PICK l \in Nat : l = Len(bytes)
      BY <1>3
    <3>2. PICK g : g = ph' /\ g = [ph EXCEPT !.n = @ + 1, !.id = IF @ < 0 THEN l ELSE @]
      BY <1>1, <3>1
    <3>3. /\ g \in Cells /\ g.kind = ph.kind /\ g.n = ph.n + 1 /\ g.flags = ph.flags
          /\ g.id = IF ph.id < 0 THEN l ELSE ph.id
      BY <1>4, <3>2, WholeHeaderIs
    <3> QED BY <3>1, <3>2, <3>3
  <2> QED BY <1>4, <1>5, <2>1
<1>7. PICK k \in Nat : k = Packed(Length) /\ k >= 1
  BY <1>3, Numbers
<1>8. PICK x \in Seq(Cells) : x = Record(Id, Length, Length) /\ Opened(x, k) /\ Len(x) = k
  <2>1. PICK len \in Nat, id \in Int : len = Length /\ id = Id
    BY <1>3
  <2>2. Opened(Record(id, len, len), Packed(len))
    BY RecordIs
  <2>3. Opened(Record(id, len, len), k)
    BY <1>7, <2>1, <2>2
  <2>4. Record(id, len, len) \in Seq(Cells) /\ Len(Record(id, len, len)) = k
    BY <2>3 DEF Opened
  <2> QED BY <2>1, <2>3, <2>4
<1>9. bytes' = bytes \o x
  <2>1. PICK len \in Nat, id \in Int, b \in Seq(Cells) : len = Length /\ id = Id /\ b = bytes
    BY <1>2, <1>3 DEF Typed
  <2>2. b \o Field(Cell("caplet", id, len), CapHeader) \o Field(Cell("length", 0, len), IntSize)
          \o Payload(id, 0, len) = b \o Record(id, len, len)
    BY RecordJoins
  <2> QED BY <1>8, <2>1, <2>2 DEF Whole
<1>10. Counted(x)
  <2>1. Tells(ph', StartsOf(Made \o x, Len(Made) - used, Len(Made) + k), Len(Out))
    <3>1. PICK g \in Cells : g = ph'
      BY <1>6
    <3> QED BY <1>2, <1>6, <1>8, <3>1, Counts
  <2> QED BY <1>8, <2>1 DEF Counted
<1>11. ~Mid /\ appender = 0 /\ cur = Len(bytes)
  BY <1>1, <1>2 DEF Mid, Placed
<1>12. cur' = Len(bytes') /\ offset' \in Nat
  <2>1. Len(bytes \o x) = Len(bytes) + Len(x)
    BY <1>2, Joins DEF Typed
  <2> QED BY <1>1, <1>3, <1>7, <1>8, <1>9, <1>11, <2>1
<1>13. used' = used + Len(x) /\ used' <= Room
  <2>1. PICK u \in Nat, f \in Nat, r \in Nat : u = used /\ f = Free /\ r = Room
    BY <1>3, Numbers
  <2>2. used' = u + k /\ f >= k /\ f = r - u /\ Len(x) = k
    BY <1>1, <1>3, <1>7, <1>8, <2>1
  <2>3. u + k <= r
    BY <2>1, <2>2
  <2> QED BY <2>1, <2>2, <2>3
<1>14. x[1].kind # "payload"
  BY <1>8 DEF Opened
<1>15. ph'.n # 0
  BY <1>5, <1>6
<1>16. used = 0 => (x[1].kind = "payload" <=> Mid)
  BY <1>11, <1>14
<1>17. Packing' /\ Made' = Made \o x
  BY <1>1, <1>6, <1>7, <1>8, <1>9, <1>10, <1>12, <1>13, <1>15, <1>16, Fit
<1> QED BY <1>8, <1>17

\* The rest of a split caplet.
LEMMA RestStep ==
  ASSUME Packing, Rest
  PROVE  /\ Packing'
         /\ Made' = Made \o Payload(Id, offset - CapHeader - IntSize, Packed(Length) - offset)
<1>1. /\ pc = "pack" /\ offset > 0 /\ Free >= Packed(Length) - offset
      /\ bytes' = bytes \o Payload(Id, offset - CapHeader - IntSize, Packed(Length) - offset)
      /\ used' = used + (Packed(Length) - offset) /\ cur' = cur + RestRecord(Packed(Length) - offset)
      /\ offset' = Packed(Length) /\ ph' = ph /\ Return
  BY DEF Rest
<1>2. Typed /\ Placed /\ OpenPage
  BY DEF Packing
<1>3. /\ Free \in Nat /\ Free = Room - used /\ used \in Nat /\ Id \in Nat /\ Length \in Nat
      /\ Packed(Length) = CapHeader + IntSize + Length /\ 2 * Packed(Length) <= Room
      /\ Len(bytes) \in Nat /\ Len(Made) \in Nat
  BY <1>1, <1>2, TheCaplet, Where, LenProperties
<1>4. /\ Mid /\ used = 0 /\ appender = PageHeader
      /\ CapHeader + IntSize <= offset /\ offset < Packed(Length)
      /\ page = 1 => cur = 0
      /\ page # 1 => cur > 0 /\ cur + offset + appender = Len(bytes)
      /\ offset \in Nat /\ cur \in Nat
  BY <1>1, <1>2 DEF Mid, Placed, Typed
<1>5. PICK r \in Nat, f \in Nat : /\ r = Packed(Length) - offset /\ r >= 1
                                  /\ f = offset - CapHeader - IntSize
  BY <1>3, <1>4, Numbers
<1>6. PICK x \in Seq(Cells) : x = Payload(Id, f, r) /\ Dull(x, r) /\ Len(x) = r /\ x[1].kind = "payload"
  <2>1. PICK id \in Int : id = Id
    BY <1>3
  <2>2. Dull(Payload(id, f, r), r) /\ \A i \in 1 .. r : Payload(id, f, r)[i].kind = "payload"
    BY PayloadIs
  <2>3. 1 \in 1 .. r
    BY <1>5
  <2>4. Payload(id, f, r) \in Seq(Cells) /\ Len(Payload(id, f, r)) = r
    BY <2>2 DEF Dull
  <2> QED BY <2>1, <2>2, <2>3, <2>4
<1>7. bytes' = bytes \o x
  BY <1>1, <1>5, <1>6
<1>8. Len(bytes') = Len(bytes) + r
  <2>1. Len(bytes \o x) = Len(bytes) + Len(x)
    BY <1>2, Joins DEF Typed
  <2> QED BY <1>6, <1>7, <2>1
<1>9. cur' = Len(bytes')
  <2>1. CASE page = 1
    <3>1. Len(bytes) = 0
      <4>1. \A p \in Nat : (1 - 1) * p = 0
        OBVIOUS
      <4>2. Len(bytes) = (1 - 1) * PageSize + 0
        BY <1>2, <1>4, <2>1 DEF Placed
      <4> QED BY <4>1, <4>2, Numbers
    <3>2. cur' = 0 + r
      BY <1>1, <1>4, <1>5, <2>1 DEF RestRecord
    <3> QED BY <1>5, <1>8, <3>1, <3>2
  <2>2. CASE page # 1
    <3>1. cur' = cur + (Packed(Length) + appender)
      BY <1>1, <1>4, <2>2 DEF RestRecord
    <3>2. PICK p \in Nat, a \in Nat : p = Packed(Length) /\ a = appender
      BY <1>2, <1>3, Numbers DEF Typed
    <3>3. cur + offset + a = Len(bytes) /\ r = p - offset
      BY <1>4, <1>5, <2>2, <3>2
    <3>4. PICK c \in Nat, o \in Nat, l \in Nat : c = cur /\ o = offset /\ l = Len(bytes)
      BY <1>3, <1>4
    <3>5. c + o + a = l /\ r = p - o
      BY <3>3, <3>4
    <3>6. c + (p + a) = l + r
      <4>1. \A i, j, m, n \in Nat : i + (m + n) = (i + j + n) + (m - j)
        OBVIOUS
      <4>2. c + (p + a) = (c + o + a) + (p - o)
        BY <4>1
      <4> QED BY <3>5, <4>2
    <3> QED BY <1>8, <3>1, <3>2, <3>4, <3>6
  <2> QED BY <2>1, <2>2
<1>10. Counted(x)
  <2>1. PICK s \in Seq(Cells), a \in Nat : s = Made /\ a = Len(Made) - used /\ a <= Len(s)
    <3>1. Made \in Seq(Cells) /\ Len(Made) \in Nat
      BY <1>2, Where, LenProperties
    <3> QED BY <1>4, <3>1
  <2>2. StartsOf(s \o x, a, Len(s) + r) = StartsOf(s, a, Len(s))
    BY <1>6, <2>1, StartsDull
  <2>3. Tells(ph, StartsOf(s, a, Len(s)), Len(Out))
    BY <1>2, <2>1 DEF OpenPage
  <2> QED BY <1>1, <1>6, <2>1, <2>2, <2>3 DEF Counted
<1>11. used' = used + Len(x) /\ used' <= Room /\ 2 * used' < Room
  <2>1. PICK p \in Nat : p = Packed(Length) /\ 2 * p <= Room /\ r = p - offset /\ offset >= 1
    BY <1>1, <1>3, <1>4, <1>5, Numbers
  <2>2. used' = 0 + r
    BY <1>1, <1>4, <1>5
  <2> QED BY <1>4, <1>5, <1>6, <2>1, <2>2, Numbers
<1>12. offset' \in Nat
  BY <1>1, <1>3, Numbers
<1>13. ph' \in Cells /\ ph'.flags = {} /\ (ph'.n = 0 => ph'.id < 0)
  BY <1>1, <1>2 DEF Typed, OpenPage
<1>14. used = 0 => (x[1].kind = "payload" <=> Mid)
  BY <1>4, <1>6
<1>15. Len(x) >= 1
  BY <1>5, <1>6
<1>16. Packing' /\ Made' = Made \o x
  BY <1>1, <1>7, <1>9, <1>10, <1>11, <1>12, <1>13, <1>14, <1>15, Fit
<1> QED BY <1>5, <1>6, <1>16

\* HeadersExact, of a file and of who is at it.
Exact(z, w) ==
  /\ Len(z) % PageSize = 0
  /\ \A j \in 1 .. Len(z) \div PageSize :
       LET h == HeaderAt(z, (j - 1) * PageSize)
           st == {i \in CellsOf(j) : z[i].kind = "caplet"} IN
       /\ h.kind = "page"
       /\ h.n = Cardinality(st)
       /\ h.n > 0 => /\ MessageOf(j) + h.id + 1 \in st
                     /\ \A i \in st : MessageOf(j) + h.id + 1 <= i
       /\ j + 1 \in 1 .. Len(z) \div PageSize =>
            Flagged(h, "spilled") = (z[j * PageSize + 1].kind = "payload")
       /\ Flagged(h, "last") = (~w /\ j + 1 \notin 1 .. Len(z) \div PageSize)

\* Page j of the c pages of z, of which only the last may be empty.
Page(z, c, j, w) ==
  LET a == (j - 1) * PageSize
      h == HeaderAt(z, a) IN
  /\ Tells(h, StartsOf(z, a, a + PageSize), MessageOf(j))
  /\ w \/ j < c => h.n > 0 /\ "last" \notin h.flags
  /\ j < c => ("spilled" \in h.flags <=> z[a + PageSize + 1].kind = "payload")
  /\ ~w /\ j = c => "last" \in h.flags

\* Page j of the c pages of a complete file: the last has that flag and no other.
Final(z, c, j) == /\ Page(z, c, j, FALSE)
                  /\ j = c => HeaderAt(z, (j - 1) * PageSize).flags = {"last"}

Complete(z) == \E c \in Nat : Len(z) = c * PageSize /\ \A j \in 1 .. c : Final(z, c, j)

\* A file of such pages is right.
LEMMA ExactFrom ==
  ASSUME NEW z \in Seq(Cells), NEW c \in Nat, Len(z) = c * PageSize, NEW w \in BOOLEAN,
         \A j \in 1 .. c : Page(z, c, j, w)
  PROVE  Exact(z, w)
<1>1. Len(z) \div PageSize = c /\ Len(z) % PageSize = 0
  <2>1. PICK p \in Nat : p = PageSize /\ 0 < p
    BY Numbers
  <2>2. (c * p + 0) \div p = c /\ (c * p + 0) % p = 0
    BY <2>1, Divides
  <2>3. c * p + 0 = c * p
    BY <2>1
  <2> QED BY <2>1, <2>2, <2>3
<1>2. ASSUME NEW j \in 1 .. c
      PROVE  LET h == HeaderAt(z, (j - 1) * PageSize)
                 st == {i \in CellsOf(j) : z[i].kind = "caplet"} IN
             /\ h.kind = "page"
             /\ h.n = Cardinality(st)
             /\ h.n > 0 => /\ MessageOf(j) + h.id + 1 \in st
                           /\ \A i \in st : MessageOf(j) + h.id + 1 <= i
             /\ j + 1 \in 1 .. c => Flagged(h, "spilled") = (z[j * PageSize + 1].kind = "payload")
             /\ Flagged(h, "last") = (~w /\ j + 1 \notin 1 .. c)
  <2>1. PICK a \in Nat : a = (j - 1) * PageSize /\ a + PageSize = j * PageSize
    <3>1. j \in Nat \ {0}
      OBVIOUS
    <3> QED BY <3>1, PageStart
  <2>2. a + PageSize <= Len(z)
    <3>1. j * PageSize <= c * PageSize
      <4>1. j = c \/ j < c
        OBVIOUS
      <4>2. PageSize \in Nat /\ j * PageSize \in Nat
        BY Numbers
      <4> QED BY <4>1, <4>2, MoreIsLonger
    <3> QED BY <2>1, <3>1
  <2>3. PICK h \in Cells : h = HeaderAt(z, a)
    <3>1. a + Room + 1 \in 1 .. Len(z)
      <4>1. Len(z) \in Nat
        BY LenProperties
      <4> QED BY <2>2, <4>1, Numbers
    <3>2. z[a + Room + 1] \in Cells
      BY <3>1, ElementOfSeq
    <3> QED BY <3>2 DEF HeaderAt
  <2>4. PICK st : st = {i \in CellsOf(j) : z[i].kind = "caplet"} /\ st = StartsOf(z, a, a + PageSize)
    BY <2>1 DEF CellsOf, StartsOf
  <2>5. /\ Tells(h, st, MessageOf(j))
        /\ w \/ j < c => h.n > 0 /\ "last" \notin h.flags
        /\ j < c => ("spilled" \in h.flags <=> z[a + PageSize + 1].kind = "payload")
        /\ ~w /\ j = c => "last" \in h.flags
    BY <2>1, <2>3, <2>4 DEF Page
  <2>6. h.n > 0 => ~(h.id < 0)
    <3>1. h.id \in Int
      BY DEF Cells
    <3> QED BY <2>5, <3>1 DEF Tells
  <2>7. j + 1 \in 1 .. c <=> j < c
    OBVIOUS
  <2>8. j + 1 \in 1 .. c => Flagged(h, "spilled") = (z[j * PageSize + 1].kind = "payload")
    <3>1. j < c => (Flagged(h, "spilled") <=> z[j * PageSize + 1].kind = "payload")
      BY <2>1, <2>5, <2>6 DEF Flagged
    <3> QED BY <2>7, <3>1 DEF Flagged
  <2>9. Flagged(h, "last") = (~w /\ j + 1 \notin 1 .. c)
    <3>1. w \/ j < c \/ j = c
      OBVIOUS
    <3>2. Flagged(h, "last") <=> ~w /\ ~(j < c)
      BY <2>5, <2>6, <3>1 DEF Flagged
    <3> QED BY <2>7, <3>2 DEF Flagged
  <2> QED BY <2>1, <2>3, <2>4, <2>5, <2>8, <2>9 DEF Tells
<1> QED BY <1>1, <1>2 DEF Exact

\* The invariant's own words for it.
LEMMA ExactIs ==
  /\ HeadersExact <=> Exact(file, Writing)
  /\ HeadersExact' <=> Exact(file', Writing')
BY DEF HeadersExact, Exact, Writing, Pages, StartsIn

\* While caplets are added the file holds pages that are over.
LEMMA Written == ASSUME Packing PROVE Exact(file, TRUE)
<1>1. Typed /\ Placed /\ Full(Made, Mid)
  BY DEF Packing, FullPages
<1>2. PICK z \in Seq(Cells), r \in Seq(Cells), b \in Seq(Cells) : z = file /\ r = ret /\ b = bytes
  BY <1>1 DEF Typed
<1>3. PICK x \in Seq(Cells) : x = r \o b /\ Made = z \o x
  <2>1. r \o b \in Seq(Cells)
    BY Joins
  <2>2. (z \o r) \o b = z \o (r \o b)
    BY Regroup
  <2> QED BY <1>2, <2>1, <2>2 DEF Made, Out
<1>4. /\ Len(z) \in Nat /\ Len(x) \in Nat /\ Len(z \o x) = Len(z) + Len(x)
      /\ \A i \in 1 .. Len(z) : (z \o x)[i] = z[i]
  BY Joins
<1>5. PICK c \in Nat : Len(z) = c * PageSize
  <2>1. PICK k \in Nat : Len(z) = k * BufSize
    BY <1>1, <1>2 DEF Placed
  <2>2. PICK m \in Nat, p \in Nat : m = MaxPages /\ p = PageSize /\ BufSize = m * p
    BY Numbers
  <2>3. k * (m * p) = (k * m) * p /\ k * m \in Nat
    OBVIOUS
  <2> QED BY <2>1, <2>2, <2>3
<1>6. ASSUME NEW j \in 1 .. c PROVE Page(z, c, j, TRUE)
  <2>1. PICK a \in Nat : a = (j - 1) * PageSize /\ a + PageSize = j * PageSize
    <3>1. j \in Nat \ {0}
      OBVIOUS
    <3> QED BY <3>1, PageStart
  <2>2. j * PageSize <= Len(z) /\ (j < c => a + PageSize < Len(z))
    <3>1. PageSize \in Nat /\ PageSize >= 1 /\ j * PageSize \in Nat
      BY Numbers
    <3>2. j < c => j * PageSize + PageSize <= c * PageSize
      BY <3>1, MoreIsLonger
    <3>3. j = c \/ j < c
      OBVIOUS
    <3> QED BY <1>4, <1>5, <2>1, <3>1, <3>2, <3>3
  <2>3. j * PageSize <= Len(z \o x) /\ j \in Nat \ {0}
    <3>1. j * PageSize \in Nat
      BY Numbers
    <3> QED BY <1>4, <2>2, <3>1
  <2>4. Headed(z \o x, a, MessageOf(j)) /\ Spills(z \o x, a, Mid)
    BY <1>1, <1>3, <2>1, <2>3 DEF Full
  <2>5. PICK h : h = HeaderAt(z, a) /\ HeaderAt(z \o x, a) = h
    BY <2>1, <2>2, PageStays
  <2>6. StartsOf(z \o x, a, a + PageSize) = StartsOf(z, a, a + PageSize)
    BY <2>1, <2>2, PageStays
  <2>7. Tells(h, StartsOf(z, a, a + PageSize), MessageOf(j)) /\ h.n > 0 /\ "last" \notin h.flags
    BY <2>4, <2>5, <2>6 DEF Headed
  <2>8. j < c => ("spilled" \in h.flags <=> z[a + PageSize + 1].kind = "payload")
    <3> SUFFICES ASSUME j < c PROVE "spilled" \in h.flags <=> z[a + PageSize + 1].kind = "payload"
      OBVIOUS
    <3>1. PICK e \in Nat : e = a + PageSize /\ e < Len(z)
      BY <2>2, Numbers
    <3>2. e < Len(z \o x) /\ (z \o x)[e + 1] = z[e + 1]
      BY <1>4, <3>1
    <3> QED BY <2>4, <2>5, <3>1, <3>2 DEF Spills
  <2> QED BY <2>1, <2>5, <2>7, <2>8 DEF Page
<1> QED BY <1>2, <1>5, <1>6, ExactFrom

\* The header of the last page.
LastHeader == [ph EXCEPT !.flags = @ \cup {"last"}]

\* The end of the session: the last page ends, and what is left is written.
LEMMA FinishStep ==
  ASSUME Packing, FinishWritingCaplets
  PROVE  Typed' /\ ~Writing' /\ Exact(file', FALSE) /\ file' = Made \o PageEnd(LastHeader, Free)
         /\ Complete(file')
<1>1. /\ pc = "idle" /\ pc' = "closed" /\ written' = written /\ offset' = offset /\ appender' = appender
      /\ page' = page /\ used' = used /\ ph' = ph /\ bytes' = bytes /\ cur' = cur /\ ret' = ret
  BY DEF FinishWritingCaplets
<1>2. Typed /\ Placed /\ OpenPage /\ Full(Made, Mid)
  BY DEF Packing, FullPages
<1>3. Mid = FALSE /\ ret = << >> /\ cur = Len(bytes)
  BY <1>1, <1>2 DEF Mid, Placed
<1>4. /\ file \in Seq(Cells) /\ bytes \in Seq(Cells) /\ used \in 0 .. Room /\ page \in 1 .. MaxPages
      /\ Len(bytes) = (page - 1) * PageSize + used
  BY <1>2 DEF Typed, Placed
<1>5. PICK f \in Nat, u \in Nat : f = Free /\ u = used /\ u + f = Room /\ (u = 0 => f > 0)
  BY <1>4, Numbers DEF Free
<1>6. PICK g \in Cells : /\ g = LastHeader /\ g.kind = "page" /\ g.flags = {"last"}
                         /\ g.n = ph.n /\ g.id = ph.id
  <2>1. PICK h \in Cells : h = ph /\ h.flags = {} /\ h.kind = "page"
    BY <1>2 DEF Typed, OpenPage, Tells
  <2>2. PICK d \in SUBSET {"spilled", "last"} : d = h.flags \cup {"last"} /\ d = {"last"}
    BY <2>1
  <2>3. PICK q \in Cells : q = [h EXCEPT !.flags = d] /\ q.flags = d /\ q.id = h.id /\ q.n = h.n /\ q.kind = h.kind
    BY WithFlags
  <2>4. LastHeader = [h EXCEPT !.flags = d]
    BY <2>1, <2>2 DEF LastHeader
  <2> QED BY <2>1, <2>2, <2>3, <2>4
<1>7. PICK x \in Seq(Cells) : /\ x = PageEnd(g, f) /\ Len(x) = f + PageHeader /\ Len(x) >= 1
                              /\ (f > 0 => x[1].kind = "filler")
  <2>1. Dull(PageEnd(g, f), f + PageHeader) /\ (f > 0 => PageEnd(g, f)[1].kind = "filler")
    BY <1>6, PageEndIs
  <2> QED BY <2>1, Numbers DEF Dull
<1>8. u + Len(x) = PageSize
  BY <1>5, <1>7, Numbers
<1>9. PICK b \in Seq(Cells) : b = bytes \o x /\ Len(b) = Len(bytes) + Len(x) /\ Len(bytes) \in Nat
  BY <1>4, Joins
<1>10. cur + (PageSize - (cur % PageSize)) = Len(b)
  <2>1. PICK p \in Nat : p = PageSize /\ u < p
    BY <1>5, Numbers
  <2>2. PICK k \in Nat : k = page - 1
    BY <1>4, Numbers
  <2>3. (k * p + u) % p = u
    BY <2>1, Divides
  <2>4. cur = k * p + u
    BY <1>3, <1>4, <1>5, <2>1, <2>2
  <2>5. cur % PageSize = u
    BY <2>1, <2>3, <2>4
  <2>6. PICK l \in Nat, m \in Nat : l = Len(bytes) /\ m = Len(x) /\ u + m = p
    BY <1>7, <1>8, <1>9, <2>1, LenProperties
  <2>7. l + (p - u) = l + m
    BY <2>1, <2>6
  <2> QED BY <1>3, <1>9, <2>1, <2>5, <2>6, <2>7
<1>11. file' = file \o b
  <2>1. SubSeq(b, 1, Len(b)) = b
    BY SubSeqFull
  <2>2. file' = file \o SubSeq(bytes \o PageEnd(LastHeader, Free), 1, cur + (PageSize - (cur % PageSize)))
    BY DEF FinishWritingCaplets, LastHeader
  <2> QED BY <1>5, <1>6, <1>7, <1>9, <1>10, <2>1, <2>2
<1>12. PICK s \in Seq(Cells), n \in Nat : /\ s = Made /\ Len(s) = n * PageSize + u /\ n * PageSize \in Nat
                                          /\ MessageOf(n + 1) = Len(Out)
  BY <1>2, <1>5, Where
<1>13. file' = s \o x
  <2>1. PICK y \in Seq(Cells), t \in Seq(Cells) : y = file /\ t = bytes
    BY <1>4
  <2>2. (y \o t) \o x = y \o (t \o x)
    <3>1. Cat(Cat(y, t), x) = Cat(y, Cat(t, x))
      BY CatRegroups
    <3> QED BY <3>1, Zenon DEF Cat
  <2>3. Made = y \o t
    BY <1>3, <2>1, ConcatEmptySeq DEF Made, Out
  <2> QED BY <1>9, <1>11, <1>12, <2>1, <2>2, <2>3
<1>14. PICK z \in Seq(Cells), c \in Nat : /\ z = s \o x /\ c = n + 1 /\ Len(z) = c * PageSize
                                          /\ Len(z) = n * PageSize + PageSize
  <2>1. s \o x \in Seq(Cells) /\ Len(s \o x) = Len(s) + Len(x)
    BY Joins
  <2>2. \A p \in Nat : (n + 1) * p = n * p + p
    OBVIOUS
  <2>3. PICK p \in Nat, m \in Nat, q \in Nat : p = PageSize /\ m = Len(x) /\ q = n * PageSize /\ u + m = p
    BY <1>8, <1>12, Numbers, LenProperties
  <2>4. Len(s \o x) = (q + u) + m /\ (q + u) + m = q + p
    <3>1. Len(s \o x) = (q + u) + m
      BY <1>12, <2>1, <2>3
    <3>2. (q + u) + m = q + (u + m)
      OBVIOUS
    <3> QED BY <2>3, <3>1, <3>2
  <2>5. Len(s \o x) = n * PageSize + PageSize
    BY <2>3, <2>4
  <2>6. (n + 1) * PageSize = n * PageSize + PageSize
    BY <2>2, <2>3
  <2>7. n + 1 \in Nat
    OBVIOUS
  <2> QED BY <2>1, <2>5, <2>6, <2>7
<1>15. ASSUME NEW j \in 1 .. c
       PROVE  Page(z, c, j, FALSE) /\ (j = c => HeaderAt(z, (j - 1) * PageSize).flags = {"last"})
  <2>1. PICK a \in Nat : a = (j - 1) * PageSize /\ a + PageSize = j * PageSize
    <3>1. j \in Nat \ {0}
      OBVIOUS
    <3> QED BY <3>1, PageStart
  <2>2. CASE j # n + 1
    <3>1. j < c
      BY <1>14, <2>2
    <3>2. j * PageSize + PageSize <= Len(z) /\ j * PageSize <= Len(z) /\ PageSize >= 1 /\ j * PageSize \in Nat
      BY <1>14, <3>1, Numbers, MoreIsLonger
    <3>3. Headed(z, a, MessageOf(j)) /\ Spills(z, a, FALSE)
      <4>1. j \in Nat \ {0} /\ FALSE \in BOOLEAN
        OBVIOUS
      <4>2. u = 0 => (x[1].kind = "payload" <=> FALSE)
        BY <1>5, <1>7
      <4>3. Full(s, FALSE)
        BY <1>2, <1>3, <1>12
      <4>4. j * PageSize <= Len(s \o x)
        BY <1>14, <3>2
      <4>5. /\ Headed(s \o x, (j - 1) * PageSize, MessageOf(j))
            /\ Spills(s \o x, (j - 1) * PageSize, FALSE)
        BY <1>7, <1>8, <1>12, <2>2, <4>1, <4>2, <4>3, <4>4, Fills
      <4> QED BY <1>14, <2>1, <4>5
    <3>4. a + PageSize < Len(z)
      <4>1. PICK e \in Nat, p \in Nat : e = a + PageSize /\ p = PageSize /\ p >= 1
        BY Numbers
      <4>2. Len(z) \in Nat /\ e + p <= Len(z)
        BY <2>1, <3>2, <4>1, LenProperties
      <4> QED BY <4>1, <4>2
    <3> QED BY <2>1, <3>1, <3>3, <3>4 DEF Page, Headed, Spills
  <2>3. CASE j = n + 1
    <3>1. j = c /\ ~(j < c) /\ a = n * PageSize
      BY <1>14, <2>1, <2>3
    <3>2. Len(s) + f + PageHeader = a + PageSize /\ a <= Len(s) /\ Len(s) - used = a
      <4>1. PICK l \in Nat : l = Len(s) /\ l = a + u
        BY <1>12, <3>1, LenProperties
      <4> QED BY <1>5, <4>1, Numbers
    <3>3. HeaderAt(z, a) = g /\ StartsOf(z, a, a + PageSize) = StartsOf(s, a, Len(s))
      BY <1>6, <1>7, <1>14, <3>2, PageCloses
    <3>4. Tells(ph, StartsOf(s, a, Len(s)), MessageOf(j))
      BY <1>2, <1>12, <2>3, <3>2 DEF OpenPage
    <3>5. Tells(g, StartsOf(s, a, Len(s)), MessageOf(j))
      BY <1>6, <3>4 DEF Tells
    <3> QED BY <1>6, <2>1, <3>1, <3>3, <3>5 DEF Page
  <2> QED BY <2>2, <2>3
<1>16. Exact(z, FALSE)
  BY <1>14, <1>15, ExactFrom
<1>19. Complete(z)
  BY <1>14, <1>15 DEF Complete, Final
<1>17. Typed'
  <2>1. file' \in Seq(Cells) /\ pc' \in {"idle", "pack", "closed", "page", "done", "dead", "failed"} /\ pc' # "pack"
    BY <1>1, <1>13, <1>14
  <2> QED BY <1>1, <1>2, <2>1 DEF Typed
<1>18. ~Writing'
  BY <1>1 DEF Writing
<1> QED BY <1>5, <1>6, <1>7, <1>12, <1>13, <1>14, <1>16, <1>17, <1>18, <1>19

-----------------------------------------------------------------------------
(* The invariant of what is packed.                                        *)

\* The inductive invariant.
LEMMA Inductive ==
  /\ Init => WInv
  /\ WInv /\ [Next]_vars => WInv'
<1>1. ASSUME Init PROVE WInv
  <2>1. /\ pc = "idle" /\ written = <<>> /\ offset = 0 /\ appender = 0 /\ page = 1 /\ used = 0
        /\ ph = NoHeader /\ bytes = <<>> /\ cur = 0 /\ ret = <<>> /\ file = <<>>
    BY <1>1 DEF Init
  <2>2. /\ NoHeader.kind = "page" /\ NoHeader.id = -1 /\ NoHeader.n = 0 /\ NoHeader.flags = {}
        /\ NoHeader \in Cells
    BY DEF NoHeader, Cells, Kinds
  <2>3. Typed
    <3>1. << >> \in Seq(Cells) /\ << >> \in Seq(Sizes) /\ 1 \in 1 .. MaxPages /\ 0 \in 0 .. Room
      BY Numbers
    <3> QED BY <2>1, <2>2, <3>1 DEF Typed
  <2>4. Out = << >> /\ Made = << >> /\ Len(<< >>) = 0
    <3>1. << >> \o << >> = << >> /\ Len(<< >>) = 0
      OBVIOUS
    <3> QED BY <2>1, <3>1 DEF Out, Made
  <2>5. Placed
    <3>1. 0 = (1 - 1) * PageSize + 0 /\ 0 = 0 * BufSize /\ 0 \in Nat
      <4>1. \A p \in Nat : 0 = (1 - 1) * p + 0 /\ 0 = 0 * p
        OBVIOUS
      <4> QED BY <4>1, Numbers
    <3>2. 2 * 0 < Room
      BY Numbers
    <3>3. ~Mid
      BY <2>1 DEF Mid
    <3> QED BY <2>1, <2>4, <3>1, <3>2, <3>3 DEF Placed
  <2>6. FullPages
    <3>1. ASSUME NEW j \in Nat \ {0} PROVE ~(j * PageSize <= 0)
      <4>1. (j - 1) * PageSize \in Nat /\ (j - 1) * PageSize + PageSize = j * PageSize
        BY PageStart
      <4> QED BY <4>1, Numbers
    <3> QED BY <2>4, <3>1 DEF FullPages, Full
  <2>7. OpenPage
    <3>1. StartsOf(<< >>, 0 - 0, 0) = {}
      BY DEF StartsOf
    <3>2. Tells(NoHeader, {}, Len(Out))
      BY <2>2, FS_EmptySet DEF Tells
    <3>3. StartsOf(Made, Len(Made) - used, Len(Made)) = {}
      BY <2>1, <2>4, <3>1
    <3>4. ph = NoHeader /\ NoHeader.id < 0
      BY <2>1, <2>2
    <3> QED BY <2>2, <3>2, <3>3, <3>4 DEF OpenPage
  <2> QED BY <2>1, <2>3, <2>5, <2>6, <2>7 DEF WInv, Writing
<1>2. ASSUME WInv, [Next]_vars PROVE WInv'
  <2>1. Writing => Packing
    BY <1>2 DEF WInv, Packing
  <2>2. Packing' /\ Writing' => WInv'
    BY DEF WInv, Packing
  <2>3. ASSUME NEW len \in Sizes, AddCaplet(len) PROVE WInv'
    <3>1. pc = "idle" /\ pc' = "pack"
      BY <2>3 DEF AddCaplet
    <3>2. Packing'
      BY <2>1, <2>3, <3>1, AddCapletStep DEF Writing
    <3> QED BY <2>2, <3>1, <3>2 DEF Writing
  <2>4. CASE Skip
    <3>1. pc = "pack" /\ pc' = pc
      BY <2>4 DEF Skip, NextPage
    <3>2. Packing'
      BY <2>1, <2>4, <3>1, SkipStep DEF Writing
    <3> QED BY <2>2, <3>1, <3>2 DEF Writing
  <2>5. CASE Split
    <3>1. pc = "pack" /\ pc' = pc
      BY <2>5 DEF Split, NextPage
    <3>2. Packing'
      BY <2>1, <2>5, <3>1, SplitStep DEF Writing
    <3> QED BY <2>2, <3>1, <3>2 DEF Writing
  <2>6. CASE Rest
    <3>1. pc = "pack" /\ pc' = "idle"
      BY <2>6 DEF Rest, Return
    <3>2. Packing'
      BY <2>1, <2>6, <3>1, RestStep DEF Writing
    <3> QED BY <2>2, <3>1, <3>2 DEF Writing
  <2>7. CASE Whole
    <3>1. pc = "pack" /\ pc' = "idle"
      BY <2>7 DEF Whole, Return
    <3>2. Packing'
      BY <2>1, <2>7, <3>1, WholeStep DEF Writing
    <3> QED BY <2>2, <3>1, <3>2 DEF Writing
  <2>8. CASE FinishWritingCaplets
    <3>1. pc = "idle"
      BY <2>8 DEF FinishWritingCaplets
    <3>2. Typed' /\ ~Writing' /\ Exact(file', FALSE)
      BY <2>1, <2>8, <3>1, FinishStep DEF Writing
    <3>3. HeadersExact'
      <4>1. Writing' = FALSE
        BY <3>2 DEF Writing
      <4> QED BY <3>2, <4>1, ExactIs
    <3> QED BY <3>2, <3>3 DEF WInv
  <2>9. CASE ReadBuffer
    <3>1. UNCHANGED writer /\ pc \in {"closed", "page"} /\ pc' \in {"closed", "page", "done", "dead", "failed"}
      <4>1. CASE Read
        BY <4>1 DEF Read
      <4>2. CASE EndOfData
        BY <4>2 DEF EndOfData
      <4>3. CASE ReadCaplet
        BY <4>3 DEF ReadCaplet
      <4>4. CASE LastPage
        BY <4>4 DEF LastPage
      <4>5. CASE MoveToNextDBPage
        BY <4>5 DEF MoveToNextDBPage, MoreReadings
      <4>6. CASE ReadSplit
        BY <4>6 DEF ReadSplit, SplitInBuffer, MoreReadings
      <4>7. CASE ReadPart
        BY <4>7 DEF ReadPart, MoreReadings
      <4>8. CASE SpillAssert
        BY <4>8 DEF SpillAssert
      <4>9. CASE NoObjectLeft
        BY <4>9 DEF NoObjectLeft
      <4> QED BY <2>9, <4>1, <4>2, <4>3, <4>4, <4>5, <4>6, <4>7, <4>8, <4>9 DEF ReadBuffer
    <3>2. Writing = FALSE /\ Writing' = FALSE
      BY <3>1 DEF Writing
    <3>3. Typed /\ HeadersExact
      BY <1>2, <3>2 DEF WInv
    <3>4. Typed'
      BY <3>1, <3>3 DEF Typed, writer
    <3>5. HeadersExact'
      <4>1. file' = file
        BY <3>1 DEF writer
      <4> QED BY <3>2, <3>3, <4>1, ExactIs
    <3> QED BY <3>2, <3>4, <3>5 DEF WInv
  <2>10. CASE UNCHANGED vars
    <3>1. pc' = pc /\ UNCHANGED writer
      BY <2>10 DEF vars
    <3>2. Typed'
      BY <1>2, <3>1 DEF WInv, Typed, writer
    <3>3. Writing' = Writing
      BY <3>1 DEF Writing
    <3>4. CASE Writing
      <4>1. Typed /\ Placed /\ FullPages /\ OpenPage
        BY <1>2, <3>4 DEF WInv
      <4>2. Made' = Made /\ Out' = Out /\ Mid' = Mid /\ Length' = Length
        BY <3>1 DEF Made, Out, Mid, Length, Id, writer
      <4>3. Placed'
        BY <3>1, <4>1, <4>2 DEF Placed, writer
      <4>4. FullPages'
        BY <4>1, <4>2 DEF FullPages
      <4>5. OpenPage'
        BY <3>1, <4>1, <4>2 DEF OpenPage, writer
      <4> QED BY <3>2, <3>3, <3>4, <4>3, <4>4, <4>5 DEF WInv
    <3>5. CASE ~Writing
      <4>1. HeadersExact /\ file' = file
        BY <1>2, <3>1, <3>5 DEF WInv, writer
      <4>2. HeadersExact'
        BY <3>3, <4>1, ExactIs
      <4> QED BY <3>2, <3>3, <3>5, <4>2 DEF WInv
    <3> QED BY <3>4, <3>5
  <2> QED BY <1>2, <2>3, <2>4, <2>5, <2>6, <2>7, <2>8, <2>9, <2>10 DEF Next, Write
<1> QED BY <1>1, <1>2

-----------------------------------------------------------------------------
(* Where the caplets are.                                                  *)

\* How many caplets start among the first b cells.
Count(z, b) == Cardinality(StartsOf(z, 0, b))

\* The length in the record at cell i: what of the payload is in the page.
PartAt(z, i) == z[i + CapHeader].n

\* In the page from a on nothing starts behind e, if not there.
Tight(z, e, a) ==
  \/ e = Len(z)
  \/ z[e + 1].kind = "caplet"
  \/ a + PageSize <= Len(z) /\ \A m \in e + 1 .. a + PageSize : z[m].kind # "caplet"

\* A caplet split between the page from a on and the next one, where its rest is,
\* or at the end of z, when o bytes of the last of w have been packed.
GoesOn(z, a, id, len, part, w, o) ==
  /\ a + PageSize <= Len(z) /\ "spilled" \in HeaderAt(z, a).flags
  /\ \A m \in a + Room + 1 .. a + PageSize : z[m].kind # "caplet"
  /\ len - part <= Room
  /\ IF a + PageSize = Len(z) THEN id = Len(w) /\ Packed(part) = o
     ELSE /\ a + PageSize + (len - part) <= Len(z)
          /\ \A m \in 1 .. len - part : z[a + PageSize + m] = Cell("payload", id, part + m)
          /\ Tight(z, a + PageSize + (len - part), a + PageSize)

\* The record of caplet id at cell i, in the page from a on, with part of its payload.
Holds(z, i, a, id, len, part, w, o) ==
  /\ id = Count(z, i) /\ id \in 1 .. Len(w) /\ len = w[id] /\ part \in 0 .. len
  /\ i - 1 + Packed(part) <= a + Room /\ i - 1 + Packed(part) <= Len(z)
  /\ \A m \in 1 .. part : z[i - 1 + CapHeader + IntSize + m] = Cell("payload", id, m)
  /\ \A m \in i + 1 .. i - 1 + Packed(part) : z[m].kind # "caplet"
  /\ part = len => Tight(z, i - 1 + Packed(part), a)
  /\ part < len => i - 1 + Packed(part) = a + Room /\ GoesOn(z, a, id, len, part, w, o)

\* The caplet that starts at cell i.
Stands(z, i, a, w, o) == Holds(z, i, a, z[i].id, z[i].n, PartAt(z, i), w, o)

\* A caplet starts at cell i of the page from a on.
StartsAt(z, i, a) == i \in a + 1 .. a + PageSize /\ i <= Len(z) /\ z[i].kind = "caplet"

\* A page that is over with that flag has a caplet that is split.
SplitIn(z, a) ==
  a + PageSize <= Len(z) /\ "spilled" \in HeaderAt(z, a).flags
    => \E i \in Nat : StartsAt(z, i, a) /\ PartAt(z, i) < z[i].n

\* A page that does not begin with the rest of a caplet begins with a caplet.
Begins(z, a) ==
  a <= Len(z) /\ (a > 0 => "spilled" \notin HeaderAt(z, a - PageSize).flags) => Tight(z, a, a)

\* The page from a on.
PageLaid(z, a, w, o) ==
  /\ \A i \in Nat : StartsAt(z, i, a) => Stands(z, i, a, w, o)
  /\ SplitIn(z, a) /\ Begins(z, a)

\* All of z holds the caplets of w, in order, and of the last of them o bytes if it
\* ends within one.
Laid(z, w, o) == \A j \in Nat \ {0} : PageLaid(z, (j - 1) * PageSize, w, o)

\* What is behind a cell is counted from there.
LEMMA CountGrows ==
  ASSUME NEW z, NEW a \in Nat, NEW b \in Nat, a <= b
  PROVE  /\ Count(z, a) \in Nat /\ Count(z, b) \in Nat /\ Cardinality(StartsOf(z, a, b)) \in Nat
         /\ Count(z, b) = Count(z, a) + Cardinality(StartsOf(z, a, b))
<1>1. PICK s : s = StartsOf(z, 0, a) /\ IsFiniteSet(s) /\ s \subseteq 1 .. a
  BY StartsFinite
<1>2. PICK t : t = StartsOf(z, a, b) /\ IsFiniteSet(t) /\ t \subseteq a + 1 .. b
  BY StartsFinite
<1>3. StartsOf(z, 0, b) = s \cup t
  <2>1. ASSUME NEW i PROVE i \in StartsOf(z, 0, b) <=> i \in s \/ i \in t
    <3>1. i \in 1 .. b <=> i \in 1 .. a \/ i \in a + 1 .. b
      OBVIOUS
    <3> QED BY <1>1, <1>2, <3>1 DEF StartsOf
  <2> QED BY <2>1
<1>4. s \cap t = {}
  <2>1. \A i : ~(i \in 1 .. a /\ i \in a + 1 .. b)
    OBVIOUS
  <2> QED BY <1>1, <1>2, <2>1
<1>5. Cardinality(s) \in Nat /\ Cardinality(t) \in Nat /\ Cardinality({}) = 0
  BY <1>1, <1>2, FS_CardinalityType, FS_EmptySet
<1>6. Cardinality(s \cup t) = Cardinality(s) + Cardinality(t)
  <2>1. /\ IsFiniteSet(s \cup t)
        /\ Cardinality(s \cup t) = Cardinality(s) + Cardinality(t) - Cardinality(s \cap t)
    BY <1>1, <1>2, FS_Union
  <2> QED BY <1>4, <1>5, <2>1
<1> QED BY <1>1, <1>2, <1>3, <1>5, <1>6 DEF Count

\* No start, no more caplets.
LEMMA CountDull ==
  ASSUME NEW z, NEW a \in Nat, NEW b \in Nat, a <= b, \A m \in a + 1 .. b : z[m].kind # "caplet"
  PROVE  Count(z, b) = Count(z, a)
<1>1. StartsOf(z, a, b) = {}
  BY DEF StartsOf
<1>2. Cardinality(StartsOf(z, a, b)) = 0
  BY <1>1, FS_EmptySet
<1> QED BY <1>2, CountGrows

\* A start counts for one.
LEMMA CountOne ==
  ASSUME NEW z, NEW a \in Nat, NEW b \in Nat, a < b, z[a + 1].kind = "caplet",
         \A m \in a + 2 .. b : z[m].kind # "caplet"
  PROVE  Count(z, b) = Count(z, a) + 1
<1>1. StartsOf(z, a, b) = {a + 1}
  <2>1. ASSUME NEW i \in a + 1 .. b PROVE z[i].kind = "caplet" <=> i = a + 1
    <3>1. i = a + 1 \/ i \in a + 2 .. b
      OBVIOUS
    <3> QED BY <3>1
  <2>2. a + 1 \in a + 1 .. b
    OBVIOUS
  <2> QED BY <2>1, <2>2 DEF StartsOf
<1>2. Cardinality(StartsOf(z, a, b)) = 1
  BY <1>1, FS_Singleton
<1> QED BY <1>2, CountGrows

\* As many before as behind: no start in between.
LEMMA CountSame ==
  ASSUME NEW z, NEW a \in Nat, NEW b \in Nat, a <= b, Count(z, b) = Count(z, a)
  PROVE  \A m \in a + 1 .. b : z[m].kind # "caplet"
<1>1. PICK t : t = StartsOf(z, a, b) /\ IsFiniteSet(t)
  BY StartsFinite
<1>2. Cardinality(t) = 0
  <2>1. /\ Count(z, a) \in Nat /\ Cardinality(t) \in Nat
        /\ Count(z, b) = Count(z, a) + Cardinality(t)
    BY <1>1, CountGrows
  <2>2. PICK p \in Nat, q \in Nat : p = Count(z, a) /\ q = Cardinality(t)
    BY <2>1
  <2>3. p = p + q
    BY <2>1, <2>2
  <2> QED BY <2>2, <2>3
<1>3. t = {}
  BY <1>1, <1>2, FS_EmptySet
<1> QED BY <1>1, <1>3 DEF StartsOf

\* z goes on where s ends.
Extends(s, z) ==
  /\ s \in Seq(Cells) /\ z \in Seq(Cells) /\ Len(s) \in Nat /\ Len(z) \in Nat /\ Len(s) < Len(z)
  /\ \A i \in 1 .. Len(s) : z[i] = s[i]

\* What follows is not counted.
LEMMA CountStays ==
  ASSUME NEW s, NEW z, Extends(s, z), NEW b \in Nat, b <= Len(s)
  PROVE  Count(z, b) = Count(s, b)
<1>1. \A i \in 0 + 1 .. b : z[i] = s[i]
  BY DEF Extends
<1>2. StartsOf(z, 0, b) = StartsOf(s, 0, b)
  BY <1>1 DEF StartsOf
<1> QED BY <1>2 DEF Count

\* A page whose start is near: the page of a position.
LEMMA TheOpenPage ==
  ASSUME NEW j \in Nat \ {0}, NEW n \in Nat, NEW v \in Nat, v < PageSize,
         (j - 1) * PageSize <= n * PageSize + v, n * PageSize + v < (j - 1) * PageSize + PageSize
  PROVE  j - 1 = n
<1>1. PICK p \in Nat : p = PageSize
  BY Numbers
<1>2. PICK i \in Nat : i = j - 1
  OBVIOUS
<1>3. i * p \in Nat /\ n * p \in Nat /\ i * p <= n * p + v /\ n * p + v < i * p + p
  BY <1>1, <1>2
<1>4. ~(i < n)
  <2> SUFFICES ASSUME i < n PROVE FALSE
    OBVIOUS
  <2>1. i * p + p <= n * p
    BY MoreIsLonger
  <2> QED BY <1>3, <2>1
<1>5. ~(n < i)
  <2> SUFFICES ASSUME n < i PROVE FALSE
    OBVIOUS
  <2>1. n * p + p <= i * p
    BY MoreIsLonger
  <2> QED BY <1>1, <1>3, <2>1
<1> QED BY <1>2, <1>4, <1>5

\* What follows position e, of the page from a on, if that is where s ends.
Behind(s, z, e, a) ==
  e = Len(s) => \/ z[e + 1].kind = "caplet"
                \/ a + PageSize = Len(z) /\ \A m \in e + 1 .. a + PageSize : z[m].kind # "caplet"

\* It leaves no gap.
LEMMA TightStays ==
  ASSUME NEW s, NEW z, Extends(s, z), NEW e \in Nat, e <= Len(s), NEW a \in Nat,
         Tight(s, e, a), Behind(s, z, e, a)
  PROVE  Tight(z, e, a)
<1>0. Len(s) \in Nat /\ Len(z) \in Nat /\ Len(s) < Len(z)
  BY DEF Extends
<1>1. CASE e = Len(s)
  <2>1. z[e + 1].kind = "caplet" => Tight(z, e, a)
    BY DEF Tight
  <2>2. ASSUME a + PageSize = Len(z), \A m \in e + 1 .. a + PageSize : z[m].kind # "caplet"
        PROVE  Tight(z, e, a)
    <3>1. a + PageSize <= Len(z)
      BY <1>0, <2>2
    <3> QED BY <2>2, <3>1 DEF Tight
  <2> QED BY <1>1, <2>1, <2>2 DEF Behind
<1>2. CASE e < Len(s)
  <2>1. z[e + 1] = s[e + 1]
    <3>1. e + 1 \in 1 .. Len(s)
      BY <1>0, <1>2
    <3> QED BY <3>1 DEF Extends
  <2>2. CASE s[e + 1].kind = "caplet"
    BY <2>1, <2>2 DEF Tight
  <2>3. CASE a + PageSize <= Len(s) /\ \A m \in e + 1 .. a + PageSize : s[m].kind # "caplet"
    <3>1. PICK p \in Nat : p = a + PageSize /\ p <= Len(s)
      BY <2>3, Numbers
    <3>2. a + PageSize <= Len(z)
      BY <1>0, <3>1
    <3>3. ASSUME NEW m \in e + 1 .. p PROVE z[m].kind # "caplet"
      <4>1. m \in 1 .. Len(s)
        BY <1>0, <3>1
      <4> QED BY <2>3, <3>1, <4>1 DEF Extends
    <3> QED BY <3>1, <3>2, <3>3 DEF Tight
  <2>4. e # Len(s)
    BY <1>0, <1>2
  <2> QED BY <2>2, <2>3, <2>4 DEF Tight
<1> QED BY <1>0, <1>1, <1>2

\* z ends with the rest of the last of w, of which o bytes had been packed.
RestOf(s, z, w, o) ==
  /\ Len(z) = Len(s) + (Packed(w[Len(w)]) - o)
  /\ \A m \in 1 .. Packed(w[Len(w)]) - o :
       z[Len(s) + m] = Cell("payload", Len(w), o - CapHeader - IntSize + m)

\* z has a record, the end of a page, or both, behind the n pages and u cells of s;
\* or the rest of a caplet.
Adds(s, z, n, u, mid, w, o) ==
  /\ Extends(s, z) /\ Full(s, mid)
  /\ Len(s) = n * PageSize + u /\ u <= Room /\ Len(z) <= n * PageSize + PageSize
  /\ ~mid => \/ z[Len(s) + 1].kind = "caplet"
             \/ /\ Len(z) = n * PageSize + PageSize
                /\ \A m \in Len(s) + 1 .. n * PageSize + PageSize : z[m].kind # "caplet"
  /\ mid => u = 0 /\ n > 0 /\ RestOf(s, z, w, o)

\* The page that is open: a position in it.
LEMMA InOpenPage ==
  ASSUME NEW n \in Nat, NEW u \in Nat, u <= Room, NEW j \in Nat \ {0},
         (j - 1) * PageSize <= n * PageSize + u, n * PageSize + u <= (j - 1) * PageSize + Room
  PROVE  j - 1 = n
<1>1. PICK a \in Nat, p \in Nat : a = (j - 1) * PageSize /\ p = n * PageSize
  BY PageStart, Numbers
<1>2. PICK r \in Nat, q \in Nat : r = Room /\ q = PageSize /\ r < q
  BY Numbers
<1>3. a <= p + u /\ p + u < a + q /\ u < q
  BY <1>1, <1>2
<1> QED BY <1>1, <1>2, <1>3, TheOpenPage

\* Page j starts behind cell a.
At(j, a) == j \in Nat \ {0} /\ a \in Nat /\ a = (j - 1) * PageSize

\* So does the next one behind cell a + PageSize.
LEMMA AtNext ==
  ASSUME NEW j, NEW a, At(j, a)
  PROVE  j * PageSize = a + PageSize /\ a + PageSize \in Nat /\ At(j + 1, a + PageSize)
<1>1. (j - 1) * PageSize + PageSize = j * PageSize /\ PageSize \in Nat
  BY PageStart, Numbers DEF At
<1>2. j * PageSize = a + PageSize /\ a + PageSize \in Nat
  BY <1>1 DEF At
<1>3. j + 1 \in Nat \ {0} /\ (j + 1) - 1 = j
  BY DEF At
<1> QED BY <1>2, <1>3 DEF At

\* What is added leaves no gap behind a caplet or the rest of one.
LEMMA AddsBehind ==
  ASSUME NEW s, NEW z, NEW n \in Nat, NEW u \in Nat, NEW mid \in BOOLEAN,
         NEW w, NEW o, Adds(s, z, n, u, mid, w, o), NEW j, NEW a, At(j, a), NEW e \in Nat,
         a <= e, e <= a + Room, mid => e # a
  PROVE  Behind(s, z, e, a)
<1> SUFFICES ASSUME e = Len(s)
             PROVE  \/ z[e + 1].kind = "caplet"
                    \/ a + PageSize = Len(z) /\ \A m \in e + 1 .. a + PageSize : z[m].kind # "caplet"
  BY DEF Behind
<1>1. e = n * PageSize + u /\ u <= Room
  BY DEF Adds
<1>2. a = n * PageSize
  <2>1. j - 1 = n
    BY <1>1, InOpenPage DEF At
  <2> QED BY <2>1 DEF At
<1>3. ~mid
  <2>1. mid => u = 0
    BY DEF Adds
  <2>2. n * PageSize \in Nat
    BY Numbers
  <2> QED BY <1>1, <1>2, <2>1, <2>2
<1> QED BY <1>2, <1>3 DEF Adds

\* The rest of a caplet goes where it should.
LEMMA GoesOnStill ==
  ASSUME NEW s, NEW z, NEW n \in Nat, NEW u \in Nat, NEW mid \in BOOLEAN,
         NEW w, NEW o \in Nat, NEW o2, Adds(s, z, n, u, mid, w, o), NEW j, NEW a \in Nat,
         At(j, a), NEW id, NEW len \in Nat, NEW part \in Nat, part < len,
         id \in 1 .. Len(w), len = w[id], GoesOn(s, a, id, len, part, w, o)
  PROVE  GoesOn(z, a, id, len, part, w, o2)
<1>1. PICK h \in Nat, t \in Nat, r \in Nat, p \in Nat : /\ h = CapHeader /\ t = IntSize /\ r = Room /\ p = PageSize
                                                 /\ r < p
  BY Numbers
<1>2. PICK l \in Nat, l2 \in Nat : l = Len(s) /\ l2 = Len(z) /\ l < l2
  BY DEF Adds, Extends
<1>3. a + p <= l /\ len - part <= r
  BY <1>1, <1>2 DEF GoesOn
<1>4. \A i \in 1 .. l : z[i] = s[i]
  BY <1>2 DEF Adds, Extends
<1>5. HeaderAt(z, a) = HeaderAt(s, a) /\ "spilled" \in HeaderAt(s, a).flags
  <2>1. a + r + 1 \in 1 .. l
    BY <1>1, <1>3
  <2> QED BY <1>1, <1>4, <2>1 DEF HeaderAt, GoesOn
<1>6. \A m \in a + Room + 1 .. a + PageSize : z[m].kind # "caplet"
  <2>1. ASSUME NEW m \in a + r + 1 .. a + p PROVE z[m].kind # "caplet"
    <3>1. m \in 1 .. l
      BY <1>1, <1>3
    <3> QED BY <1>1, <1>4, <2>1, <3>1 DEF GoesOn
  <2> QED BY <1>1, <2>1
<1>7. CASE a + p = l
  <2>1. id = Len(w) /\ Packed(part) = o
    BY <1>1, <1>2, <1>7 DEF GoesOn
  <2>2. mid
    <3>0. j * PageSize = a + PageSize
      BY AtNext
    <3>1. j * PageSize <= Len(s)
      BY <1>1, <1>2, <1>7, <3>0
    <3>2. Spills(s, a, mid)
      BY <3>1 DEF Adds, Full, At
    <3>3. ~(a + PageSize < Len(s))
      BY <1>1, <1>2, <1>7
    <3> QED BY <1>5, <3>2, <3>3 DEF Spills
  <2>3. RestOf(s, z, w, o)
    BY <2>2 DEF Adds
  <2>4. Packed(len) - o = len - part /\ o - CapHeader - IntSize = part
    BY <1>1, <2>1 DEF Packed
  <2>5. l2 = l + (len - part) /\ \A m \in 1 .. len - part : z[l + m] = Cell("payload", id, part + m)
    BY <1>2, <2>1, <2>3, <2>4 DEF RestOf
  <2>6. l2 = l + (len - part)
    BY <2>5
  <2>7. a + p + (len - part) = l2 /\ a + p # l2 /\ a + p <= l2 /\ a + p + (len - part) <= l2
    <3>1. a + p + (len - part) = l2
      BY <1>7, <2>6
    <3> QED BY <1>2, <1>7, <3>1
  <2>8. Tight(z, a + p + (len - part), a + p)
    BY <1>1, <1>2, <2>7 DEF Tight
  <2>9. \A m \in 1 .. len - part : z[a + p + m] = Cell("payload", id, part + m)
    BY <1>7, <2>5
  <2> QED BY <1>1, <1>2, <1>3, <1>5, <1>6, <2>7, <2>8, <2>9 DEF GoesOn
<1>8. CASE a + p < l
  <2>1. PICK d \in Nat : d = len - part /\ d >= 1 /\ d <= r
    BY <1>3
  <2>2. PICK e \in Nat : e = a + p + d /\ e > a + p /\ e <= a + p + r
    <3>1. PICK b \in Nat : b = a + p
      OBVIOUS
    <3>2. d >= 1 /\ d <= r
      BY <2>1
    <3>3. b + d > b /\ b + d <= b + r
      BY <3>2
    <3> QED BY <3>1, <3>3
  <2>3. /\ e <= l /\ Tight(s, e, a + p)
        /\ \A m \in 1 .. d : s[a + p + m] = Cell("payload", id, part + m)
    <3>1. a + p # l
      BY <1>8
    <3> QED BY <1>1, <1>2, <2>1, <2>2, <3>1 DEF GoesOn
  <2>4. a + p \in Nat /\ At(j + 1, a + p)
    BY <1>1, AtNext
  <2>5. Behind(s, z, e, a + p)
    <3>1. a + p <= e /\ e <= a + p + r /\ e # a + p
      BY <2>2
    <3> QED BY <1>1, <2>4, <3>1, AddsBehind
  <2>6. Tight(z, e, a + p)
    BY <1>2, <2>3, <2>4, <2>5, TightStays DEF Adds
  <2>7. \A m \in 1 .. d : z[a + p + m] = Cell("payload", id, part + m)
    <3>1. ASSUME NEW m \in 1 .. d PROVE a + p + m \in 1 .. l
      <4>1. e <= l
        BY <2>3
      <4> QED BY <2>2, <4>1
    <3> QED BY <1>4, <2>3, <3>1
  <2>8. a + p # l2 /\ a + p <= l2 /\ e <= l2
    <3>1. e <= l
      BY <2>3
    <3> QED BY <1>2, <1>8, <3>1
  <2>9. "spilled" \in HeaderAt(z, a).flags
    BY <1>5
  <2> QED BY <1>1, <1>2, <1>6, <2>1, <2>2, <2>6, <2>7, <2>8, <2>9 DEF GoesOn
<1> QED BY <1>3, <1>7, <1>8

\* A caplet stays where it is.
LEMMA OldStart ==
  ASSUME NEW s, NEW z, NEW n \in Nat, NEW u \in Nat, NEW mid \in BOOLEAN,
         NEW w \in Seq(Sizes), NEW o \in Nat, NEW o2, Adds(s, z, n, u, mid, w, o), NEW j, NEW a \in Nat,
         At(j, a), NEW i \in Nat, StartsAt(s, i, a), Stands(s, i, a, w, o)
  PROVE  Stands(z, i, a, w, o2)
<1>1. PICK h \in Nat, t \in Nat, r \in Nat, p \in Nat : /\ h = CapHeader /\ t = IntSize /\ r = Room /\ p = PageSize
                                                 /\ h >= 1 /\ t >= 1
  BY Numbers
<1>2. PICK l \in Nat, l2 \in Nat : l = Len(s) /\ l2 = Len(z) /\ l < l2
  BY DEF Adds, Extends
<1>3. \A m \in 1 .. l : z[m] = s[m]
  BY <1>2 DEF Adds, Extends
<1>4. i \in 1 .. l /\ i > a
  BY <1>2 DEF StartsAt
<1>5. PICK id, len, part : id = s[i].id /\ len = s[i].n /\ part = PartAt(s, i)
  OBVIOUS
<1>6. Holds(s, i, a, id, len, part, w, o)
  BY <1>5 DEF Stands
<1>7. id \in 1 .. Len(w) /\ len = w[id] /\ len \in Nat
  <2>1. id \in 1 .. Len(w) /\ len = w[id]
    BY <1>6 DEF Holds
  <2>2. len \in Sizes
    BY <2>1, ElementOfSeq
  <2> QED BY <2>1, <2>2, Numbers
<1>8. part \in 0 .. len /\ part \in Nat
  BY <1>6, <1>7 DEF Holds
<1>9. Packed(part) = h + t + part /\ i - 1 + Packed(part) <= a + r /\ i - 1 + Packed(part) <= l
  BY <1>1, <1>2, <1>6 DEF Holds, Packed
<1>10. PICK e \in Nat : e = i - 1 + (h + t + part)
  BY <1>4, <1>8
<1>11. e = i - 1 + Packed(part) /\ e <= a + r /\ e <= l
  BY <1>9, <1>10
<1>12. e > a /\ e <= l2 /\ i + h <= e /\ i + 1 <= e
  BY <1>1, <1>2, <1>4, <1>8, <1>10, <1>11
<1>13. z[i] = s[i] /\ PartAt(z, i) = part
  <2>1. i + h \in 1 .. l
    BY <1>4, <1>11, <1>12
  <2> QED BY <1>1, <1>3, <1>4, <1>5, <2>1 DEF PartAt
<1>14. id = Count(z, i)
  <2>1. i <= Len(s)
    BY <1>2, <1>4
  <2> QED BY <1>6, <2>1, CountStays DEF Holds, Adds
<1>15. \A m \in 1 .. part : z[i - 1 + CapHeader + IntSize + m] = Cell("payload", id, m)
  <2>1. ASSUME NEW m \in 1 .. part PROVE i - 1 + h + t + m \in 1 .. l
    BY <1>2, <1>4, <1>8, <1>10, <1>11
  <2>2. \A m \in 1 .. part : s[i - 1 + h + t + m] = Cell("payload", id, m)
    BY <1>1, <1>6 DEF Holds
  <2> QED BY <1>1, <1>3, <2>1, <2>2
<1>16. \A m \in i + 1 .. e : z[m].kind # "caplet"
  <2>1. ASSUME NEW m \in i + 1 .. e PROVE m \in 1 .. l
    BY <1>2, <1>4, <1>11
  <2>2. \A m \in i + 1 .. e : s[m].kind # "caplet"
    BY <1>6, <1>11 DEF Holds
  <2> QED BY <1>3, <2>1, <2>2
<1>17. part = len => Tight(z, e, a)
  <2> SUFFICES ASSUME part = len PROVE Tight(z, e, a)
    OBVIOUS
  <2>1. Tight(s, e, a)
    BY <1>6, <1>11 DEF Holds
  <2>2. a <= e /\ e <= a + Room /\ e # a /\ e <= Len(s)
    BY <1>1, <1>2, <1>11, <1>12
  <2>3. Behind(s, z, e, a)
    BY <2>2, AddsBehind
  <2> QED BY <2>1, <2>2, <2>3, TightStays DEF Adds
<1>18. part < len => e = a + Room /\ GoesOn(z, a, id, len, part, w, o2)
  <2> SUFFICES ASSUME part < len PROVE e = a + Room /\ GoesOn(z, a, id, len, part, w, o2)
    OBVIOUS
  <2>1. e = a + Room /\ GoesOn(s, a, id, len, part, w, o)
    BY <1>6, <1>11 DEF Holds
  <2> QED BY <1>7, <1>8, <2>1, GoesOnStill
<1>19. Holds(z, i, a, id, len, part, w, o2)
  <2>1. e <= a + Room /\ e <= Len(z)
    BY <1>1, <1>2, <1>11, <1>12
  <2> QED BY <1>7, <1>8, <1>11, <1>14, <1>15, <1>16, <1>17, <1>18, <2>1 DEF Holds
<1> QED BY <1>5, <1>13, <1>19 DEF Stands

\* A record is within its page.
LEMMA RecordFits ==
  ASSUME NEW s \in Seq(Cells), NEW a \in Nat, NEW w \in Seq(Sizes), NEW o, NEW i \in Nat, i > a,
         Stands(s, i, a, w, o)
  PROVE  /\ s[i].id \in 1 .. Len(w) /\ s[i].n = w[s[i].id] /\ s[i].n \in Nat
         /\ PartAt(s, i) \in Nat /\ PartAt(s, i) <= s[i].n
         /\ i - 1 + Packed(PartAt(s, i)) \in Nat /\ i + CapHeader <= i - 1 + Packed(PartAt(s, i))
         /\ i - 1 + Packed(PartAt(s, i)) <= a + Room /\ i - 1 + Packed(PartAt(s, i)) <= Len(s)
<1>1. PICK id, len, part : id = s[i].id /\ len = s[i].n /\ part = PartAt(s, i)
  OBVIOUS
<1>2. Holds(s, i, a, id, len, part, w, o)
  BY <1>1 DEF Stands
<1>3. id \in 1 .. Len(w) /\ len = w[id] /\ len \in Nat
  <2>1. id \in 1 .. Len(w) /\ len = w[id]
    BY <1>2 DEF Holds
  <2>2. len \in Sizes
    BY <2>1, ElementOfSeq
  <2> QED BY <2>1, <2>2, Numbers
<1>4. part \in Nat /\ part <= len
  BY <1>2, <1>3 DEF Holds
<1>5. PICK h \in Nat, t \in Nat : h = CapHeader /\ t = IntSize /\ t >= 1
  BY Numbers
<1>6. Packed(part) = h + t + part
  BY <1>5 DEF Packed
<1>7. i - 1 + (h + t + part) \in Nat /\ i + h <= i - 1 + (h + t + part)
  BY <1>4, <1>5
<1> QED BY <1>1, <1>2, <1>3, <1>4, <1>5, <1>6, <1>7 DEF Holds

\* The page after page n starts where that ends.
LEMMA OpenOrBefore ==
  ASSUME NEW n \in Nat, NEW l \in Nat, l <= n * PageSize + PageSize, NEW j, NEW a, At(j, a), a < l
  PROVE  a <= n * PageSize
<1>1. PICK i \in Nat, p \in Nat : i = j - 1 /\ p = PageSize /\ a = i * p /\ i * p \in Nat /\ n * p \in Nat
  BY Numbers DEF At
<1>2. ~(n < i)
  <2> SUFFICES ASSUME n < i PROVE FALSE
    OBVIOUS
  <2>1. n * p + p <= i * p
    BY MoreIsLonger
  <2> QED BY <1>1, <2>1
<1>3. i <= n
  BY <1>2
<1>4. CASE i = n
  BY <1>1, <1>4
<1>5. CASE i < n
  <2>1. i * p + p <= n * p
    BY <1>5, MoreIsLonger
  <2> QED BY <1>1, <2>1
<1> QED BY <1>3, <1>4, <1>5

\* The page that what was added is in.
LEMMA NewPage ==
  ASSUME NEW n \in Nat, NEW j, NEW a, At(j, a), NEW i \in Nat, n * PageSize < i, i <= n * PageSize + PageSize,
         i \in a + 1 .. a + PageSize
  PROVE  a = n * PageSize
<1>1. PICK p \in Nat, b \in Nat : p = PageSize /\ p >= 1 /\ b = n * p
  BY Numbers
<1>2. i - 1 \in Nat /\ a <= i - 1 /\ i - 1 < a + p /\ a \in Nat
  BY <1>1 DEF At
<1>3. PICK v \in Nat : i - 1 = b + v /\ v < p
  <2>1. b <= i - 1 /\ i - 1 < b + p
    BY <1>1
  <2>2. i - 1 - b \in Nat /\ i - 1 = b + (i - 1 - b) /\ i - 1 - b < p
    BY <1>2, <2>1
  <2> QED BY <2>2
<1>4. j - 1 = n
  BY <1>1, <1>2, <1>3, TheOpenPage DEF At
<1> QED BY <1>4 DEF At

\* The caplets that what was added starts.
NewStarts(s, z, n, w, o) ==
  \A i \in Nat : i > Len(s) /\ i <= Len(z) /\ z[i].kind = "caplet" => Stands(z, i, n * PageSize, w, o)

\* The first cell of a page.
LEMMA BeginsStill ==
  ASSUME NEW s, NEW z, NEW n \in Nat, NEW u \in Nat, NEW mid \in BOOLEAN,
         NEW w, NEW o \in Nat, Adds(s, z, n, u, mid, w, o), NEW j, NEW a, At(j, a), Begins(s, a)
  PROVE  Begins(z, a)
<1>1. PICK r \in Nat, p \in Nat : r = Room /\ p = PageSize /\ r < p
  BY Numbers
<1>2. PICK l \in Nat, l2 \in Nat : l = Len(s) /\ l2 = Len(z) /\ l < l2
  BY DEF Adds, Extends
<1>3. \A m \in 1 .. l : z[m] = s[m]
  BY <1>2 DEF Adds, Extends
<1>4. a \in Nat
  BY DEF At
<1> SUFFICES ASSUME a <= l2, a > 0 => "spilled" \notin HeaderAt(z, a - p).flags
             PROVE  Tight(z, a, a)
  BY <1>1, <1>2 DEF Begins
<1>5. CASE a = l2
  BY <1>2, <1>5 DEF Tight
<1>6. CASE a < l2
  <2>1. PICK b \in Nat : b = n * PageSize
    BY Numbers
  <2>2. a <= b
    <3>1. l2 <= n * PageSize + PageSize
      BY <1>2 DEF Adds
    <3> QED BY <1>6, <2>1, <3>1, OpenOrBefore
  <2>3. l = b + u
    BY <1>2, <2>1 DEF Adds
  <2>4. a <= l
    BY <1>4, <2>2, <2>3
  <2>5. a > 0 => a - p \in Nat /\ At(j - 1, a - p)
    <3> SUFFICES ASSUME a > 0 PROVE a - p \in Nat /\ At(j - 1, a - p)
      OBVIOUS
    <3>1. j \in Nat \ {0} /\ a = (j - 1) * p
      BY <1>1 DEF At
    <3>2. j # 1
      <4> SUFFICES ASSUME j = 1 PROVE FALSE
        OBVIOUS
      <4>1. (1 - 1) * p = 0
        OBVIOUS
      <4> QED BY <3>1, <4>1
    <3>3. j - 1 \in Nat \ {0} /\ (j - 1) - 1 \in Nat /\ ((j - 1) - 1) * p + p = (j - 1) * p
      <4>1. j - 1 \in Nat \ {0}
        BY <3>1, <3>2
      <4>2. (j - 1) - 1 \in Nat
        BY <3>1, <4>1
      <4> QED BY <1>1, <4>1, <4>2, PageStart
    <3>4. a - p = ((j - 1) - 1) * p /\ ((j - 1) - 1) * p \in Nat
      <4>1. ((j - 1) - 1) * p \in Nat
        BY <1>1, <3>3, Numbers
      <4>2. PICK c \in Nat : c = ((j - 1) - 1) * p
        BY <4>1
      <4>3. c + p = a
        BY <3>1, <3>3, <4>2
      <4> QED BY <4>2, <4>3
    <3> QED BY <1>1, <3>3, <3>4 DEF At
  <2>6. a > 0 => HeaderAt(z, a - p) = HeaderAt(s, a - p)
    <3> SUFFICES ASSUME a > 0 PROVE HeaderAt(z, a - p) = HeaderAt(s, a - p)
      OBVIOUS
    <3>1. a - p \in Nat
      BY <2>5
    <3>2. (a - p) + r + 1 \in 1 .. l
      BY <1>1, <1>4, <2>4, <3>1
    <3> QED BY <1>1, <1>3, <3>2 DEF HeaderAt
  <2>7. Tight(s, a, a)
    BY <1>1, <1>2, <2>4, <2>6 DEF Begins
  <2>8. mid => a # l
    <3> SUFFICES ASSUME mid, a = l PROVE FALSE
      OBVIOUS
    <3>1. n > 0 /\ u = 0
      BY DEF Adds
    <3>2. a > 0
      <4>1. b > 0
        <5>1. PICK q \in Nat : q = PageSize /\ q >= 1
          BY Numbers
        <5>2. 0 * q + q <= n * q
          BY <3>1, MoreIsLonger
        <5>3. 0 * q = 0
          OBVIOUS
        <5> QED BY <2>1, <5>1, <5>2, <5>3
      <4> QED BY <2>3, <3>1, <4>1
    <3>3. Spills(s, a - p, mid)
      <4>1. (j - 1) * PageSize = a /\ j - 1 \in Nat \ {0} /\ a - p = ((j - 1) - 1) * PageSize
        BY <2>5, <3>2 DEF At
      <4>2. (j - 1) * PageSize <= Len(s)
        BY <1>2, <2>4, <4>1
      <4>3. Full(s, mid)
        BY DEF Adds
      <4> QED BY <4>1, <4>2, <4>3 DEF Full
    <3>4. ~((a - p) + PageSize < Len(s))
      BY <1>1, <1>2
    <3>5. "spilled" \in HeaderAt(s, a - p).flags
      BY <3>3, <3>4 DEF Spills
    <3> QED BY <2>6, <3>2, <3>5
  <2>9. Behind(s, z, a, a)
    <3>1. CASE a = l
      <4>1. a <= a + Room
        BY <1>1, <1>4
      <4>2. ~mid
        BY <2>8, <3>1
      <4> QED BY <1>4, <4>1, <4>2, AddsBehind
    <3> QED BY <1>2, <3>1 DEF Behind
  <2> QED BY <1>2, <1>4, <2>4, <2>7, <2>9, TightStays DEF Adds
<1> QED BY <1>2, <1>4, <1>5, <1>6

\* What was laid, and what was added.
LEMMA Lays ==
  ASSUME NEW s, NEW z, NEW n \in Nat, NEW u \in Nat, NEW mid \in BOOLEAN,
         NEW w \in Seq(Sizes), NEW o \in Nat, NEW o2, Adds(s, z, n, u, mid, w, o), Laid(s, w, o),
         NewStarts(s, z, n, w, o2), Len(z) = n * PageSize + PageSize => SplitIn(z, n * PageSize)
  PROVE  Laid(z, w, o2)
<1>1. PICK r \in Nat, p \in Nat : r = Room /\ p = PageSize /\ r < p
  BY Numbers
<1>2. PICK l \in Nat, l2 \in Nat : l = Len(s) /\ l2 = Len(z) /\ l < l2
  BY DEF Adds, Extends
<1>3. \A m \in 1 .. l : z[m] = s[m]
  BY <1>2 DEF Adds, Extends
<1>4. PICK b \in Nat : b = n * PageSize /\ b <= l /\ l2 <= b + p
  <2>1. n * PageSize \in Nat
    BY Numbers
  <2>2. PICK b \in Nat : b = n * PageSize
    BY <2>1
  <2>3. l = b + u /\ l2 <= b + p
    BY <1>1, <1>2, <2>2 DEF Adds
  <2> QED BY <2>2, <2>3
<1> SUFFICES ASSUME NEW j, NEW a, At(j, a) PROVE PageLaid(z, a, w, o2)
  BY PageStart DEF Laid, At
<1>5. PageLaid(s, a, w, o)
  BY DEF Laid, At
<1>6. a \in Nat
  BY <1>5 DEF At
<1>7. ASSUME NEW i \in Nat, StartsAt(z, i, a) PROVE Stands(z, i, a, w, o2)
  <2>1. i \in a + 1 .. a + PageSize /\ i <= l2 /\ z[i].kind = "caplet"
    BY <1>2, <1>7 DEF StartsAt
  <2>2. CASE i <= l
    <3>1. i \in 1 .. l
      BY <1>6, <2>1, <2>2
    <3>2. StartsAt(s, i, a)
      BY <1>2, <1>3, <2>1, <2>2, <3>1 DEF StartsAt
    <3>3. Stands(s, i, a, w, o)
      BY <1>5, <3>2 DEF PageLaid
    <3> QED BY <1>5, <1>6, <3>2, <3>3, OldStart
  <2>3. CASE i > l
    <3>1. n * PageSize < i /\ i <= n * PageSize + PageSize
      BY <1>1, <1>4, <2>1, <2>3
    <3>2. a = n * PageSize
      BY <1>5, <2>1, <3>1, NewPage
    <3> QED BY <1>2, <2>1, <2>3, <3>2 DEF NewStarts
  <2> QED BY <2>2, <2>3
<1>8. SplitIn(z, a)
  <2> SUFFICES ASSUME a + p <= l2, "spilled" \in HeaderAt(z, a).flags
               PROVE  \E i \in Nat : StartsAt(z, i, a) /\ PartAt(z, i) < z[i].n
    BY <1>1, <1>2 DEF SplitIn
  <2>1. CASE a + p <= l
    <3>1. HeaderAt(z, a) = HeaderAt(s, a)
      <4>1. a + r + 1 \in 1 .. l
        BY <1>1, <1>6, <2>1
      <4> QED BY <1>1, <1>3, <4>1 DEF HeaderAt
    <3>2. PICK i \in Nat : StartsAt(s, i, a) /\ PartAt(s, i) < s[i].n
      BY <1>1, <1>2, <1>5, <2>1, <3>1 DEF PageLaid, SplitIn
    <3>3. i \in a + 1 .. a + p /\ i <= l /\ s[i].kind = "caplet" /\ i \in 1 .. l
      BY <1>1, <1>2, <1>6, <3>2 DEF StartsAt
    <3>4. StartsAt(z, i, a) /\ z[i] = s[i]
      BY <1>1, <1>2, <1>3, <3>3 DEF StartsAt
    <3>5. PartAt(z, i) = PartAt(s, i)
      <4>1. i + CapHeader \in 1 .. l
        <5>1. Stands(s, i, a, w, o) /\ i > a
          BY <1>1, <1>5, <1>6, <3>2, <3>3 DEF PageLaid
        <5>2. s \in Seq(Cells)
          BY DEF Adds, Extends
        <5>3. i + CapHeader <= l /\ CapHeader \in Nat
          <6>1. PICK f \in Nat : f = i - 1 + Packed(PartAt(s, i)) /\ i + CapHeader <= f /\ f <= l
            BY <1>2, <1>6, <5>1, <5>2, RecordFits
          <6> QED BY <6>1, Numbers
        <5> QED BY <3>3, <5>3
      <4> QED BY <1>3, <4>1 DEF PartAt
    <3> QED BY <3>2, <3>4, <3>5
  <2>2. CASE a + p > l
    <3>1. a = b /\ l2 = b + p
      <4>1. a <= b
        <5>1. a < l2
          BY <1>1, <1>6
        <5> QED BY <1>1, <1>4, <5>1, OpenOrBefore
      <4>2. a = b
        <5>1. PICK e \in Nat : e = a + p /\ e > b /\ e <= b + p /\ e \in a + 1 .. a + p
          BY <1>1, <1>4, <1>6, <2>2, <4>1
        <5> QED BY <1>1, <1>4, <5>1, NewPage
      <4> QED BY <1>1, <1>4, <4>2
    <3> QED BY <1>1, <1>2, <1>4, <3>1 DEF SplitIn
  <2> QED BY <1>1, <1>2, <1>6, <2>1, <2>2
<1>9. Begins(z, a)
  BY <1>5, BeginsStill DEF PageLaid
<1> QED BY <1>7, <1>8, <1>9 DEF PageLaid

\* A concatenation goes on where its first part ends.
LEMMA JoinExtends ==
  ASSUME NEW s \in Seq(Cells), NEW x \in Seq(Cells), Len(x) >= 1, NEW z, z = s \o x
  PROVE  /\ Extends(s, z) /\ Len(z) = Len(s) + Len(x)
         /\ \A m \in 1 .. Len(x) : z[Len(s) + m] = x[m]
<1>1. /\ z \in Seq(Cells) /\ Len(s) \in Nat /\ Len(x) \in Nat /\ Len(z) = Len(s) + Len(x)
      /\ \A i \in 1 .. Len(s) : z[i] = s[i]
      /\ \A i \in 1 .. Len(x) : z[Len(s) + i] = x[i]
  BY Joins
<1>2. Len(s) + Len(x) \in Nat /\ Len(s) < Len(s) + Len(x)
  BY <1>1
<1> QED BY <1>1, <1>2 DEF Extends

\* Dull cells behind s.
DullBehind(s, z, k) ==
  /\ Extends(s, z) /\ Len(z) = Len(s) + k
  /\ \A m \in Nat : m > Len(s) /\ m <= Len(s) + k => z[m].kind # "caplet"

\* Dull cells add no caplet.
LEMMA DullExtends ==
  ASSUME NEW s \in Seq(Cells), NEW x, NEW k \in Nat, k >= 1, Dull(x, k), NEW z, z = s \o x
  PROVE  DullBehind(s, z, k) /\ Count(z, Len(z)) = Count(s, Len(s))
<1>1. x \in Seq(Cells) /\ Len(x) = k /\ \A i \in 1 .. k : x[i].kind # "caplet"
  BY DEF Dull
<1>2. Extends(s, z) /\ Len(z) = Len(s) + k /\ \A m \in 1 .. k : z[Len(s) + m] = x[m]
  <2>1. x \in Seq(Cells) /\ Len(x) >= 1
    BY <1>1
  <2> QED BY <1>1, <2>1, JoinExtends
<1>3. PICK l \in Nat : l = Len(s)
  BY LenProperties
<1>4. ASSUME NEW m \in Nat, m > l, m <= l + k PROVE z[m].kind # "caplet"
  <2>1. m - l \in 1 .. k /\ l + (m - l) = m
    BY <1>4
  <2> QED BY <1>1, <1>2, <1>3, <2>1
<1>5. Count(z, l + k) = Count(z, l)
  <2>1. ASSUME NEW m \in l + 1 .. l + k PROVE z[m].kind # "caplet"
    <3>1. m \in Nat /\ m > l /\ m <= l + k
      OBVIOUS
    <3> QED BY <1>4, <3>1
  <2>2. l + k \in Nat /\ l <= l + k
    OBVIOUS
  <2> QED BY <2>1, <2>2, CountDull
<1>6. Count(z, l) = Count(s, l)
  <2>1. l <= Len(s)
    BY <1>3
  <2> QED BY <1>2, <2>1, CountStays
<1> QED BY <1>2, <1>3, <1>4, <1>5, <1>6 DEF DullBehind

\* s ends u cells behind cell b, where page n + 1 starts.
EndsIn(s, n, b, u) == /\ s \in Seq(Cells) /\ n \in Nat /\ b \in Nat /\ u \in Nat
                      /\ b = n * PageSize /\ Len(s) = b + u /\ u <= Room

\* Where that page starts.
LEMMA StartOf ==
  ASSUME NEW s, NEW n, NEW b, NEW u, EndsIn(s, n, b, u)
  PROVE  b = n * PageSize
BY DEF EndsIn

\* Where s ends.
LEMMA EndsAt ==
  ASSUME NEW s, NEW n, NEW b, NEW u, EndsIn(s, n, b, u)
  PROVE  Len(s) = b + u /\ s \in Seq(Cells) /\ u <= Room
BY DEF EndsIn

\* No caplet is split where s ends; and one is.
NoSplit(s) == Full(s, FALSE)

InSplit(s) == Full(s, TRUE)

\* A page ends before a caplet.
LEMMA LaysEnd ==
  ASSUME NEW s, NEW z, NEW k, NEW n, NEW b, NEW u, NEW w, NEW o, NEW o2,
         s \in Seq(Cells), k \in Nat, n \in Nat, b \in Nat, u \in Nat, o \in Nat,
         k >= 1, DullBehind(s, z, k), EndsIn(s, n, b, u), u + k = PageSize, NoSplit(s),
         "spilled" \notin HeaderAt(z, b).flags, w \in Seq(Sizes), Laid(s, w, o)
  PROVE  Laid(z, w, o2)
<1>1. DullBehind(s, z, k)
  OBVIOUS
<1>2. PICK l \in Nat, p \in Nat : l = Len(s) /\ p = PageSize /\ l = b + u /\ u + k = p
  <2>1. Len(s) \in Nat /\ PageSize \in Nat
    BY Numbers, LenProperties
  <2> QED BY <2>1, EndsAt
<1>3. l + k = b + p
  BY <1>2
<1>4. Len(z) = b + p /\ \A m \in Nat : m > l /\ m <= b + p => z[m].kind # "caplet"
  BY <1>1, <1>2, <1>3 DEF DullBehind
<1>5. Adds(s, z, n, u, FALSE, w, o)
  <2>1. ASSUME NEW m \in l + 1 .. b + p PROVE z[m].kind # "caplet"
    <3>1. m \in Nat /\ m > l /\ m <= b + p
      BY <2>1
    <3> QED BY <1>4, <3>1
  <2>2. Extends(s, z)
    BY <1>1 DEF DullBehind
  <2>4. Len(z) <= b + p
    <3>1. b + p <= b + p
      BY <1>2
    <3> QED BY <1>4, <3>1
  <2>3. b = n * PageSize /\ u <= Room
    BY StartOf, EndsAt
  <2> QED BY <1>2, <1>4, <2>1, <2>2, <2>3, <2>4 DEF Adds, NoSplit
<1>6. NewStarts(s, z, n, w, o2)
  BY <1>2, <1>4 DEF NewStarts
<1>7. SplitIn(z, n * PageSize)
  BY StartOf DEF SplitIn
<1> QED BY <1>1, <1>5, <1>6, <1>7, Lays

\* The k cells of the rest of the last of w behind s.
RestAdded(s, z, k, w, o) == DullBehind(s, z, k) /\ Count(z, Len(z)) = Count(s, Len(s)) /\ RestOf(s, z, w, o)

\* The rest of a caplet, f bytes of whose payload are there.
LEMMA RestBehind ==
  ASSUME NEW s, NEW w, NEW o, NEW f, NEW k,
         s \in Seq(Cells), w \in Seq(Sizes), f \in Nat, o - CapHeader - IntSize = f, k \in Nat,
         k >= 1, Packed(w[Len(w)]) - o = k, NEW id \in Nat, Len(w) = id, NEW x, Payload(id, f,
         k) = x, NEW z, s \o x = z
  PROVE  RestAdded(s, z, k, w, o)
<1>1. Dull(x, k)
  <2>1. id \in Int
    OBVIOUS
  <2> QED BY <2>1, PayloadIs
<1>2. DullBehind(s, z, k) /\ Count(z, Len(z)) = Count(s, Len(s))
  <2>1. DullBehind(s, z, k)
    BY <1>1, DullExtends
  <2>2. Count(z, Len(z)) = Count(s, Len(s))
    BY <1>1, DullExtends
  <2> QED BY <2>1, <2>2
<1>3. \A m \in 1 .. k : x[m] = Cell("payload", id, f + m)
  BY DEF Payload
<1>4. \A m \in 1 .. k : z[Len(s) + m] = x[m]
  <2>1. x \in Seq(Cells) /\ Len(x) = k /\ Len(x) >= 1
    BY <1>1 DEF Dull
  <2> QED BY <2>1, JoinExtends
<1>5. RestOf(s, z, w, o)
  BY <1>2, <1>3, <1>4 DEF RestOf, DullBehind
<1> QED BY <1>2, <1>5 DEF RestAdded

\* The rest of a caplet opens a page.
LEMMA LaysRest ==
  ASSUME NEW s, NEW z, NEW n, NEW b, NEW w, NEW o, NEW o2, NEW k,
         s \in Seq(Cells), n \in Nat, n > 0, b \in Nat, EndsIn(s, n, b, 0), InSplit(s), w \in Seq(Sizes),
         o \in Nat, k \in Nat, k <= Room, DullBehind(s, z, k), RestOf(s, z, w, o), Laid(s, w, o)
  PROVE  Laid(z, w, o2)
<1>3. DullBehind(s, z, k)
  OBVIOUS
<1>5. PICK p \in Nat, r \in Nat : p = PageSize /\ r = Room /\ r < p /\ k <= r
  BY Numbers
<1>6. Len(s) = b + 0 /\ Len(z) = b + k /\ b + k <= b + p /\ b + k # b + p
  <2>1. Len(s) = b + 0
    BY EndsAt
  <2>2. Len(z) = Len(s) + k
    BY <1>3 DEF DullBehind
  <2> QED BY <1>5, <2>1, <2>2
<1>7. Adds(s, z, n, 0, TRUE, w, o)
  <2>1. 0 <= r
    OBVIOUS
  <2>2. b = n * PageSize
    BY StartOf
  <2> QED BY <1>3, <1>5, <1>6, <2>1, <2>2 DEF Adds, DullBehind, InSplit
<1>8. NewStarts(s, z, n, w, o2)
  BY <1>3 DEF NewStarts, DullBehind
<1>9. Len(z) # n * PageSize + PageSize
  BY <1>5, <1>6, StartOf
<1> QED BY <1>3, <1>7, <1>8, <1>9, Lays

\* x starts with a record, and has no other.
Carries(x, k, id, len, part) ==
  /\ x \in Seq(Cells) /\ k \in Nat /\ Len(x) = k /\ Packed(part) <= k
  /\ Says(x, id, len, part) /\ \A i \in 2 .. k : x[i].kind # "caplet"

\* A record behind s.
RecordBehind(s, z, l, k, id, len, part) ==
  /\ Extends(s, z) /\ Len(s) = l /\ Len(z) = l + k /\ Packed(part) \in Nat /\ Packed(part) <= k
  /\ Packed(part) = CapHeader + IntSize + part
  /\ z[l + 1] = Cell("caplet", id, len) /\ z[l + 1].kind = "caplet" /\ z[l + 1].id = id /\ z[l + 1].n = len
  /\ PartAt(z, l + 1) = part
  /\ \A m \in 1 .. part : z[l + CapHeader + IntSize + m] = Cell("payload", id, m)
  /\ \A m \in Nat : m > l + 1 /\ m <= l + k => z[m].kind # "caplet"

\* Cells that start with a record, put behind s.
LEMMA CarriesExtends ==
  ASSUME NEW s \in Seq(Cells), NEW l \in Nat, Len(s) = l, NEW id \in Nat, NEW len \in Nat, NEW part \in Nat,
         NEW k \in Nat, NEW x, Carries(x, k, id, len, part), NEW z, z = s \o x
  PROVE  RecordBehind(s, z, l, k, id, len, part)
<1>1. PICK h \in Nat, t \in Nat : h = CapHeader /\ t = IntSize /\ h >= 1 /\ t >= 1
  BY Numbers
<1>2. Packed(part) = h + t + part /\ h + t + part \in Nat /\ h + t + part <= k
  BY <1>1 DEF Packed, Carries
<1>3. k >= 1 /\ h + 1 <= k
  BY <1>1, <1>2
<1>4. x \in Seq(Cells) /\ Len(x) = k /\ \A i \in 2 .. k : x[i].kind # "caplet"
  BY DEF Carries
<1>5. Extends(s, z) /\ Len(z) = l + k /\ \A m \in 1 .. k : z[l + m] = x[m]
  BY <1>3, <1>4, JoinExtends
<1>6. /\ x[1] = Cell("caplet", id, len) /\ x[h + 1] = Cell("length", 0, part)
      /\ \A m \in 1 .. part : x[h + t + m] = Cell("payload", id, m)
  BY <1>1 DEF Carries, Says
<1>7. z[l + 1] = Cell("caplet", id, len)
  <2>1. 1 \in 1 .. k
    BY <1>3
  <2> QED BY <1>5, <1>6, <2>1
<1>8. z[l + 1].kind = "caplet" /\ z[l + 1].id = id /\ z[l + 1].n = len
  BY <1>7 DEF Cell
<1>9. PartAt(z, l + 1) = part
  <2>1. h + 1 \in 1 .. k /\ l + 1 + h = l + (h + 1)
    BY <1>3
  <2>2. z[l + 1 + h] = Cell("length", 0, part)
    BY <1>5, <1>6, <2>1
  <2> QED BY <1>1, <2>2 DEF PartAt, Cell
<1>10. \A m \in 1 .. part : z[l + CapHeader + IntSize + m] = Cell("payload", id, m)
  <2>1. ASSUME NEW m \in 1 .. part PROVE h + t + m \in 1 .. k /\ l + h + t + m = l + (h + t + m)
    BY <1>2
  <2> QED BY <1>1, <1>5, <1>6, <2>1
<1>11. ASSUME NEW m \in Nat, m > l + 1, m <= l + k PROVE z[m].kind # "caplet"
  <2>1. m - l \in 1 .. k /\ m - l \in 2 .. k /\ l + (m - l) = m
    BY <1>11
  <2> QED BY <1>4, <1>5, <2>1
<1> QED BY <1>1, <1>2, <1>5, <1>7, <1>8, <1>9, <1>10, <1>11 DEF RecordBehind

\* The caplet of a record behind s is counted.
LEMMA RecordCounts ==
  ASSUME NEW s, NEW z, NEW l \in Nat, NEW k \in Nat, k >= 1, NEW id, NEW len, NEW part,
         RecordBehind(s, z, l, k, id, len, part)
  PROVE  Count(z, l + 1) = Count(s, l) + 1 /\ Count(z, Len(z)) = Count(s, l) + 1
<1>1. Extends(s, z) /\ Len(s) = l /\ Len(z) = l + k /\ z[l + 1].kind = "caplet"
  BY DEF RecordBehind
<1>2. Count(z, l) = Count(s, l)
  <2>1. l <= Len(s)
    BY <1>1
  <2> QED BY <1>1, <2>1, CountStays
<1>3. ASSUME NEW m \in l + 2 .. l + k PROVE z[m].kind # "caplet"
  <2>1. m \in Nat /\ m > l + 1 /\ m <= l + k
    OBVIOUS
  <2> QED BY <2>1 DEF RecordBehind
<1>4. Count(z, l + k) = Count(z, l) + 1
  <2>1. l + k \in Nat /\ l < l + k
    OBVIOUS
  <2> QED BY <1>1, <1>3, <2>1, CountOne
<1>5. Count(z, l + 1) = Count(z, l) + 1
  <2>1. l + 1 \in Nat /\ l < l + 1 /\ \A m \in l + 2 .. l + 1 : FALSE
    OBVIOUS
  <2> QED BY <1>1, <2>1, CountOne
<1> QED BY <1>1, <1>2, <1>4, <1>5

\* Caplet id, of length len, follows what is in s.
Follows(s, w, id, len) ==
  w \in Seq(Sizes) /\ id \in 1 .. Len(w) /\ len = w[id] /\ id = Count(s, Len(s)) + 1

\* No caplet was added after it.
IsLast(w, id) == Len(w) = id

\* It stands where the next caplet should, if it is that.
LEMMA RecordStands ==
  ASSUME NEW s, NEW z, NEW n \in Nat, NEW u \in Nat, NEW b \in Nat, EndsIn(s, n, b, u), NEW l \in Nat, NEW k \in Nat, k >= 1,
         NEW w, NEW id \in Nat, NEW len \in Nat, NEW part \in Nat, part <= len,
         RecordBehind(s, z, l, k, id, len, part), Follows(s, w, id, len), u + Packed(part) <= Room,
         NEW o,
         part = len => Tight(z, l + Packed(part), b),
         part < len => u + Packed(part) = Room /\ GoesOn(z, b, id, len, part, w, o)
  PROVE  NewStarts(s, z, n, w, o) /\ StartsAt(z, l + 1, b)
<1>1. b = n * PageSize
  BY StartOf
<1>2. l = b + u
  <2>1. Len(s) = l
    BY DEF RecordBehind
  <2> QED BY <2>1, EndsAt
<1>3. PICK c \in Nat, r \in Nat, p \in Nat : /\ c = Packed(part) /\ r = Room /\ p = PageSize /\ r < p /\ c <= k
                                       /\ u + c <= r
  <2>1. PageSize \in Nat /\ Room \in Nat /\ Room < PageSize
    BY Numbers
  <2>2. Packed(part) \in Nat /\ Packed(part) <= k
    BY DEF RecordBehind
  <2> QED BY <2>1, <2>2
<1>4. l + 1 - 1 + Packed(part) = l + c
  BY <1>3
<1>5. Count(z, l + 1) = id /\ id \in 1 .. Len(w) /\ len = w[id]
  <2>1. Count(z, l + 1) = Count(s, l) + 1
    BY RecordCounts
  <2>2. Len(s) = l
    BY DEF RecordBehind
  <2> QED BY <2>1, <2>2 DEF Follows
<1>6. /\ z[l + 1].kind = "caplet" /\ z[l + 1].id = id /\ z[l + 1].n = len /\ PartAt(z, l + 1) = part
      /\ Len(z) = l + k /\ Len(s) = l
  BY DEF RecordBehind
<1>7. l + c <= b + r /\ l + c <= l + k /\ part \in 0 .. len
  <2>1. u + c <= r /\ c <= k
    BY <1>3
  <2>2. l + c = b + (u + c)
    BY <1>2
  <2> QED BY <2>1, <2>2
<1>8. \A m \in 1 .. part : z[l + 1 - 1 + CapHeader + IntSize + m] = Cell("payload", id, m)
  <2>1. l + 1 - 1 = l
    OBVIOUS
  <2> QED BY <2>1 DEF RecordBehind
<1>9. ASSUME NEW m \in l + 1 + 1 .. l + c PROVE z[m].kind # "caplet"
  <2>1. m \in Nat /\ m > l + 1 /\ m <= l + k
    BY <1>3
  <2> QED BY <2>1 DEF RecordBehind
<1>10. part < len => l + c = b + r
  <2> SUFFICES ASSUME part < len PROVE l + c = b + r
    OBVIOUS
  <2>1. u + c = r
    BY <1>3
  <2> QED BY <1>2, <2>1
<1>11. Holds(z, l + 1, b, id, len, part, w, o)
  <2>1. l + 1 - 1 + Packed(part) <= b + Room /\ l + 1 - 1 + Packed(part) <= Len(z)
    BY <1>3, <1>4, <1>6, <1>7
  <2>2. id = Count(z, l + 1) /\ id \in 1 .. Len(w) /\ len = w[id] /\ part \in 0 .. len
    BY <1>5, <1>7
  <2>3. part < len => l + 1 - 1 + Packed(part) = b + Room
    BY <1>3, <1>4, <1>10
  <2>4. \A m \in l + 1 + 1 .. l + 1 - 1 + Packed(part) : z[m].kind # "caplet"
    BY <1>3, <1>4, <1>9
  <2>5. part = len => Tight(z, l + 1 - 1 + Packed(part), b)
    BY <1>4, <1>3
  <2> QED BY <1>8, <2>1, <2>2, <2>3, <2>4, <2>5 DEF Holds
<1>12. Stands(z, l + 1, b, w, o)
  BY <1>6, <1>11 DEF Stands
<1>13. ASSUME NEW i \in Nat, i > l, i <= l + k, z[i].kind = "caplet" PROVE i = l + 1
  <2>1. ~(i > l + 1)
    BY <1>13 DEF RecordBehind
  <2> QED BY <1>13, <2>1
<1>14. NewStarts(s, z, n, w, o)
  BY <1>1, <1>6, <1>12, <1>13 DEF NewStarts
<1>15. l + 1 \in b + 1 .. b + p /\ l + 1 <= l + k
  <2>1. u <= r
    BY <1>3, EndsAt
  <2> QED BY <1>2, <1>3, <2>1
<1> QED BY <1>3, <1>6, <1>14, <1>15 DEF StartsAt

\* A caplet that fits.
LEMMA LaysWhole ==
  ASSUME NEW s, NEW n, NEW u, NEW b, NEW l, NEW w, NEW o, NEW o2, NEW id, NEW len, NEW k, NEW z,
         n \in Nat, u \in Nat, b \in Nat, EndsIn(s, n, b, u), NoSplit(s), l \in Nat, o \in Nat,
         Laid(s, w, o), id \in Nat, len \in Nat, Follows(s, w, id, len), k \in Nat,
         k >= 1, Packed(len) = k, u + k <= Room, RecordBehind(s, z, l, k, id, len, len)
  PROVE  Laid(z, w, o2)
<1>1. b = n * PageSize /\ u <= Room
  BY StartOf, EndsAt
<1>2. Len(s) = l /\ l = b + u
  <2>1. Len(s) = l
    BY DEF RecordBehind
  <2>2. Len(s) = b + u
    BY EndsAt
  <2> QED BY <2>1, <2>2
<1>3. PICK r \in Nat, p \in Nat : r = Room /\ p = PageSize /\ r < p
  BY Numbers
<1>4. Extends(s, z) /\ Len(z) = l + k /\ z[l + 1].kind = "caplet"
  BY DEF RecordBehind
<1>5. Tight(z, l + Packed(len), b)
  BY <1>4 DEF Tight
<1>6. NewStarts(s, z, n, w, o2)
  <2>1. len <= len /\ ~(len < len)
    OBVIOUS
  <2>2. u + Packed(len) <= Room
    OBVIOUS
  <2> QED BY <1>5, <2>1, <2>2, RecordStands
<1>7. l + k < b + p
  <2>1. u + k <= r
    BY <1>3
  <2>2. l + k = b + (u + k)
    BY <1>2
  <2> QED BY <1>3, <2>1, <2>2
<1>8. Adds(s, z, n, u, FALSE, w, o)
  <2>1. l + k <= b + p
    BY <1>3, <1>7
  <2> QED BY <1>1, <1>2, <1>3, <1>4, <2>1 DEF Adds, NoSplit
<1>9. Len(z) # n * PageSize + PageSize
  BY <1>1, <1>3, <1>4, <1>7
<1> QED BY <1>6, <1>8, <1>9, Lays DEF Follows

\* The caplet that is split, at the end of its page.
LEMMA LaysSplit ==
  ASSUME NEW s, NEW n, NEW u, NEW b, NEW l, NEW w, NEW o, NEW o2, NEW id, NEW len, NEW part,
         n \in Nat, u \in Nat, b \in Nat, EndsIn(s, n, b, u), NoSplit(s), l \in Nat, o \in Nat, o2 \in Nat,
         Laid(s, w, o), id \in Nat, len \in Nat, Follows(s, w, id, len), IsLast(w, id), part \in Nat,
         part < len, Packed(part) = o2, Packed(len) <= Room, u + o2 = Room, NEW k \in Nat, o2 + PageHeader = k, NEW z,
         RecordBehind(s, z, l, k, id, len, part), "spilled" \in HeaderAt(z, b).flags
  PROVE  Laid(z, w, o2)
<1>1. b = n * PageSize /\ u <= Room
  BY StartOf, EndsAt
<1>2. Len(s) = l /\ l = b + u
  <2>1. Len(s) = l
    BY DEF RecordBehind
  <2>2. Len(s) = b + u
    BY EndsAt
  <2> QED BY <2>1, <2>2
<1>3. PICK r \in Nat, p \in Nat, g \in Nat : r = Room /\ p = PageSize /\ g = PageHeader /\ g >= 1 /\ r + g = p
  BY Numbers
<1>4. Extends(s, z) /\ Len(z) = l + k /\ z[l + 1].kind = "caplet"
  BY DEF RecordBehind
<1>5. l + o2 = b + r /\ l + k = b + p /\ k >= 1
  <2>1. u + o2 = r /\ k = o2 + g
    BY <1>3
  <2>2. l + o2 = b + r
    BY <1>2, <2>1
  <2>3. g >= 1 /\ r + g = p
    BY <1>3
  <2> QED BY <2>1, <2>2, <2>3
<1>6. PICK h \in Nat, t \in Nat : h = CapHeader /\ t = IntSize /\ h >= 1
  BY Numbers
<1>7. o2 >= 1 /\ len - part <= r
  <2>1. o2 = h + t + part /\ h + t + len <= r
    BY <1>3, <1>6 DEF Packed
  <2> QED BY <1>6, <2>1
<1>8. GoesOn(z, b, id, len, part, w, o2)
  <2>1. b + p = Len(z) /\ b + p <= Len(z)
    BY <1>4, <1>5
  <2>2. ASSUME NEW m \in b + r + 1 .. b + p PROVE z[m].kind # "caplet"
    <3>1. l + o2 = b + r /\ l + k = b + p /\ o2 >= 1
      BY <1>5, <1>7
    <3>2. m \in Nat /\ m > l + 1
      BY <2>2, <3>1
    <3>3. m <= l + k
      BY <2>2, <3>1
    <3> QED BY <3>2, <3>3 DEF RecordBehind
  <2>3. len - part <= Room
    BY <1>3, <1>7
  <2> QED BY <1>3, <2>1, <2>2, <2>3 DEF GoesOn, IsLast
<1>9. NewStarts(s, z, n, w, o2) /\ StartsAt(z, l + 1, b)
  <2>1. u + Packed(part) = Room /\ u + Packed(part) <= Room
    <3>1. r <= r
      OBVIOUS
    <3> QED BY <1>3, <3>1
  <2>2. part <= len /\ part # len
    OBVIOUS
  <2>3. k >= 1
    BY <1>5
  <2> QED BY <1>8, <2>1, <2>2, <2>3, RecordStands
<1>10. Adds(s, z, n, u, FALSE, w, o)
  <2>1. l + k <= b + p
    BY <1>3, <1>5
  <2> QED BY <1>1, <1>2, <1>3, <1>4, <2>1 DEF Adds, NoSplit
<1>11. SplitIn(z, n * PageSize)
  <2>1. PartAt(z, l + 1) < z[l + 1].n
    BY DEF RecordBehind
  <2>2. l + 1 \in Nat
    OBVIOUS
  <2> QED BY <1>1, <1>9, <2>1, <2>2 DEF SplitIn
<1> QED BY <1>9, <1>10, <1>11, Lays DEF Follows

\* A caplet is added: nothing that is there changes.
LEMMA Longer ==
  ASSUME NEW s \in Seq(Cells), Full(s, FALSE), NEW w \in Seq(Sizes), NEW w2 \in Seq(Sizes),
         Len(w) \in Nat, Len(w2) = Len(w) + 1, \A i \in 1 .. Len(w) : w2[i] = w[i],
         NEW o, NEW o2, Laid(s, w, o)
  PROVE  Laid(s, w2, o2)
<1> SUFFICES ASSUME NEW j, NEW a, At(j, a) PROVE PageLaid(s, a, w2, o2)
  BY PageStart DEF Laid, At
<1>1. PageLaid(s, a, w, o) /\ a \in Nat
  BY DEF Laid, At
<1>2. ASSUME NEW i \in Nat, StartsAt(s, i, a) PROVE Stands(s, i, a, w2, o2)
  <2>1. Stands(s, i, a, w, o)
    BY <1>1, <1>2 DEF PageLaid
  <2>2. PICK id, len, part : id = s[i].id /\ len = s[i].n /\ part = PartAt(s, i)
    OBVIOUS
  <2>3. Holds(s, i, a, id, len, part, w, o)
    BY <2>1, <2>2 DEF Stands
  <2>4. id \in 1 .. Len(w2) /\ len = w2[id]
    BY <2>3 DEF Holds
  <2>5. ASSUME part < len PROVE GoesOn(s, a, id, len, part, w2, o2)
    <3>1. GoesOn(s, a, id, len, part, w, o)
      BY <2>3, <2>5 DEF Holds
    <3>2. a + PageSize # Len(s)
      <4> SUFFICES ASSUME a + PageSize = Len(s) PROVE FALSE
        OBVIOUS
      <4>1. j * PageSize <= Len(s)
        <5>1. j * PageSize = Len(s)
          BY AtNext
        <5> QED BY <5>1, LenProperties
      <4>2. Spills(s, a, FALSE)
        BY <4>1 DEF Full, At
      <4>3. ~(a + PageSize < Len(s))
        BY LenProperties
      <4> QED BY <3>1, <4>2, <4>3 DEF Spills, GoesOn
    <3> QED BY <3>1, <3>2 DEF GoesOn
  <2>6. Holds(s, i, a, id, len, part, w2, o2)
    BY <2>3, <2>4, <2>5 DEF Holds
  <2> QED BY <2>2, <2>6 DEF Stands
<1> QED BY <1>1, <1>2 DEF PageLaid

-----------------------------------------------------------------------------
(* The caplets of what is written.                                         *)

\* One caplet was added of which nothing is packed.
Owed == IF pc = "pack" /\ offset = 0 THEN 1 ELSE 0

\* What was packed are the caplets added, in order.
Drawn == Laid(Made, written, offset) /\ Count(Made, Len(Made)) + Owed = Len(written)

\* Where the packer is.
LEMMA Position ==
  ASSUME Packing
  PROVE  \E n, b, u \in Nat : u = used /\ EndsIn(Made, n, b, u)
<1>1. Typed /\ Placed
  BY DEF Packing
<1>2. /\ Made \in Seq(Cells) /\ used \in Nat
      /\ \E n \in Nat : Len(Made) = n * PageSize + used /\ n * PageSize \in Nat
  BY <1>1, Where
<1>3. PICK n \in Nat, b \in Nat, u \in Nat : b = n * PageSize /\ u = used /\ Len(Made) = b + u
  BY <1>2
<1>4. used <= Room
  BY <1>1, Numbers DEF Typed
<1> QED BY <1>2, <1>3, <1>4 DEF EndsIn

\* What was added.
LEMMA AddedIs ==
  ASSUME Packing
  PROVE  written \in Seq(Sizes) /\ Len(written) \in Nat /\ offset \in Nat
BY LenProperties DEF Packing, Typed

\* addCaplet starts.
LEMMA AddCapletDrawn ==
  ASSUME Packing, Drawn, NEW len \in Sizes, AddCaplet(len)
  PROVE  Drawn'
<1>1. /\ pc = "idle" /\ pc' = "pack" /\ offset' = 0 /\ written' = Append(written, len)
      /\ file' = file /\ ret' = ret /\ bytes' = bytes
  BY DEF AddCaplet, reader
<1>2. Made' = Made
  BY <1>1 DEF Made, Out
<1>3. /\ Len(written') = Len(written) + 1 /\ \A i \in 1 .. Len(written) : written'[i] = written[i]
      /\ written' \in Seq(Sizes)
  BY <1>1, AddedIs, AppendProperties
<1>4. Full(Made, FALSE) /\ Made \in Seq(Cells)
  <2>1. Full(Made, Mid) /\ Made \in Seq(Cells)
    BY Where DEF Packing, FullPages
  <2>2. ~Mid
    BY <1>1 DEF Mid
  <2> QED BY <2>1, <2>2 DEF Full, Spills
<1>5. Laid(Made, written', 0)
  BY <1>3, <1>4, AddedIs, Longer DEF Drawn
<1>6. Owed = 0 /\ Owed' = 1
  BY <1>1 DEF Owed
<1>7. PICK c : c = Count(Made, Len(Made)) /\ c + 0 = Len(written)
  BY <1>6 DEF Drawn
<1>8. c \in Nat
  <2>1. Len(Made) \in Nat /\ 0 <= Len(Made)
    BY <1>4, LenProperties
  <2> QED BY <1>7, <2>1, CountGrows
<1>9. c + 1 = Len(written')
  BY <1>3, <1>7, <1>8
<1> QED BY <1>1, <1>2, <1>5, <1>6, <1>7, <1>9 DEF Drawn

\* The pages before the open one, when no caplet is split.
LEMMA Unsplit ==
  ASSUME Packing, ~Mid
  PROVE  NoSplit(Made)
<1>1. Full(Made, Mid)
  BY DEF Packing, FullPages
<1> QED BY <1>1 DEF NoSplit, Full, Spills

\* A page ends with header h, before a caplet.
LEMMA EndDrawn ==
  ASSUME Packing, Laid(Made, written, offset), ~Mid, NEW h \in Cells, h.kind = "page", "spilled" \notin h.flags,
         NEW o2
  PROVE  /\ Laid(Made \o PageEnd(h, Free), written, o2)
         /\ Count(Made \o PageEnd(h, Free), Len(Made \o PageEnd(h, Free))) = Count(Made, Len(Made))
<1>1. PICK n \in Nat, b \in Nat, u \in Nat : u = used /\ EndsIn(Made, n, b, u)
  BY Position
<1>2. Free = Room - u /\ u <= Room
  BY <1>1, EndsAt DEF Free
<1>3. PICK f \in Nat, k \in Nat : f = Free /\ k = f + PageHeader /\ k >= 1 /\ u + k = PageSize
  <2>1. PICK r \in Nat, g \in Nat, p \in Nat : r = Room /\ g = PageHeader /\ p = PageSize /\ g >= 1 /\ r + g = p
    BY Numbers
  <2>2. PICK f \in Nat : f = Free /\ f = r - u
    BY <1>2, <2>1
  <2>3. f + g >= 1 /\ u + (f + g) = p
    BY <2>1, <2>2
  <2> QED BY <2>1, <2>2, <2>3
<1>4. PICK x : x = PageEnd(h, f) /\ Dull(x, k)
  BY <1>3, PageEndIs
<1>5. NoSplit(Made)
  BY Unsplit
<1>6. Made \in Seq(Cells)
  BY <1>1, EndsAt
<1>11. Len(Made) = b + u
  <2>1. EndsIn(Made, n, b, u)
    BY <1>1
  <2> QED BY <2>1, EndsAt
<1>7. HeaderAt(Made \o x, b) = h
  <2>1. PICK g \in Nat, p \in Nat : g = PageHeader /\ p = PageSize /\ k = f + g /\ u + k = p
    BY <1>3, Numbers
  <2>2. PICK l \in Nat : l = Len(Made) /\ l = b + u
    BY <1>6, <1>11, LenProperties
  <2>3. b <= l /\ l + f + g = b + p
    BY <2>1, <2>2
  <2>4. b <= Len(Made) /\ Len(Made) + f + PageHeader = b + PageSize
    BY <2>1, <2>2, <2>3
  <2>5. HeaderAt(Made \o PageEnd(h, f), b) = h
    BY <1>6, <2>4, PageCloses
  <2> QED BY <1>4, <2>5
<1>8. "spilled" \notin HeaderAt(Made \o x, b).flags
  BY <1>7
<1>12. PICK z : z = Made \o x
  OBVIOUS
<1>13. k >= 1 /\ Dull(x, k) /\ EndsIn(Made, n, b, u) /\ u + k = PageSize
  BY <1>1, <1>3, <1>4
<1>14. DullBehind(Made, z, k) /\ Count(z, Len(z)) = Count(Made, Len(Made))
  BY <1>6, <1>12, <1>13, DullExtends
<1>15. "spilled" \notin HeaderAt(z, b).flags
  BY <1>8, <1>12
<1>16. Laid(z, written, o2)
  BY <1>5, <1>6, <1>13, <1>14, <1>15, AddedIs, LaysEnd
<1>10. Laid(Made \o x, written, o2) /\ Count(Made \o x, Len(Made \o x)) = Count(Made, Len(Made))
  BY <1>12, <1>14, <1>16
<1> QED BY <1>3, <1>4, <1>10

\* A caplet.
LEMMA RecordCarries ==
  ASSUME NEW id \in Nat, NEW len \in Nat, NEW part \in Nat
  PROVE  Carries(Record(id, len, part), Packed(part), id, len, part) /\ Packed(part) \in Nat /\ Packed(part) >= 1
<1>1. Opened(Record(id, len, part), Packed(part)) /\ Says(Record(id, len, part), id, len, part)
  BY RecordIs
<1>2. Packed(part) \in Nat /\ Packed(part) >= 1 /\ Packed(part) <= Packed(part)
  <2>1. PICK h \in Nat, t \in Nat : h = CapHeader /\ t = IntSize /\ h >= 1
    BY Numbers
  <2>2. h + t + part \in Nat /\ h + t + part >= 1 /\ h + t + part <= h + t + part
    BY <2>1
  <2> QED BY <2>1, <2>2 DEF Packed
<1> QED BY <1>1, <1>2 DEF Carries, Opened

\* Behind cell c of x is header h.
Closes(x, c, h) == x[c + 1] = h

\* A caplet, and the end of the page.
LEMMA EndedCarries ==
  ASSUME NEW id \in Nat, NEW len \in Nat, NEW part \in Nat, NEW h \in Cells, h.kind = "page",
         NEW c \in Nat, Packed(part) = c, NEW k \in Nat, c + PageHeader = k
  PROVE  /\ Carries(Record(id, len, part) \o PageEnd(h, 0), k, id, len, part)
         /\ Closes(Record(id, len, part) \o PageEnd(h, 0), c, h)
<1>1. PICK r : r = Record(id, len, part) /\ Carries(r, c, id, len, part) /\ c >= 1
  BY RecordCarries
<1>2. PICK g \in Nat : g = PageHeader /\ g >= 1 /\ c + g = k
  BY Numbers
<1>3. PICK e : e = PageEnd(h, 0) /\ Dull(e, g) /\ e[1] = h
  <2>1. Dull(PageEnd(h, 0), 0 + PageHeader) /\ PageEnd(h, 0)[0 + 1] = h
    BY PageEndIs
  <2>2. 0 + g = g /\ 0 + 1 = 1
    OBVIOUS
  <2> QED BY <1>2, <2>1, <2>2
<1>4. r \in Seq(Cells) /\ Len(r) = c /\ \A i \in 2 .. c : r[i].kind # "caplet"
  BY <1>1 DEF Carries
<1>5. e \in Seq(Cells) /\ Len(e) = g /\ \A i \in 1 .. g : e[i].kind # "caplet"
  BY <1>3 DEF Dull
<1>6. PICK x \in Seq(Cells) : /\ x = r \o e /\ Len(x) = k /\ \A i \in 1 .. c : x[i] = r[i]
                              /\ \A i \in 1 .. g : x[c + i] = e[i]
  <2>0. r \in Seq(Cells) /\ e \in Seq(Cells)
    BY <1>4, <1>5
  <2>1. /\ r \o e \in Seq(Cells) /\ Len(r \o e) = Len(r) + Len(e)
        /\ \A i \in 1 .. Len(r) : (r \o e)[i] = r[i]
        /\ \A i \in 1 .. Len(e) : (r \o e)[Len(r) + i] = e[i]
    BY <2>0, Joins
  <2>2. /\ r \o e \in Seq(Cells) /\ Len(r \o e) = k
        /\ \A i \in 1 .. c : (r \o e)[i] = r[i]
        /\ \A i \in 1 .. g : (r \o e)[c + i] = e[i]
    BY <1>2, <1>4, <1>5, <2>1
  <2> QED BY <2>2
<1>7. x[c + 1] = h
  <2>1. 1 \in 1 .. g
    BY <1>2
  <2> QED BY <1>3, <1>6, <2>1
<1>8. ASSUME NEW i \in 2 .. k PROVE x[i].kind # "caplet"
  <2>1. CASE i <= c
    <3>1. i \in 1 .. c /\ i \in 2 .. c
      BY <2>1
    <3> QED BY <1>4, <1>6, <3>1
  <2>2. CASE i > c
    <3>1. i - c \in 1 .. g /\ c + (i - c) = i
      BY <1>2, <2>2
    <3> QED BY <1>5, <1>6, <3>1
  <2> QED BY <2>1, <2>2
<1>9. Says(x, id, len, part)
  <2>1. PICK q \in Nat, t \in Nat : q = CapHeader /\ t = IntSize /\ q >= 1 /\ t >= 1 /\ c = q + t + part
    BY Numbers DEF Packed
  <2>2. /\ r[1] = Cell("caplet", id, len) /\ r[q + 1] = Cell("length", 0, part)
        /\ \A m \in 1 .. part : r[q + t + m] = Cell("payload", id, m)
    BY <1>1, <2>1 DEF Carries, Says
  <2>3. 1 \in 1 .. c /\ q + 1 \in 1 .. c /\ \A m \in 1 .. part : q + t + m \in 1 .. c
    BY <2>1
  <2>4. /\ x[1] = Cell("caplet", id, len) /\ x[q + 1] = Cell("length", 0, part)
        /\ \A m \in 1 .. part : x[q + t + m] = Cell("payload", id, m)
    BY <1>6, <2>2, <2>3
  <2> QED BY <2>1, <2>4 DEF Says
<1>10. Carries(x, k, id, len, part)
  <2>1. c <= k
    BY <1>2
  <2> QED BY <1>6, <1>8, <1>9, <2>1 DEF Carries
<1>11. Closes(x, c, h)
  BY <1>7 DEF Closes
<1> QED BY <1>1, <1>3, <1>6, <1>10, <1>11

\* Not within a caplet, all that was added was packed but the one that is owed.
LEMMA NextOne ==
  ASSUME Packing, Drawn, pc = "pack", offset = 0
  PROVE  Id \in Nat /\ Length \in Nat /\ Follows(Made, written, Id, Length) /\ IsLast(written, Id) /\ ~Mid
<1>1. Id \in Nat /\ Id >= 1 /\ Length \in Nat
  BY TheCaplet DEF Packing
<1>2. Count(Made, Len(Made)) + 1 = Len(written)
  BY DEF Drawn, Owed
<1>3. Id \in 1 .. Len(written)
  BY <1>1 DEF Id
<1> QED BY <1>1, <1>2, <1>3, AddedIs DEF Follows, IsLast, Id, Length, Mid

\* A step that leaves nothing owed, and one that leaves it.
LEMMA DrawnAgain ==
  ASSUME Packing, Drawn, NEW z, Made' = z, written' = written, Laid(z, written, offset'), NEW d \in {0, 1},
         Count(z, Len(z)) = Count(Made, Len(Made)) + d, Owed = Owed' + d
  PROVE  Drawn'
<1>1. Made \in Seq(Cells) /\ Len(Made) \in Nat /\ 0 <= Len(Made)
  BY Where, LenProperties DEF Packing
<1>2. Count(Made, Len(Made)) \in Nat
  BY <1>1, CountGrows
<1>3. Owed' \in {0, 1}
  BY DEF Owed
<1>4. PICK c \in Nat, e \in Nat : c = Count(Made, Len(Made)) /\ e = Owed' /\ Count(z, Len(z)) = c + d /\ Owed = e + d
  BY <1>2, <1>3
<1>5. Count(z, Len(z)) + Owed' = Len(written)
  <2>1. c + (e + d) = Len(written)
    BY <1>4 DEF Drawn
  <2>2. (c + d) + e = c + (e + d)
    OBVIOUS
  <2> QED BY <1>4, <2>1, <2>2
<1> QED BY <1>5 DEF Drawn

\* The caplet's header does not fit.
LEMMA SkipDrawn ==
  ASSUME Packing, Drawn, Skip
  PROVE  Drawn'
<1>1. pc = "pack" /\ offset = 0 /\ offset' = 0 /\ pc' = pc /\ written' = written
  BY DEF Skip, NextPage
<1>2. Made' = Made \o PageEnd(ph, Free)
  BY SkipStep
<1>3. ph \in Cells /\ ph.kind = "page" /\ "spilled" \notin ph.flags
  BY DEF Packing, Typed, OpenPage, Tells
<1>4. ~Mid
  BY <1>1 DEF Mid
<1>5. PICK z : z = Made \o PageEnd(ph, Free)
  OBVIOUS
<1>6. Laid(z, written, offset') /\ Count(z, Len(z)) = Count(Made, Len(Made))
  BY <1>3, <1>4, <1>5, EndDrawn DEF Drawn
<1>7. Owed = 1 /\ Owed' = 1
  BY <1>1 DEF Owed
<1>8. Count(Made, Len(Made)) + 0 = Count(Made, Len(Made))
  <2>1. Len(Made) \in Nat /\ 0 <= Len(Made)
    BY Where, LenProperties DEF Packing
  <2>2. Count(Made, Len(Made)) \in Nat
    BY <2>1, CountGrows
  <2> QED BY <2>2
<1>9. Made' = z
  BY <1>2, <1>5
<1>10. Owed = Owed' + 0 /\ Count(z, Len(z)) = Count(Made, Len(Made)) + 0
  BY <1>6, <1>7, <1>8
<1> QED BY <1>1, <1>6, <1>9, <1>10, DrawnAgain

\* A caplet that fits.
LEMMA WholeDrawn ==
  ASSUME Packing, Drawn, Whole
  PROVE  Drawn'
<1>1. pc = "pack" /\ offset = 0 /\ Free >= Packed(Length) /\ pc' = "idle" /\ written' = written
  BY DEF Whole, Return
<1>2. Made' = Made \o Record(Id, Length, Length)
  BY WholeStep
<1>3. PICK id \in Nat, len \in Nat : /\ id = Id /\ len = Length /\ Follows(Made, written, id, len) /\ ~Mid
  BY <1>1, NextOne
<1>4. PICK n \in Nat, b \in Nat, u \in Nat : u = used /\ EndsIn(Made, n, b, u)
  BY Position
<1>5. PICK k \in Nat : Packed(len) = k /\ k >= 1 /\ Carries(Record(id, len, len), k, id, len, len)
  BY RecordCarries
<1>6. u + k <= Room
  <2>1. Room - u >= k
    BY <1>1, <1>3, <1>4, <1>5 DEF Free
  <2> QED BY <2>1, Numbers
<1>7. PICK l \in Nat : Len(Made) = l
  BY Where, LenProperties DEF Packing
<1>8. PICK z : z = Made \o Record(id, len, len)
  OBVIOUS
<1>9. RecordBehind(Made, z, l, k, id, len, len)
  <2>1. Made \in Seq(Cells)
    BY Where DEF Packing
  <2> QED BY <1>5, <1>7, <1>8, <2>1, CarriesExtends
<1>10. NoSplit(Made) /\ Laid(Made, written, offset) /\ offset \in Nat
  BY <1>3, Unsplit, AddedIs DEF Drawn
<1>14. Count(z, Len(z)) = Count(Made, l) + 1
  <2>1. k >= 1
    BY <1>5
  <2> QED BY <1>9, <2>1, RecordCounts
<1>11. Laid(z, written, offset')
  <2>1. EndsIn(Made, n, b, u)
    BY <1>4
  <2>2. Follows(Made, written, id, len)
    BY <1>3
  <2>3. Packed(len) = k /\ k >= 1
    BY <1>5
  <2> QED BY <1>6, <1>9, <1>10, <2>1, <2>2, <2>3, LaysWhole
<1>12. Owed = 1 /\ Owed' = 0
  BY <1>1 DEF Owed
<1>13. Made' = z
  BY <1>2, <1>3, <1>8
<1> QED BY <1>1, <1>7, <1>11, <1>12, <1>13, <1>14, DrawnAgain

\* A caplet that is split.
LEMMA SplitDrawn ==
  ASSUME Packing, Drawn, Split
  PROVE  Drawn'
<1>1. /\ pc = "pack" /\ offset = 0 /\ Free >= CapHeader + 2 * IntSize /\ Free < Packed(Length)
      /\ pc' = pc /\ written' = written /\ offset' = Free
  BY DEF Split, NextPage
<1>2. PICK id \in Nat, len \in Nat : /\ id = Id /\ len = Length /\ Follows(Made, written, id, len)
                                     /\ IsLast(written, id) /\ ~Mid
  BY <1>1, NextOne
<1>3. PICK n \in Nat, b \in Nat, u \in Nat : u = used /\ EndsIn(Made, n, b, u)
  BY Position
<1>4. PICK part \in Nat, o2 \in Nat : /\ Free - CapHeader - IntSize = part /\ Free = o2 /\ o2 >= 1
                                      /\ part < len /\ Packed(part) = o2 /\ u + o2 = Room
  <2>1. PICK h \in Nat, t \in Nat, r \in Nat, f \in Nat : h = CapHeader /\ t = IntSize /\ r = Room /\ f = Free /\ f = r - u /\ h >= 1
    <3>1. Free \in Nat /\ Free = Room - used
      BY <1>1, TheCaplet DEF Packing
    <3> QED BY <1>3, <3>1, Numbers
  <2>2. f >= h + 2 * t /\ f < h + t + len
    BY <1>1, <1>2, <2>1 DEF Packed
  <2>3. PICK part \in Nat : part = f - h - t
    BY <2>2
  <2>4. part < len /\ h + t + part = f /\ f >= 1 /\ u + f = r
    BY <2>1, <2>2, <2>3
  <2> QED BY <2>1, <2>3, <2>4 DEF Packed
<1>5. Made' = Made \o (Record(id, len, part) \o PageEnd(SplitHeader, 0))
  BY <1>2, <1>4, SplitStep
<1>6. SplitHeader \in Cells /\ SplitHeader.kind = "page" /\ "spilled" \in SplitHeader.flags
  <2>1. ph \in Cells /\ ph.kind = "page" /\ ph.flags = {}
    BY DEF Packing, Typed, OpenPage, Tells
  <2> QED BY <2>1, SplitHeaderIs
<1>7. PICK k \in Nat : o2 + PageHeader = k
  BY Numbers
<1>8. PICK x : /\ x = Record(id, len, part) \o PageEnd(SplitHeader, 0) /\ Carries(x, k, id, len, part)
               /\ x[o2 + 1] = SplitHeader
  <2>1. Packed(part) = o2
    BY <1>4
  <2>2. PICK x : x = Record(id, len, part) \o PageEnd(SplitHeader, 0)
    OBVIOUS
  <2>3. Carries(Record(id, len, part) \o PageEnd(SplitHeader, 0), k, id, len, part)
    BY <1>6, <1>7, <2>1, EndedCarries
  <2>4. Closes(Record(id, len, part) \o PageEnd(SplitHeader, 0), o2, SplitHeader)
    BY <1>6, <1>7, <2>1, <2>3, EndedCarries
  <2>5. Carries(x, k, id, len, part) /\ Closes(x, o2, SplitHeader)
    BY <2>2, <2>3, <2>4
  <2>6. x[o2 + 1] = SplitHeader
    BY <2>5 DEF Closes
  <2> QED BY <2>2, <2>5, <2>6
<1>9. PICK l \in Nat : Len(Made) = l
  BY Where, LenProperties DEF Packing
<1>10. PICK z : z = Made \o x
  OBVIOUS
<1>11. RecordBehind(Made, z, l, k, id, len, part)
  <2>1. Made \in Seq(Cells)
    BY Where DEF Packing
  <2> QED BY <1>8, <1>9, <1>10, <2>1, CarriesExtends
<1>12. "spilled" \in HeaderAt(z, b).flags
  <2>1. Made \in Seq(Cells) /\ Len(Made) = b + u
    <3>1. EndsIn(Made, n, b, u)
      BY <1>3
    <3> QED BY <3>1, EndsAt
  <2>2. x \in Seq(Cells) /\ Len(x) = k
    BY <1>8 DEF Carries
  <2>3. \A m \in 1 .. Len(x) : z[Len(Made) + m] = x[m]
    <3>1. k >= 1
      BY <1>4, <1>7, Numbers
    <3> QED BY <1>10, <2>1, <2>2, <3>1, JoinExtends
  <2>4. PICK r \in Nat, g \in Nat : r = Room /\ g = PageHeader /\ g >= 1
    BY Numbers
  <2>5. o2 + 1 \in 1 .. k /\ (b + u) + (o2 + 1) = b + r + 1
    BY <1>4, <1>7, <2>4
  <2>6. z[b + r + 1] = SplitHeader
    BY <1>8, <2>1, <2>2, <2>3, <2>5
  <2> QED BY <1>6, <2>4, <2>6 DEF HeaderAt
<1>13. Packed(len) <= Room
  BY <1>1, <1>2, TheCaplet, Numbers DEF Packing
<1>14. NoSplit(Made) /\ Laid(Made, written, offset) /\ offset \in Nat
  BY <1>2, Unsplit, AddedIs DEF Drawn
<1>19. Count(z, Len(z)) = Count(Made, l) + 1
  <2>1. k >= 1
    BY <1>4, <1>7, Numbers
  <2> QED BY <1>11, <2>1, RecordCounts
<1>15. Laid(z, written, o2)
  <2>1. EndsIn(Made, n, b, u) /\ Follows(Made, written, id, len) /\ IsLast(written, id)
    BY <1>2, <1>3
  <2>2. part < len /\ Packed(part) = o2 /\ u + o2 = Room
    BY <1>4
  <2> QED BY <1>7, <1>11, <1>12, <1>13, <1>14, <2>1, <2>2, LaysSplit
<1>16. Owed = 1 /\ Owed' = 0
  BY <1>1, <1>4 DEF Owed
<1>17. Made' = z
  BY <1>5, <1>8, <1>10
<1>18. Laid(z, written, offset')
  BY <1>1, <1>4, <1>15
<1> QED BY <1>1, <1>9, <1>16, <1>17, <1>18, <1>19, DrawnAgain

\* The rest of a caplet.
LEMMA RestDrawn ==
  ASSUME Packing, Drawn, Rest
  PROVE  Drawn'
<1>1. /\ pc = "pack" /\ offset > 0 /\ Free >= Packed(Length) - offset /\ pc' = "idle" /\ written' = written
  BY DEF Rest, Return
<1>2. Made' = Made \o Payload(Id, offset - CapHeader - IntSize, Packed(Length) - offset)
  BY RestStep
<1>3. Mid
  BY <1>1 DEF Mid
<1>4. used = 0 /\ CapHeader + IntSize <= offset /\ offset < Packed(Length)
  BY <1>3 DEF Packing, Placed
<1>5. PICK id \in Nat, len \in Nat, o \in Nat : Id = id /\ Length = len /\ offset = o
  BY <1>1, TheCaplet, AddedIs DEF Packing
<1>6. PICK f \in Nat, k \in Nat : /\ o - CapHeader - IntSize = f /\ Packed(len) - o = k /\ k >= 1 /\ k <= Room
  <2>1. PICK h \in Nat, t \in Nat, r \in Nat : h = CapHeader /\ t = IntSize /\ r = Room
    BY Numbers
  <2>2. PICK c \in Nat : Packed(len) = c /\ o < c
    <3>1. Packed(len) = h + t + len
      BY <2>1 DEF Packed
    <3> QED BY <1>4, <1>5, <3>1
  <2>3. r >= c - o
    BY <1>1, <1>4, <1>5, <2>1, <2>2 DEF Free
  <2>4. h + t <= o
    BY <1>4, <1>5, <2>1
  <2>5. o - h - t \in Nat /\ c - o \in Nat /\ c - o >= 1 /\ c - o <= r
    BY <2>2, <2>3, <2>4
  <2> QED BY <2>1, <2>2, <2>5
<1>7. PICK n \in Nat, b \in Nat, u \in Nat : u = used /\ EndsIn(Made, n, b, u)
  BY Position
<1>8. EndsIn(Made, n, b, 0)
  BY <1>4, <1>7
<1>9. Made \in Seq(Cells) /\ written \in Seq(Sizes) /\ Len(written) = id
  <2>1. Len(written) = id
    BY <1>5 DEF Id
  <2> QED BY <2>1, AddedIs, Where DEF Packing
<1>10. PICK x, z : x = Payload(id, f, k) /\ z = Made \o x
  OBVIOUS
<1>11. Made' = z
  BY <1>2, <1>5, <1>6, <1>10
<1>12. DullBehind(Made, z, k) /\ Count(z, Len(z)) = Count(Made, Len(Made)) /\ RestOf(Made, z, written, o)
  <2>1. Packed(written[Len(written)]) - o = k
    BY <1>5, <1>6, <1>9 DEF Length, Id
  <2>2. PICK y : Payload(id, f, k) = y /\ Made \o y = z
    BY <1>10
  <2>3. RestAdded(Made, z, k, written, o)
    BY <1>6, <1>9, <2>1, <2>2, RestBehind
  <2> QED BY <2>3 DEF RestAdded
<1>13. Owed = 0 /\ Owed' = 0
  BY <1>1 DEF Owed
<1>14. Laid(Made, written, o) /\ Count(Made, Len(Made)) + 0 = id
  BY <1>5, <1>9, <1>13 DEF Drawn
<1>15. n > 0
  <2> SUFFICES ASSUME n = 0 PROVE FALSE
    OBVIOUS
  <2>1. b = 0
    <3>1. \A p \in Nat : 0 * p = 0
      OBVIOUS
    <3>2. b = n * PageSize
      BY <1>8, StartOf
    <3> QED BY <3>1, <3>2, Numbers
  <2>2. Len(Made) = 0
    BY <1>8, <2>1, EndsAt
  <2>3. Count(Made, 0) = 0
    <3>1. StartsOf(Made, 0, 0) = {}
      BY DEF StartsOf
    <3> QED BY <3>1, FS_EmptySet DEF Count
  <2>4. id = 0
    BY <1>14, <2>2, <2>3
  <2>5. Id >= 1
    BY <1>1, TheCaplet DEF Packing
  <2> QED BY <1>5, <2>4, <2>5
<1>16. InSplit(Made)
  <2>1. Full(Made, Mid)
    BY DEF Packing, FullPages
  <2> QED BY <1>3, <2>1 DEF InSplit, Full, Spills
<1>17. Laid(z, written, offset')
  BY <1>6, <1>8, <1>9, <1>12, <1>14, <1>15, <1>16, LaysRest
<1>18. Owed = Owed' + 0 /\ Count(z, Len(z)) = Count(Made, Len(Made)) + 0
  <2>1. Len(Made) \in Nat /\ 0 <= Len(Made)
    BY <1>9, LenProperties
  <2>2. Count(Made, Len(Made)) \in Nat
    BY <2>1, CountGrows
  <2> QED BY <1>12, <1>13, <2>2
<1> QED BY <1>1, <1>11, <1>17, <1>18, DrawnAgain

\* The file is what was packed, with the end of its last page.
LEMMA FinishDrawn ==
  ASSUME Packing, Drawn, FinishWritingCaplets
  PROVE  /\ Laid(file', written', offset') /\ Count(file', Len(file')) = Len(written')
         /\ file' = Made \o PageEnd(LastHeader, Free)
<1>1. pc = "idle" /\ written' = written
  BY DEF FinishWritingCaplets
<1>2. file' = Made \o PageEnd(LastHeader, Free)
  BY FinishStep
<1>3. LastHeader \in Cells /\ LastHeader.kind = "page" /\ "spilled" \notin LastHeader.flags
  <2>1. PICK h \in Cells : h = ph /\ h.flags = {} /\ h.kind = "page"
    BY DEF Packing, Typed, OpenPage, Tells
  <2>2. PICK d \in SUBSET {"spilled", "last"} : d = h.flags \cup {"last"} /\ d = {"last"}
    BY <2>1
  <2>3. PICK q \in Cells : q = [h EXCEPT !.flags = d] /\ q.flags = d /\ q.kind = h.kind
    BY WithFlags
  <2>4. LastHeader = [h EXCEPT !.flags = d]
    BY <2>1, <2>2 DEF LastHeader
  <2> QED BY <2>1, <2>2, <2>3, <2>4
<1>4. ~Mid
  BY <1>1 DEF Mid
<1>5. PICK z : z = Made \o PageEnd(LastHeader, Free)
  OBVIOUS
<1>6. Laid(z, written, offset') /\ Count(z, Len(z)) = Count(Made, Len(Made))
  BY <1>3, <1>4, <1>5, EndDrawn DEF Drawn
<1>7. file' = z
  BY <1>2, <1>5
<1>8. Count(Made, Len(Made)) = Len(written)
  <2>1. Len(Made) \in Nat /\ 0 <= Len(Made)
    BY Where, LenProperties DEF Packing
  <2>2. Count(Made, Len(Made)) \in Nat
    BY <2>1, CountGrows
  <2>3. Owed = 0
    BY <1>1 DEF Owed
  <2>4. Count(Made, Len(Made)) + 0 = Len(written)
    BY <2>3 DEF Drawn
  <2> QED BY <2>2, <2>4
<1>9. Count(z, Len(z)) = Len(written')
  BY <1>1, <1>6, <1>8
<1>10. Laid(file', written', offset')
  BY <1>1, <1>6, <1>7
<1> QED BY <1>2, <1>7, <1>9, <1>10

-----------------------------------------------------------------------------
(* Reading it back.                                                        *)

\* A file that was written: the caplets of w are in it.
Holding(z, w, o) == z \in Seq(Cells) /\ w \in Seq(Sizes) /\ Complete(z) /\ Laid(z, w, o)

\* The page from a on is in z, and has header h.
Has(z, j, a, h) == At(j, a) /\ a + PageSize <= Len(z) /\ h = HeaderAt(z, a)

\* What the header says, and that there are pages after it or it is the last one.
PageSays(z, j, a, h) ==
  /\ Tells(h, StartsOf(z, a, a + PageSize), MessageOf(j))
  /\ a + PageSize < Len(z) =>
       h.n > 0 /\ "last" \notin h.flags /\ a + PageSize + PageSize <= Len(z)
  /\ a + PageSize = Len(z) => h.flags = {"last"}

\* A page of a file that was written.
LEMMA FilePage ==
  ASSUME NEW z, NEW w, NEW o, Holding(z, w, o), NEW j, NEW a, NEW h, Has(z, j, a, h)
  PROVE  PageSays(z, j, a, h) /\ PageLaid(z, a, w, o)
<1>1. PICK c \in Nat : Len(z) = c * PageSize /\ \A i \in 1 .. c : Final(z, c, i)
  BY DEF Holding, Complete
<1>2. At(j, a) /\ a + PageSize <= Len(z) /\ h = HeaderAt(z, a)
  BY DEF Has
<1>11. j \in Nat /\ j >= 1 /\ a \in Nat
  BY <1>2 DEF At
<1>12. (j - 1) * PageSize = a
  BY <1>2 DEF At
<1>3. j * PageSize = a + PageSize
  BY <1>2, AtNext
<1>4. PICK p \in Nat : p = PageSize /\ p >= 1
  BY Numbers
<1>5. j <= c
  <2> SUFFICES ASSUME c < j PROVE FALSE
    BY <1>11
  <2>1. c * PageSize + PageSize <= j * PageSize
    BY <1>11, MoreIsLonger, Numbers
  <2>2. c * PageSize \in Nat
    BY <1>1, LenProperties DEF Holding
  <2>3. j * PageSize <= c * PageSize
    BY <1>1, <1>2, <1>3
  <2>4. PICK x \in Nat, y \in Nat : x = c * PageSize /\ y = j * PageSize
    BY <1>3, <1>11, <2>2, Numbers
  <2> QED BY <1>4, <2>1, <2>3, <2>4
<1>6. Page(z, c, j, FALSE) /\ (j = c => h.flags = {"last"})
  <2>1. j \in 1 .. c
    BY <1>5, <1>11
  <2>2. Page(z, c, j, FALSE)
    BY <1>1, <2>1 DEF Final
  <2>3. j = c => HeaderAt(z, (j - 1) * PageSize).flags = {"last"}
    BY <1>1, <2>1 DEF Final
  <2>4. HeaderAt(z, (j - 1) * PageSize) = h
    BY <1>2, <1>12
  <2> QED BY <2>2, <2>3, <2>4
<1>7. a + PageSize < Len(z) => h.n > 0 /\ "last" \notin h.flags /\ a + PageSize + PageSize <= Len(z)
  <2> SUFFICES ASSUME a + PageSize < Len(z)
               PROVE  h.n > 0 /\ "last" \notin h.flags /\ a + PageSize + PageSize <= Len(z)
    OBVIOUS
  <2>1. j # c
    <3> SUFFICES ASSUME j = c PROVE FALSE
      OBVIOUS
    <3>1. a + PageSize = Len(z)
      BY <1>1, <1>3
    <3>2. PICK x \in Nat : x = a + p
      BY <1>4, <1>11
    <3> QED BY <1>4, <3>1, <3>2
  <2>2. j < c
    BY <1>5, <1>11, <2>1
  <2>3. j * PageSize + PageSize <= c * PageSize
    BY <1>11, <2>2, MoreIsLonger, Numbers
  <2>4. a + PageSize + PageSize <= Len(z)
    BY <1>1, <1>3, <2>3
  <2>5. h.n > 0 /\ "last" \notin h.flags
    BY <1>2, <1>6, <1>12, <2>2 DEF Page
  <2> QED BY <2>4, <2>5
<1>8. a + PageSize = Len(z) => h.flags = {"last"}
  <2> SUFFICES ASSUME a + PageSize = Len(z) PROVE j = c
    BY <1>6
  <2>1. ~(j < c)
    <3> SUFFICES ASSUME j < c PROVE FALSE
      OBVIOUS
    <3>1. j * PageSize + PageSize <= c * PageSize
      BY <1>11, MoreIsLonger, Numbers
    <3>2. PICK x \in Nat : x = a + PageSize
      BY <1>4, <1>11
    <3>3. x + PageSize <= x
      BY <1>1, <1>3, <3>1, <3>2
    <3> QED BY <1>4, <3>2, <3>3
  <2> QED BY <1>5, <1>11, <2>1
<1>9. Tells(h, StartsOf(z, a, a + PageSize), MessageOf(j))
  BY <1>2, <1>6, <1>12 DEF Page
<1>10. PageLaid(z, a, w, o)
  <2>1. j \in Nat \ {0}
    BY <1>11
  <2> QED BY <1>12, <2>1 DEF Holding, Laid
<1> QED BY <1>7, <1>8, <1>9, <1>10 DEF PageSays

\* Where a page starts there is a whole one.
LEMMA PageThere ==
  ASSUME NEW z, NEW w, NEW o, Holding(z, w, o), NEW j, NEW a, At(j, a), a < Len(z)
  PROVE  Has(z, j, a, HeaderAt(z, a))
<1>1. PICK c \in Nat : Len(z) = c * PageSize
  BY DEF Holding, Complete
<1>2. PICK i \in Nat : i * PageSize = a /\ a \in Nat
  <2>1. j - 1 \in Nat
    BY DEF At
  <2> QED BY <2>1 DEF At
<1>4. i < c
  <2> SUFFICES ASSUME ~(i < c) PROVE FALSE
    OBVIOUS
  <2>1. c * PageSize <= i * PageSize
    <3>1. CASE c = i
      <4>1. c * PageSize \in Nat
        BY <1>1, LenProperties DEF Holding
      <4> QED BY <3>1, <4>1
    <3>2. CASE c < i
      <4>1. c * PageSize + PageSize <= i * PageSize
        BY <3>2, MoreIsLonger, Numbers
      <4>2. PICK x \in Nat, y \in Nat, p \in Nat : x = c * PageSize /\ y = i * PageSize /\ p = PageSize
        BY <1>1, <1>2, LenProperties, Numbers DEF Holding
      <4>3. x + p <= y
        BY <4>1, <4>2
      <4>4. x <= y
        BY <4>3
      <4> QED BY <4>2, <4>4
    <3> QED BY <2>1, <3>1, <3>2
  <2>2. PICK x \in Nat : x = c * PageSize /\ x = Len(z)
    BY <1>1, LenProperties DEF Holding
  <2>3. x <= a /\ a < x
    BY <1>2, <2>1, <2>2
  <2> QED BY <1>2, <2>3
<1>5. i * PageSize + PageSize <= c * PageSize
  BY <1>4, MoreIsLonger, Numbers
<1> QED BY <1>1, <1>2, <1>5 DEF Has

\* A page's caplets are counted between its start and its end.
LEMMA CountPage ==
  ASSUME NEW z, NEW j, NEW a, NEW h, Has(z, j, a, h), PageSays(z, j, a, h)
  PROVE  Count(z, a + PageSize) = Count(z, a) + h.n /\ h.n \in Nat /\ Count(z, a) \in Nat
<1>1. a \in Nat /\ a + PageSize \in Nat /\ a <= a + PageSize
  <2>1. PICK p \in Nat : p = PageSize
    BY Numbers
  <2> QED BY <2>1 DEF Has, At
<1>2. h.n = Cardinality(StartsOf(z, a, a + PageSize))
  BY DEF PageSays, Tells
<1> QED BY <1>1, <1>2, CountGrows

\* What is left of a page with header h, read up to cell e.
Left(z, a, h, e, l) ==
  /\ h.n > 0 => /\ l >= 0
                /\ Count(z, a + PageSize) = Count(z, e) + l + (IF "spilled" \in h.flags THEN 1 ELSE 0)
  /\ h.n = 0 => l <= 0

\* The reader is behind cell e, in the page from a on: it has g caplets, and l more
\* of the page to take.
Reads(z, j, a, h, e, g, l) ==
  /\ Has(z, j, a, h) /\ e \in Nat /\ a <= e /\ e <= a + Room /\ g \in Nat /\ l \in Int
  /\ Count(z, e) = g /\ Tight(z, e, a) /\ Left(z, a, h, e, l)

\* Behind cell e is caplet id, of length len, with part of its payload.
Comes(z, e, id, len, part) ==
  /\ z[e + 1].kind = "caplet" /\ z[e + 1].id = id /\ z[e + 1].n = len /\ PartAt(z, e + 1) = part
  /\ e + Packed(part) <= Len(z)
  /\ \A m \in 1 .. part : z[e + CapHeader + IntSize + m] = Cell("payload", id, m)

\* Caplet id was written, with that length.
Of(w, id, len) == id \in 1 .. Len(w) /\ len = w[id]

\* That caplet has c cells in the page from a on: it ends there, or goes on behind the page.
Covers(z, a, e, c, id, len, part, w, o) ==
  /\ e + c <= a + Room /\ e + c <= Len(z) /\ part <= len
  /\ \A m \in e + 2 .. e + c : z[m].kind # "caplet"
  /\ part = len => Tight(z, e + c, a)
  /\ part < len => e + c = a + Room /\ GoesOn(z, a, id, len, part, w, o)

\* What is behind the cell where a caplet starts.
LEMMA PageHolds ==
  ASSUME NEW z, NEW w, NEW o, NEW a, w \in Seq(Sizes), PageLaid(z, a, w, o), NEW e \in Nat, StartsAt(z, e + 1, a)
  PROVE  \E id \in Nat, len \in Nat, part \in Nat, c \in Nat :
           /\ Comes(z, e, id, len, part) /\ Packed(part) = c /\ c >= 1 /\ Count(z, e + 1) = id
           /\ Of(w, id, len) /\ Covers(z, a, e, c, id, len, part, w, o)
<1>1. e + 1 \in Nat
  OBVIOUS
<1>2. Stands(z, e + 1, a, w, o)
  BY <1>1 DEF PageLaid
<1>3. PICK id, len, part : /\ z[e + 1].id = id /\ z[e + 1].n = len /\ PartAt(z, e + 1) = part
                           /\ Holds(z, e + 1, a, id, len, part, w, o)
  BY <1>2 DEF Stands
<1>4. id \in 1 .. Len(w) /\ len = w[id] /\ part \in 0 .. len /\ Count(z, e + 1) = id
  BY <1>3 DEF Holds
<1>5. id \in Nat /\ len \in Nat /\ part \in Nat /\ part <= len
  <2>1. Len(w) \in Nat
    BY LenProperties
  <2>2. id \in Nat /\ w[id] \in Sizes
    BY <1>4, <2>1, ElementOfSeq
  <2>3. len \in Nat
    BY <1>4, <2>2, Numbers
  <2> QED BY <1>4, <2>2, <2>3
<1>6. PICK c \in Nat, h \in Nat, t \in Nat : Packed(part) = c /\ c >= 1 /\ CapHeader = h /\ IntSize = t
  <2>1. PICK h \in Nat, t \in Nat : CapHeader = h /\ IntSize = t /\ h >= 1
    BY Numbers
  <2>2. Packed(part) = h + t + part /\ h + t + part \in Nat /\ h + t + part >= 1
    BY <1>5, <2>1 DEF Packed
  <2> QED BY <2>1, <2>2
<1>7. e + 1 - 1 + Packed(part) = e + c /\ e + 1 + 1 = e + 2 /\ e + 1 - 1 = e
  BY <1>6
<1>8. e + c <= a + Room /\ e + c <= Len(z) /\ \A m \in e + 2 .. e + c : z[m].kind # "caplet"
  BY <1>3, <1>7 DEF Holds
<1>9. part = len => Tight(z, e + c, a)
  BY <1>3, <1>7 DEF Holds
<1>10. part < len => e + c = a + Room /\ GoesOn(z, a, id, len, part, w, o)
  BY <1>3, <1>7 DEF Holds
<1>11. \A m \in 1 .. part : z[e + CapHeader + IntSize + m] = Cell("payload", id, m)
  BY <1>3, <1>7 DEF Holds
<1>12. z[e + 1].kind = "caplet"
  BY DEF StartsAt
<1>13. Comes(z, e, id, len, part)
  BY <1>3, <1>6, <1>8, <1>11, <1>12 DEF Comes
<1>14. Of(w, id, len)
  BY <1>4 DEF Of
<1>15. Covers(z, a, e, c, id, len, part, w, o)
  BY <1>5, <1>8, <1>9, <1>10 DEF Covers
<1> QED BY <1>4, <1>5, <1>6, <1>13, <1>14, <1>15

\* There is a page from a on, and a place in it.
LEMMA Inside ==
  ASSUME NEW z, NEW j, NEW a, NEW h, NEW e, NEW g, NEW l, Reads(z, j, a, h, e, g, l)
  PROVE  /\ a \in Nat /\ a + PageSize \in Nat /\ e \in Nat /\ g \in Nat /\ l \in Int
         /\ a <= e /\ e < a + PageSize /\ e <= a + Room /\ e + 1 <= a + PageSize /\ a + PageSize <= Len(z)
<1>1. PICK r \in Nat, p \in Nat : r = Room /\ p = PageSize /\ r < p
  BY Numbers
<1>2. a \in Nat /\ e \in Nat /\ a <= e /\ e <= a + r /\ a + p <= Len(z) /\ g \in Nat /\ l \in Int
  BY <1>1 DEF Reads, Has, At
<1>3. e < a + p /\ e + 1 <= a + p /\ a + p \in Nat
  BY <1>1, <1>2
<1> QED BY <1>1, <1>2, <1>3

\* Where a caplet is left one comes next.
LEMMA NextStarts ==
  ASSUME NEW z, z \in Seq(Cells), NEW j, NEW a, NEW h, NEW e, NEW g, NEW l, Reads(z, j, a, h, e, g, l),
         Count(z, e) # Count(z, a + PageSize)
  PROVE  StartsAt(z, e + 1, a) /\ Count(z, e + 1) = g + 1
<1>1. /\ a \in Nat /\ a + PageSize \in Nat /\ e \in Nat /\ a <= e /\ e < a + PageSize
      /\ e + 1 <= a + PageSize /\ a + PageSize <= Len(z)
  BY Inside
<1>2. PICK q \in Nat, n \in Nat : q = a + PageSize /\ n = Len(z) /\ e < q /\ q <= n
  BY <1>1, LenProperties
<1>3. Tight(z, e, a) /\ Count(z, e) = g
  BY DEF Reads
<1>4. z[e + 1].kind = "caplet"
  <2>1. e # Len(z)
    BY <1>1, <1>2
  <2>2. ASSUME \A m \in e + 1 .. a + PageSize : z[m].kind # "caplet" PROVE FALSE
    <3>1. Count(z, a + PageSize) = Count(z, e)
      BY <1>1, <1>2, <2>2, CountDull
    <3> QED BY <3>1
  <2> QED BY <1>3, <2>1, <2>2 DEF Tight
<1>5. e + 1 \in a + 1 .. a + PageSize /\ e + 1 <= Len(z)
  BY <1>1, <1>2
<1>6. Count(z, e + 1) = Count(z, e) + 1
  <2>1. e + 1 \in Nat /\ e < e + 1 /\ \A m \in e + 2 .. e + 1 : z[m].kind # "caplet"
    BY <1>1
  <2> QED BY <1>1, <1>4, <2>1, CountOne
<1> QED BY <1>3, <1>4, <1>5, <1>6 DEF StartsAt

\* A whole caplet is taken.
LEMMA TakeWhole ==
  ASSUME NEW z, NEW w, NEW o, Holding(z, w, o), NEW j, NEW a, NEW h, NEW e, NEW g, NEW l,
         Reads(z, j, a, h, e, g, l), l > 0
  PROVE  \E id \in Nat, len \in Nat, c \in Nat :
           /\ Comes(z, e, id, len, len) /\ Packed(len) = c /\ g + 1 = id /\ Of(w, id, len)
           /\ Reads(z, j, a, h, e + c, g + 1, l - 1)
<1>1. /\ a \in Nat /\ a + PageSize \in Nat /\ e \in Nat /\ g \in Nat /\ l \in Int
      /\ a <= e /\ e < a + PageSize
  BY Inside
<1>2. z \in Seq(Cells) /\ w \in Seq(Sizes)
  BY DEF Holding
<1>3. Has(z, j, a, h) /\ Count(z, e) = g /\ Left(z, a, h, e, l)
  BY DEF Reads
<1>4. PageLaid(z, a, w, o) /\ PageSays(z, j, a, h)
  BY <1>3, FilePage
<1>5. h.n \in Nat
  BY <1>3, <1>4, CountPage
<1>6. PICK x \in {0, 1} : /\ x = (IF "spilled" \in h.flags THEN 1 ELSE 0)
                          /\ Count(z, a + PageSize) = Count(z, e) + l + x
  <2>1. h.n # 0
    BY <1>1, <1>3 DEF Left
  <2>2. h.n > 0
    BY <1>5, <2>1
  <2> QED BY <1>3, <2>2 DEF Left
<1>7. Count(z, a + PageSize) = g + l + x /\ Count(z, e) # Count(z, a + PageSize)
  <2>1. Count(z, a + PageSize) = g + l + x
    BY <1>3, <1>6
  <2>2. g # g + l + x
    BY <1>1, <1>6
  <2> QED BY <1>3, <2>1, <2>2
<1>8. StartsAt(z, e + 1, a) /\ Count(z, e + 1) = g + 1
  BY <1>2, <1>7, NextStarts
<1>9. PICK id \in Nat, len \in Nat, part \in Nat, c \in Nat :
        /\ Comes(z, e, id, len, part) /\ Packed(part) = c /\ c >= 1 /\ Count(z, e + 1) = id
        /\ Of(w, id, len) /\ Covers(z, a, e, c, id, len, part, w, o)
  BY <1>1, <1>2, <1>4, <1>8, PageHolds
<1>10. z[e + 1].kind = "caplet" /\ c >= 1
  BY <1>9 DEF Comes
<1>11. /\ e + c <= a + Room /\ part <= len
       /\ \A m \in e + 2 .. e + c : z[m].kind # "caplet"
  BY <1>9 DEF Covers
<1>12. ~(part < len)
  <2> SUFFICES ASSUME part < len PROVE FALSE
    OBVIOUS
  <2>1. e + c = a + Room /\ GoesOn(z, a, id, len, part, w, o)
    BY <1>9 DEF Covers
  <2>2. "spilled" \in h.flags /\ \A m \in a + Room + 1 .. a + PageSize : z[m].kind # "caplet"
    BY <1>3, <2>1 DEF GoesOn, Has
  <2>3. ASSUME NEW m \in e + 2 .. a + PageSize PROVE z[m].kind # "caplet"
    <3>1. PICK r \in Nat, q \in Nat : r = a + Room /\ q = a + PageSize /\ e + c = r
      BY <1>1, <2>1, Numbers
    <3>2. m \in e + 2 .. e + c \/ m \in r + 1 .. q
      BY <1>1, <2>3, <3>1
    <3> QED BY <1>11, <2>2, <3>1, <3>2
  <2>4. Count(z, a + PageSize) = Count(z, e) + 1
    BY <1>1, <1>10, <2>3, CountOne
  <2>5. g + l + x = g + 1 /\ x = 1
    BY <1>3, <1>6, <1>7, <2>2, <2>4
  <2> QED BY <1>1, <2>5
<1>13. part = len
  BY <1>11, <1>12
<1>14. e + c \in Nat /\ a <= e + c /\ e + c <= a + Room /\ e < e + c
  BY <1>1, <1>10, <1>11
<1>15. Count(z, e + c) = g + 1
  <2>1. Count(z, e + c) = Count(z, e) + 1
    BY <1>1, <1>10, <1>11, <1>14, CountOne
  <2> QED BY <1>3, <2>1
<1>16. Tight(z, e + c, a)
  BY <1>9, <1>13 DEF Covers
<1>17. Left(z, a, h, e + c, l - 1)
  <2>1. l - 1 >= 0 /\ g + l + x = (g + 1) + (l - 1) + x
    BY <1>1, <1>6
  <2>2. Count(z, a + PageSize) = Count(z, e + c) + (l - 1) + x
    BY <1>7, <1>15, <2>1
  <2>3. h.n # 0
    BY <1>1, <1>3 DEF Left
  <2> QED BY <1>6, <2>1, <2>2, <2>3 DEF Left
<1>18. Reads(z, j, a, h, e + c, g + 1, l - 1)
  <2>1. g + 1 \in Nat /\ l - 1 \in Int
    BY <1>1
  <2> QED BY <1>3, <1>14, <1>15, <1>16, <1>17, <2>1 DEF Reads
<1> QED BY <1>8, <1>9, <1>13, <1>18

\* None is left but the one that is split.
LEMMA TakeSplit ==
  ASSUME NEW z, NEW w, NEW o, Holding(z, w, o), NEW j, NEW a, NEW h, NEW e, NEW g, NEW l,
         Reads(z, j, a, h, e, g, l), l <= 0, h.n > 0, "spilled" \in h.flags
  PROVE  \E id \in Nat, len \in Nat, part \in Nat, c \in Nat :
           /\ Comes(z, e, id, len, part) /\ Packed(part) = c /\ g + 1 = id /\ Of(w, id, len) /\ part < len
           /\ Covers(z, a, e, c, id, len, part, w, o) /\ Count(z, a + PageSize) = id
<1>1. /\ a \in Nat /\ a + PageSize \in Nat /\ e \in Nat /\ g \in Nat /\ l \in Int
      /\ a <= e /\ e + 1 <= a + PageSize /\ a + PageSize <= Len(z)
  BY Inside
<1>2. z \in Seq(Cells) /\ w \in Seq(Sizes)
  BY DEF Holding
<1>3. Has(z, j, a, h) /\ Count(z, e) = g /\ Left(z, a, h, e, l)
  BY DEF Reads
<1>4. PageLaid(z, a, w, o)
  BY <1>3, FilePage
<1>5. Count(z, a + PageSize) = g + 1
  <2>1. l >= 0 /\ Count(z, a + PageSize) = g + l + 1
    BY <1>3 DEF Left
  <2>2. l = 0
    BY <1>1, <2>1
  <2>3. g + 0 + 1 = g + 1
    BY <1>1
  <2> QED BY <2>1, <2>2, <2>3
<1>6. StartsAt(z, e + 1, a) /\ Count(z, e + 1) = g + 1
  <2>1. g # g + 1
    BY <1>1
  <2>2. Count(z, e) # Count(z, a + PageSize)
    BY <1>3, <1>5, <2>1
  <2> QED BY <1>2, <2>2, NextStarts
<1>7. PICK id \in Nat, len \in Nat, part \in Nat, c \in Nat :
        /\ Comes(z, e, id, len, part) /\ Packed(part) = c /\ c >= 1 /\ Count(z, e + 1) = id
        /\ Of(w, id, len) /\ Covers(z, a, e, c, id, len, part, w, o)
  BY <1>1, <1>2, <1>4, <1>6, PageHolds
<1>8. part < len
  <2> SUFFICES ASSUME ~(part < len) PROVE FALSE
    OBVIOUS
  <2>1. part <= len
    BY <1>7 DEF Covers
  <2>2. part = len /\ PartAt(z, e + 1) = part /\ z[e + 1].n = len /\ z[e + 1].kind = "caplet"
    BY <1>7, <2>1 DEF Comes
  <2>3. PICK i \in Nat : StartsAt(z, i, a) /\ PartAt(z, i) < z[i].n
    <3>1. SplitIn(z, a) /\ "spilled" \in HeaderAt(z, a).flags
      BY <1>3, <1>4 DEF PageLaid, Has
    <3> QED BY <1>1, <3>1 DEF SplitIn
  <2>4. i \in a + 1 .. a + PageSize /\ z[i].kind = "caplet"
    BY <2>3 DEF StartsAt
  <2>5. i # e + 1
    <3>1. ~(len < len)
      OBVIOUS
    <3> QED BY <2>2, <2>3, <3>1
  <2>6. CASE i > e + 1
    <3>1. e + 1 \in Nat /\ e + 1 + 1 = e + 2 /\ i \in e + 2 .. a + PageSize
      BY <1>1, <2>4, <2>6
    <3>2. \A m \in e + 1 + 1 .. a + PageSize : z[m].kind # "caplet"
      BY <1>1, <1>5, <1>6, <3>1, CountSame
    <3> QED BY <2>4, <3>1, <3>2
  <2>7. CASE i < e + 1
    <3>1. PICK d \in Nat : i = d + 1 /\ d < e
      <4>1. i - 1 \in Nat /\ i = (i - 1) + 1 /\ i - 1 < e
        BY <1>1, <2>4, <2>7
      <4> QED BY <4>1
    <3>2. StartsAt(z, d + 1, a)
      BY <2>3, <3>1
    <3>3. PICK id2 \in Nat, len2 \in Nat, part2 \in Nat, c2 \in Nat :
            /\ Comes(z, d, id2, len2, part2) /\ Packed(part2) = c2 /\ c2 >= 1 /\ Count(z, d + 1) = id2
            /\ Of(w, id2, len2) /\ Covers(z, a, d, c2, id2, len2, part2, w, o)
      BY <1>2, <1>4, <3>2, PageHolds
    <3>4. part2 < len2
      <4>1. z[d + 1].n = len2 /\ PartAt(z, d + 1) = part2
        BY <3>3 DEF Comes
      <4>2. PartAt(z, d + 1) < z[d + 1].n
        BY <2>3, <3>1
      <4> QED BY <4>1, <4>2
    <3>5. d + c2 = a + Room /\ \A m \in d + 2 .. d + c2 : z[m].kind # "caplet"
      BY <3>3, <3>4 DEF Covers
    <3>6. \A m \in a + Room + 1 .. a + PageSize : z[m].kind # "caplet"
      <4>1. GoesOn(z, a, id2, len2, part2, w, o)
        BY <3>3, <3>4 DEF Covers
      <4> QED BY <4>1 DEF GoesOn
    <3>7. PICK r \in Nat, q \in Nat : r = a + Room /\ q = a + PageSize /\ d + c2 = r /\ e + 1 <= q
      BY <1>1, <3>5, Numbers
    <3>8. e + 1 \in d + 2 .. d + c2 \/ e + 1 \in r + 1 .. q
      BY <1>1, <3>1, <3>7
    <3> QED BY <2>2, <3>5, <3>6, <3>7, <3>8
  <2> QED BY <1>1, <2>4, <2>5, <2>6, <2>7
<1> QED BY <1>5, <1>6, <1>7, <1>8

\* The header of a page.
LEMMA HeaderIs ==
  ASSUME NEW z, z \in Seq(Cells), NEW j, NEW a, NEW h, Has(z, j, a, h)
  PROVE  h \in Cells /\ h.id \in Int /\ h.n \in Nat
<1>1. PICK r \in Nat, p \in Nat : r = Room /\ p = PageSize /\ r < p
  BY Numbers
<1>2. a \in Nat /\ a + p <= Len(z) /\ Len(z) \in Nat
  BY <1>1, LenProperties DEF Has, At
<1>3. a + r + 1 \in 1 .. Len(z)
  BY <1>1, <1>2
<1>4. z[a + r + 1] \in Cells
  BY <1>3, ElementOfSeq
<1>5. h = z[a + r + 1]
  BY <1>1 DEF Has, HeaderAt
<1> QED BY <1>4, <1>5 DEF Cells

\* A page that is not the last one.
LEMMA NotLast ==
  ASSUME NEW z, NEW j, NEW a, NEW h, z \in Seq(Cells), Has(z, j, a, h), PageSays(z, j, a, h), ~Flagged(h, "last")
  PROVE  a + PageSize < Len(z) /\ h.n > 0 /\ h.id >= 0 /\ (Flagged(h, "spilled") <=> "spilled" \in h.flags)
<1>1. "last" \notin h.flags /\ ~(h.id < 0)
  BY DEF Flagged
<1>2. h.id >= 0
  BY <1>1, HeaderIs
<1>3. a + PageSize <= Len(z) /\ a + PageSize # Len(z)
  BY <1>1 DEF Has, PageSays
<1>4. a + PageSize < Len(z)
  <2>1. a + PageSize \in Nat /\ Len(z) \in Nat
    BY Numbers, LenProperties DEF Has, At
  <2> QED BY <1>3, <2>1
<1>5. h.n > 0
  BY <1>4 DEF PageSays
<1> QED BY <1>1, <1>2, <1>4, <1>5 DEF Flagged

\* A page that is the last one.
LEMMA TheLast ==
  ASSUME NEW z, NEW j, NEW a, NEW h, z \in Seq(Cells), Has(z, j, a, h), PageSays(z, j, a, h), Flagged(h, "last")
  PROVE  a + PageSize = Len(z) /\ h.flags = {"last"}
<1>1. ~(a + PageSize < Len(z))
  <2> SUFFICES ASSUME a + PageSize < Len(z) PROVE FALSE
    OBVIOUS
  <2>1. h.n > 0 /\ "last" \notin h.flags
    BY DEF PageSays
  <2>2. h.id >= 0
    BY <2>1 DEF PageSays, Tells
  <2>3. ~(h.id < 0)
    BY <2>2, HeaderIs
  <2> QED BY <2>1, <2>3 DEF Flagged
<1>2. a + PageSize = Len(z)
  <2>1. a + PageSize \in Nat /\ Len(z) \in Nat /\ a + PageSize <= Len(z)
    BY Numbers, LenProperties DEF Has, At
  <2> QED BY <1>1, <2>1
<1> QED BY <1>2 DEF PageSays

\* What a page has, before any of it is read.
LEMMA PageOpens ==
  ASSUME NEW z, NEW j, NEW a, NEW h, NEW e, z \in Seq(Cells), Has(z, j, a, h), PageSays(z, j, a, h),
         SplitIn(z, a), Count(z, e) = Count(z, a)
  PROVE  Left(z, a, h, e, Starts(h)) /\ Starts(h) \in Int
<1>1. h.n \in Nat /\ h.id \in Int
  BY HeaderIs
<1>2. PICK c \in Nat, n \in Nat : /\ c = Count(z, a) /\ h.n = n /\ Count(z, a + PageSize) = c + n
  BY CountPage
<1>3. PICK x \in {0, 1} : x = (IF Flagged(h, "spilled") THEN 1 ELSE 0)
  OBVIOUS
<1>4. Starts(h) = n - x
  BY <1>2, <1>3 DEF Starts
<1>5. CASE n = 0
  <2>1. n - x <= 0 /\ ~(h.n > 0) /\ n - x \in Int
    BY <1>2, <1>5
  <2> QED BY <1>4, <2>1 DEF Left
<1>6. CASE n > 0
  <2>1. h.n > 0 /\ h.n # 0
    BY <1>2, <1>6
  <2>2. ~(h.id < 0)
    <3>1. h.id >= 0
      BY <2>1 DEF PageSays, Tells
    <3> QED BY <1>1, <3>1
  <2>3. x = (IF "spilled" \in h.flags THEN 1 ELSE 0)
    BY <1>3, <2>2 DEF Flagged
  <2>4. n - x >= 0 /\ c + n = c + (n - x) + x /\ n - x \in Int
    BY <1>6
  <2>5. Count(z, a + PageSize) = Count(z, e) + (n - x) + x
    BY <1>2, <2>4
  <2> QED BY <1>4, <2>1, <2>3, <2>4, <2>5 DEF Left
<1> QED BY <1>5, <1>6

\* The reader at the start of a page that begins with a caplet or has none.
LEMMA BeginsPage ==
  ASSUME NEW z, NEW w, NEW o, Holding(z, w, o), NEW j, NEW a, NEW h, NEW g,
         Has(z, j, a, h), g \in Nat, Count(z, a) = g, Tight(z, a, a)
  PROVE  Reads(z, j, a, h, a, g, Starts(h))
<1>1. PageSays(z, j, a, h) /\ PageLaid(z, a, w, o)
  BY FilePage
<1>2. z \in Seq(Cells) /\ SplitIn(z, a)
  BY <1>1 DEF Holding, PageLaid
<1>3. Left(z, a, h, a, Starts(h)) /\ Starts(h) \in Int
  BY <1>1, <1>2, PageOpens
<1>4. a \in Nat /\ a <= a /\ a <= a + Room
  <2>1. PICK r \in Nat : r = Room
    BY Numbers
  <2> QED BY <2>1 DEF Has, At
<1> QED BY <1>3, <1>4 DEF Reads

\* What is laid in a page.
LEMMA PageOfAt ==
  ASSUME NEW z, NEW w, NEW o, Holding(z, w, o), NEW i, NEW b, At(i, b)
  PROVE  PageLaid(z, b, w, o)
BY DEF Holding, Laid, At

\* A page that is over, and no caplet is split.
LEMMA PageOver ==
  ASSUME NEW z, NEW w, NEW o, Holding(z, w, o), NEW j, NEW a, NEW h, NEW e, NEW g, NEW l,
         Reads(z, j, a, h, e, g, l), l <= 0, h.n > 0, "spilled" \notin h.flags
  PROVE  Count(z, a + PageSize) = g /\ Tight(z, a + PageSize, a + PageSize)
<1>1. /\ a \in Nat /\ a + PageSize \in Nat /\ g \in Nat /\ l \in Int /\ a + PageSize <= Len(z)
  BY Inside
<1>2. Has(z, j, a, h) /\ Count(z, e) = g /\ Left(z, a, h, e, l)
  BY DEF Reads
<1>3. Count(z, a + PageSize) = g
  <2>1. l >= 0 /\ Count(z, a + PageSize) = g + l + 0
    BY <1>2 DEF Left
  <2>2. l = 0
    BY <1>1, <2>1
  <2>3. g + 0 + 0 = g
    BY <1>1
  <2> QED BY <2>1, <2>2, <2>3
<1>4. At(j, a) /\ h = HeaderAt(z, a)
  BY <1>2 DEF Has
<1>5. PICK i, b : a + PageSize = b /\ At(i, b) /\ b - PageSize = a
  <2>1. At(j + 1, a + PageSize)
    BY <1>4, AtNext
  <2>3. PICK b : a + PageSize = b
    OBVIOUS
  <2>4. At(j + 1, b)
    BY <2>1, <2>3
  <2>5. b - PageSize = a
    <3>1. PICK p \in Nat : PageSize = p
      BY Numbers
    <3>2. a + p = b
      BY <2>3, <3>1
    <3>3. b - p = a
      BY <1>1, <3>2
    <3> QED BY <3>1, <3>3
  <2> QED BY <2>3, <2>4, <2>5
<1>6. PageLaid(z, b, w, o)
  <2>1. At(i, b)
    BY <1>5
  <2> QED BY <2>1, PageOfAt
<1>7. Begins(z, b)
  BY <1>6 DEF PageLaid
<1>8. b <= Len(z) /\ "spilled" \notin HeaderAt(z, b - PageSize).flags
  BY <1>1, <1>4, <1>5
<1>9. Tight(z, b, b)
  BY <1>7, <1>8 DEF Begins
<1> QED BY <1>3, <1>5, <1>9

\* The rest of a caplet is the first of the next page.
RestIs(z, b, d, id, part) == /\ b + d <= Len(z)
                             /\ \A m \in 1 .. d : z[b + m] = Cell("payload", id, part + m)

\* The reader takes it.
LEMMA RestComes ==
  ASSUME NEW z, NEW w, NEW o, Holding(z, w, o), NEW j, NEW a, At(j, a), a + PageSize < Len(z),
         NEW e, NEW c, NEW id, NEW len, NEW part, id \in Nat, len \in Nat, part \in Nat, part < len,
         Covers(z, a, e, c, id, len, part, w, o), Count(z, a + PageSize) = id,
         NEW b, a + PageSize = b, NEW h, h = HeaderAt(z, b), NEW d, len - part = d
  PROVE  /\ RestIs(z, b, d, id, part) /\ d \in Nat
         /\ Reads(z, j + 1, b, h, b + d, id, Starts(h))
<1>1. b \in Nat /\ At(j + 1, b) /\ b < Len(z)
  BY AtNext
<1>2. Has(z, j + 1, b, h)
  BY <1>1, PageThere
<1>3. PageSays(z, j + 1, b, h) /\ PageLaid(z, b, w, o)
  BY <1>2, FilePage
<1>4. z \in Seq(Cells) /\ SplitIn(z, b)
  BY <1>3 DEF Holding, PageLaid
<1>5. d \in Nat /\ d >= 1
  OBVIOUS
<1>6. GoesOn(z, a, id, len, part, w, o)
  BY DEF Covers
<1>7. /\ d <= Room /\ b + d <= Len(z) /\ \A m \in 1 .. d : z[b + m] = Cell("payload", id, part + m)
      /\ Tight(z, b + d, b)
  <2>1. a + PageSize # Len(z)
    BY <1>1
  <2> QED BY <1>6, <2>1 DEF GoesOn
<1>8. ASSUME NEW m \in b + 1 .. b + d PROVE z[m].kind # "caplet"
  <2>1. m - b \in 1 .. d /\ b + (m - b) = m
    BY <1>1, <1>5
  <2>2. z[m] = Cell("payload", id, part + (m - b))
    BY <1>7, <2>1
  <2> QED BY <2>2 DEF Cell
<1>9. b + d \in Nat /\ b <= b + d
  BY <1>1, <1>5
<1>10. Count(z, b + d) = Count(z, b)
  BY <1>1, <1>8, <1>9, CountDull
<1>11. Left(z, b, h, b + d, Starts(h)) /\ Starts(h) \in Int
  BY <1>2, <1>3, <1>4, <1>10, PageOpens
<1>12. b + d <= b + Room
  <2>1. PICK r \in Nat : r = Room
    BY Numbers
  <2> QED BY <1>1, <1>5, <1>7, <2>1
<1>13. Reads(z, j + 1, b, h, b + d, id, Starts(h))
  BY <1>2, <1>7, <1>9, <1>10, <1>11, <1>12 DEF Reads
<1>14. RestIs(z, b, d, id, part)
  BY <1>7 DEF RestIs
<1> QED BY <1>5, <1>13, <1>14

\* n cells of s behind cell p.
Cut(s, p, n) == SubSeq(s, p + 1, p + n)

\* What was cut is what was there.
LEMMA CutIs ==
  ASSUME NEW s \in Seq(Cells), NEW p \in Nat, NEW n \in Nat, p + n <= Len(s)
  PROVE  /\ Cut(s, p, n) \in Seq(Cells) /\ Len(Cut(s, p, n)) = n
         /\ \A m \in 1 .. n : Cut(s, p, n)[m] = s[p + m]
<1>1. PICK l \in Nat : l = Len(s) /\ p + n <= l
  BY LenProperties
<1>2. ASSUME NEW i \in p + 1 .. p + n PROVE s[i] \in Cells
  <2>1. i \in 1 .. Len(s)
    BY <1>1
  <2> QED BY <2>1, ElementOfSeq
<1>3. p + 1 \in Int /\ p + n \in Int
  OBVIOUS
<1>4. PICK t : t = SubSeq(s, p + 1, p + n)
  OBVIOUS
<1>5. /\ t \in Seq(Cells) /\ Len(t) = (IF p + 1 <= p + n THEN (p + n) - (p + 1) + 1 ELSE 0)
      /\ \A i \in 1 .. (p + n) - (p + 1) + 1 : t[i] = s[(p + 1) + i - 1]
  BY <1>2, <1>3, <1>4, SubSeqProperties
<1>6. (p + n) - (p + 1) + 1 = n /\ (p + 1 <= p + n <=> n # 0)
  OBVIOUS
<1>7. Len(t) = n
  BY <1>5, <1>6
<1>8. ASSUME NEW m \in 1 .. n PROVE t[m] = s[p + m]
  <2>1. (p + 1) + m - 1 = p + m /\ m \in 1 .. (p + n) - (p + 1) + 1
    BY <1>6
  <2> QED BY <1>5, <2>1
<1>9. t = Cut(s, p, n)
  BY <1>4 DEF Cut
<1> QED BY <1>5, <1>7, <1>8, <1>9

\* What is behind cell p is n cells of the payload of id, from f on.
Pays(s, p, n, id, f) == \A m \in 1 .. n : s[p + m] = Cell("payload", id, f + m)

\* Payload that is cut.
LEMMA CutPayload ==
  ASSUME NEW s, NEW p, NEW n,
         s \in Seq(Cells), p \in Nat, n \in Nat,
         p + n <= Len(s), NEW id \in Nat, NEW f \in Nat, Pays(s, p, n, id, f)
  PROVE  Cut(s, p, n) = Payload(id, f, n)
<1>1. PICK t \in Seq(Cells) : t = Cut(s, p, n) /\ Len(t) = n /\ \A m \in 1 .. n : t[m] = s[p + m]
  BY CutIs
<1>2. PICK x : x = Payload(id, f, n) /\ x \in Seq(Cells) /\ Len(x) = n
  <2>1. id \in Int
    OBVIOUS
  <2> QED BY <2>1, PayloadIs DEF Dull
<1>3. ASSUME NEW m \in 1 .. n PROVE x[m] = t[m]
  <2>1. x[m] = Cell("payload", id, f + m)
    BY <1>2 DEF Payload
  <2>2. t[m] = Cell("payload", id, f + m)
    BY <1>1 DEF Pays
  <2> QED BY <2>1, <2>2
<1>4. x = t
  BY <1>1, <1>2, <1>3, SeqEqual
<1> QED BY <1>1, <1>2, <1>4

\* Payload that goes on.
LEMMA PayloadJoins ==
  ASSUME NEW id \in Nat, NEW a \in Nat, NEW b \in Nat
  PROVE  Payload(id, 0, a) \o Payload(id, a, b) = Payload(id, 0, a + b)
<1>0. id \in Int /\ a + b \in Nat /\ 0 \in Nat
  OBVIOUS
<1>1. PICK x : x = Payload(id, 0, a) /\ x \in Seq(Cells) /\ Len(x) = a
  BY <1>0, PayloadIs DEF Dull
<1>2. PICK y : y = Payload(id, a, b) /\ y \in Seq(Cells) /\ Len(y) = b
  <2>1. Dull(Payload(id, a, b), b)
    BY <1>0, PayloadIs
  <2> QED BY <2>1 DEF Dull
<1>3. PICK z : z = Payload(id, 0, a + b) /\ z \in Seq(Cells) /\ Len(z) = a + b
  BY <1>0, PayloadIs DEF Dull
<1>4. PICK t : t = x \o y
  OBVIOUS
<1>5. /\ t \in Seq(Cells) /\ Len(t) = a + b /\ \A i \in 1 .. a : t[i] = x[i]
      /\ \A i \in 1 .. b : t[a + i] = y[i]
  BY <1>1, <1>2, <1>4, Joins
<1>6. ASSUME NEW m \in 1 .. a + b PROVE t[m] = z[m]
  <2>1. z[m] = Cell("payload", id, m)
    <3>1. z[m] = Cell("payload", id, 0 + m) /\ 0 + m = m
      BY <1>3 DEF Payload
    <3> QED BY <3>1
  <2>2. CASE m <= a
    <3>1. m \in 1 .. a /\ 0 + m = m
      BY <2>2
    <3>2. x[m] = Cell("payload", id, 0 + m)
      BY <1>1, <3>1 DEF Payload
    <3> QED BY <1>5, <2>1, <3>1, <3>2
  <2>3. CASE m > a
    <3>1. m - a \in 1 .. b /\ a + (m - a) = m
      BY <2>3
    <3>2. y[m - a] = Cell("payload", id, a + (m - a))
      BY <1>2, <3>1 DEF Payload
    <3>3. t[m] = y[m - a]
      BY <1>5, <3>1
    <3> QED BY <2>1, <3>1, <3>2, <3>3
  <2> QED BY <2>2, <2>3
<1>7. t = z
  BY <1>3, <1>5, <1>6, SeqEqual
<1> QED BY <1>1, <1>2, <1>3, <1>4, <1>7

\* m is longer than s by the len cells of x, and ends with them.
Ends(m, s, x, len) == m \in Seq(Cells) /\ Len(m) = Len(s) + len /\ Cut(m, Len(s), len) = x

\* Payload that memory ends with.
LEMMA Ending ==
  ASSUME NEW s \in Seq(Cells), NEW id \in Nat, NEW len \in Nat, NEW x, Payload(id, 0, len) = x
  PROVE  Ends(s \o x, s, x, len)
<1>0. id \in Int /\ 0 \in Nat
  OBVIOUS
<1>1. x \in Seq(Cells) /\ Len(x) = len
  <2>1. Dull(Payload(id, 0, len), len)
    BY <1>0, PayloadIs
  <2>2. Dull(x, len)
    BY <2>1
  <2> QED BY <2>2 DEF Dull
<1>2. PICK m \in Seq(Cells) : /\ s \o x = m /\ Len(m) = Len(s) + len /\ Len(s) \in Nat
                              /\ \A i \in 1 .. len : m[Len(s) + i] = x[i]
  <2>1. /\ s \o x \in Seq(Cells) /\ Len(s) \in Nat /\ Len(x) \in Nat /\ Len(s \o x) = Len(s) + Len(x)
        /\ \A i \in 1 .. Len(x) : (s \o x)[Len(s) + i] = x[i]
    <3>1. x \in Seq(Cells)
      BY <1>1
    <3> QED BY <3>1, Joins
  <2> QED BY <1>1, <2>1
<1>3. \A i \in 1 .. len : x[i] = Cell("payload", id, 0 + i)
  <2>1. \A i \in 1 .. len : Payload(id, 0, len)[i] = Cell("payload", id, 0 + i)
    BY DEF Payload
  <2> QED BY <2>1
<1>4. PICK l \in Nat : Len(s) = l /\ Len(m) = l + len
  BY <1>2
<1>5. Pays(m, l, len, id, 0)
  BY <1>2, <1>3, <1>4 DEF Pays
<1>6. l + len <= Len(m)
  <2>1. l + len <= l + len
    OBVIOUS
  <2> QED BY <1>4, <2>1
<1>7. Cut(m, l, len) = Payload(id, 0, len)
  BY <1>5, <1>6, CutPayload
<1>8. Cut(m, l, len) = x
  BY <1>7
<1>9. Ends(m, s, x, len)
  BY <1>2, <1>4, <1>8 DEF Ends
<1> QED BY <1>2, <1>9

\* What the client gets.
Entries == [id : Nat, len : Nat, split : BOOLEAN, stored : Seq(Cells), payload : Seq(Cells)]

\* Caplet k, as ReadBack says.
Right(x, w, k) ==
  /\ k <= Len(w) /\ x.id = k /\ x.len = w[k] /\ x.stored = Payload(k, 0, w[k])
  /\ ~x.split => x.payload = x.stored

AllRight(y, w) == y \in Seq(Entries) /\ \A k \in 1 .. Len(y) : Right(y[k], w, k)

\* One that was whole, and one that was split between two pages of a read.
WholeEntry(id, len, m, off) == Caplet(id, len, m, off, FALSE)

SplitEntry(id, len, m) == Caplet(id, len, m, 0, TRUE)

EntryOf(x, id, len, m, l, off) ==
  /\ x \in Entries /\ x.id = id /\ x.len = len /\ x.stored = Cut(m, l, len) /\ x.payload = Cut(m, off, len)

\* What Caplet takes of memory.
LEMMA CapletIs ==
  ASSUME NEW m \in Seq(Cells), NEW l \in Nat, NEW len \in Nat, Len(m) = l + len, NEW off \in Nat,
         off + len <= Len(m), NEW id \in Nat, NEW sp \in BOOLEAN, NEW x, x = Caplet(id, len, m, off, sp)
  PROVE  EntryOf(x, id, len, m, l, off)
<1>1. Cut(m, l, len) \in Seq(Cells)
  <2>1. l + len <= Len(m)
    OBVIOUS
  <2> QED BY <2>1, CutIs
<1>2. Cut(m, off, len) \in Seq(Cells)
  BY CutIs
<1>3. SubSeq(m, Len(m) - len + 1, Len(m)) = Cut(m, l, len)
  <2>1. Len(m) - len + 1 = l + 1 /\ Len(m) = l + len
    OBVIOUS
  <2>2. SubSeq(m, Len(m) - len + 1, Len(m)) = SubSeq(m, l + 1, l + len)
    BY <2>1
  <2> QED BY <2>2 DEF Cut
<1>4. SubSeq(m, off + 1, off + len) = Cut(m, off, len)
  BY DEF Cut
<1>5. PICK a, b : /\ a = SubSeq(m, Len(m) - len + 1, Len(m)) /\ b = SubSeq(m, off + 1, off + len)
                  /\ a = Cut(m, l, len) /\ b = Cut(m, off, len)
                  /\ a \in Seq(Cells) /\ b \in Seq(Cells)
  BY <1>1, <1>2, <1>3, <1>4
<1>6. x = [id |-> id, len |-> len, split |-> sp, stored |-> a, payload |-> b]
  BY <1>5 DEF Caplet
<1>7. a \in Seq(Cells) /\ b \in Seq(Cells) /\ a = Cut(m, l, len) /\ b = Cut(m, off, len)
  BY <1>5
<1>8. PICK q : q = [id |-> id, len |-> len, split |-> sp, stored |-> a, payload |-> b]
  OBVIOUS
<1>9. q \in Entries /\ q.id = id /\ q.len = len /\ q.split = sp /\ q.stored = a /\ q.payload = b
  BY <1>7, <1>8 DEF Entries
<1> QED BY <1>6, <1>7, <1>8, <1>9 DEF EntryOf

\* A caplet read at the end of memory.
LEMMA WholeIsRight ==
  ASSUME NEW w \in Seq(Sizes), NEW s \in Seq(Cells), NEW id \in Nat, NEW len \in Nat, Of(w, id, len),
         NEW x, Payload(id, 0, len) = x, NEW y, WholeEntry(id, len, s \o x, Len(s)) = y
  PROVE  y \in Entries /\ Right(y, w, id)
<1>1. PICK m \in Seq(Cells) : s \o x = m /\ Len(m) = Len(s) + len /\ Cut(m, Len(s), len) = x
  <2>1. PICK m : s \o x = m /\ Ends(m, s, x, len)
    BY Ending
  <2> QED BY <2>1 DEF Ends
<1>2. PICK l \in Nat : Len(s) = l
  BY LenProperties
<1>3. Len(m) = l + len /\ Cut(m, l, len) = x /\ l + len <= Len(m)
  BY <1>1, <1>2
<1>5. PICK f \in BOOLEAN : f = FALSE
  OBVIOUS
<1>4. y = Caplet(id, len, m, l, f)
  <2>1. y = WholeEntry(id, len, m, l)
    BY <1>1, <1>2
  <2> QED BY <1>5, <2>1, Zenon DEF WholeEntry
<1>6. /\ y \in Entries /\ y.id = id /\ y.len = len
      /\ y.stored = Cut(m, l, len) /\ y.payload = Cut(m, l, len)
  <2>1. EntryOf(y, id, len, m, l, l)
    BY <1>3, <1>4, CapletIs
  <2> QED BY <2>1 DEF EntryOf
<1>7. id <= Len(w) /\ len = w[id]
  <2>1. Len(w) \in Nat
    BY LenProperties
  <2> QED BY <2>1 DEF Of
<1> QED BY <1>3, <1>6, <1>7 DEF Right

\* One whose parts were in two pages.
LEMMA SplitIsRight ==
  ASSUME NEW w \in Seq(Sizes), NEW s \in Seq(Cells), NEW id \in Nat, NEW len \in Nat, Of(w, id, len),
         NEW x, Payload(id, 0, len) = x, NEW y, SplitEntry(id, len, s \o x) = y
  PROVE  y \in Entries /\ Right(y, w, id)
<1>1. PICK m \in Seq(Cells) : s \o x = m /\ Len(m) = Len(s) + len /\ Cut(m, Len(s), len) = x
  <2>1. PICK m : s \o x = m /\ Ends(m, s, x, len)
    BY Ending
  <2> QED BY <2>1 DEF Ends
<1>2. PICK l \in Nat : Len(s) = l
  BY LenProperties
<1>3. Len(m) = l + len /\ Cut(m, l, len) = x /\ 0 + len <= Len(m)
  BY <1>1, <1>2
<1>5. PICK f \in BOOLEAN : f = TRUE
  OBVIOUS
<1>4. y = Caplet(id, len, m, 0, f)
  <2>1. y = SplitEntry(id, len, m)
    BY <1>1
  <2> QED BY <1>5, <2>1, Zenon DEF SplitEntry
<1>6. y \in Entries /\ y.id = id /\ y.len = len /\ y.split = TRUE /\ y.stored = Cut(m, l, len)
  <2>1. 0 \in Nat
    OBVIOUS
  <2>2. EntryOf(y, id, len, m, l, 0)
    BY <1>3, <1>4, <2>1, CapletIs
  <2>3. y.split = f
    BY <1>4 DEF Caplet
  <2> QED BY <1>5, <2>2, <2>3 DEF EntryOf
<1>7. id <= Len(w) /\ len = w[id]
  <2>1. Len(w) \in Nat
    BY LenProperties
  <2> QED BY <2>1 DEF Of
<1> QED BY <1>3, <1>6, <1>7 DEF Right

\* The client gets one more.
LEMMA OneMore ==
  ASSUME NEW y, NEW w, NEW x, AllRight(y, w), x \in Entries, NEW k, Right(x, w, k), Len(y) + 1 = k
  PROVE  AllRight(Append(y, x), w) /\ Len(Append(y, x)) = k
<1>1. PICK n \in Nat : Len(y) = n /\ y \in Seq(Entries) /\ n + 1 = k
  BY LenProperties DEF AllRight
<1>2. PICK z : z = Append(y, x) /\ z \in Seq(Entries) /\ Len(z) = n + 1
               /\ (\A i \in 1 .. n : z[i] = y[i]) /\ z[n + 1] = x
  BY <1>1, AppendProperties
<1>3. ASSUME NEW i \in 1 .. Len(z) PROVE Right(z[i], w, i)
  <2>1. i \in 1 .. n \/ i = n + 1
    BY <1>2
  <2>2. CASE i \in 1 .. n
    BY <1>1, <1>2, <2>2 DEF AllRight
  <2>3. CASE i = n + 1
    BY <1>1, <1>2, <2>3
  <2> QED BY <2>1, <2>2, <2>3
<1> QED BY <1>1, <1>2, <1>3 DEF AllRight

\* The buffer holds what is in z behind cell r.
Shows(b, z, r) ==
  /\ b \in Seq(Cells) /\ Len(b) = BufSize
  /\ \A i \in Nat : i >= 1 /\ i <= BufSize /\ r + i <= Len(z) => b[i] = z[r + i]

\* Where read n + 1 is from.
ReadAt(r, n) == n \in Nat /\ r \in Nat /\ r = n * BufSize

\* Where the next read is from.
LEMMA ReadAfter ==
  ASSUME NEW r, NEW n, ReadAt(r, n)
  PROVE  ReadAt(r + BufSize, n + 1) /\ r \in Nat /\ BufSize \in Nat
<1>1. PICK b \in Nat : b = BufSize
  BY Numbers
<1>2. \A x \in Nat, y \in Nat : (x + 1) * y = x * y + y
  OBVIOUS
<1>3. n \in Nat /\ r \in Nat /\ n + 1 \in Nat /\ r + b \in Nat
  BY DEF ReadAt
<1>4. (n + 1) * b = n * b + b
  BY <1>2, <1>3
<1> QED BY <1>1, <1>3, <1>4 DEF ReadAt

\* Pages are read from where they start.
LEMMA ReadPage ==
  ASSUME NEW r, NEW n, ReadAt(r, n)
  PROVE  \E j : At(j, r) /\ MessageOf(j) = r
<1>1. PICK p \in Nat, m \in Nat : p = PageSize /\ m = MaxPages /\ m >= 1 /\ BufSize = m * p
  BY Numbers
<1>2. n \in Nat /\ r \in Nat
  BY DEF ReadAt
<1>3. PICK k \in Nat : k = n * m
  BY <1>1, <1>2
<1>4. k * p = r
  <2>1. n * (m * p) = (n * m) * p
    BY <1>1, <1>2
  <2> QED BY <1>1, <1>3, <2>1 DEF ReadAt
<1>5. At(k + 1, r)
  <2>1. k + 1 \in Nat \ {0} /\ k + 1 - 1 = k
    OBVIOUS
  <2> QED BY <1>1, <1>2, <1>4, <2>1 DEF At
<1>6. MessageOf(k + 1) = r
  <2>1. k + 1 - 1 = k
    OBVIOUS
  <2>2. (n * m + 0) \div m = n
    <3>1. 0 \in Nat /\ 0 < m
      BY <1>1
    <3> QED BY <1>2, <3>1, Divides
  <2>3. k \div m = n
    BY <1>3, <2>2
  <2> QED BY <1>1, <2>1, <2>3 DEF MessageOf, ReadAt
<1> QED BY <1>5, <1>6

\* What the buffer of the next read holds, if there is more to read.
LEMMA NewBufShows ==
  ASSUME NEW r, ReadAt(r, reads), file \in Seq(Cells), buf \in Seq(Cells), Len(buf) = BufSize, Chunk # << >>
  PROVE  r < Len(file) /\ Shows(NewBuf, file, r)
<1>1. PICK b \in Nat, n \in Nat, l \in Nat : BufSize = b /\ reads = n /\ Len(file) = l
  BY ReadAfter, LenProperties DEF ReadAt
<1>2. r \in Nat /\ n * b = r /\ (n + 1) * b = r + b
  <2>1. ReadAt(r + BufSize, n + 1)
    BY <1>1, ReadAfter
  <2>2. (n + 1) * b = r + b
    BY <1>1, <2>1 DEF ReadAt
  <2> QED BY <1>1, <2>2 DEF ReadAt
<1>3. PICK m \in Nat : m = (IF r + b < l THEN r + b ELSE l)
  BY <1>2
<1>4. Chunk = SubSeq(file, r + 1, m)
  BY <1>1, <1>2, <1>3 DEF Chunk
<1>5. r < m
  <2> SUFFICES ASSUME ~(r < m) PROVE FALSE
    OBVIOUS
  <2>1. m < r + 1 /\ m \in Int /\ r + 1 \in Int
    BY <1>2
  <2>2. SubSeq(file, r + 1, m) = << >>
    BY <2>1, SubSeqEmpty
  <2> QED BY <1>4, <2>2
<1>6. r < l /\ m <= l
  BY <1>2, <1>3, <1>5
<1>7. PICK d \in Nat : r + d = m /\ d <= b /\ r + d <= l /\ (d = b \/ m = l)
  <2>1. m - r \in Nat /\ r + (m - r) = m /\ m - r <= b /\ r + (m - r) <= l /\ (m - r = b \/ m = l)
    BY <1>2, <1>3, <1>5, <1>6
  <2> QED BY <2>1
<1>8. Chunk = Cut(file, r, d)
  BY <1>4, <1>7 DEF Cut
<1>9. PICK c \in Seq(Cells) : Chunk = c /\ Len(c) = d /\ \A i \in 1 .. d : c[i] = file[r + i]
  <2>1. /\ Cut(file, r, d) \in Seq(Cells) /\ Len(Cut(file, r, d)) = d
        /\ \A i \in 1 .. d : Cut(file, r, d)[i] = file[r + i]
    <3>1. r + d <= Len(file)
      BY <1>1, <1>7
    <3> QED BY <1>2, <3>1, CutIs
  <2> QED BY <1>8, <2>1
<1>10. PICK t \in Seq(Cells) : SubSeq(buf, Len(c) + 1, BufSize) = t /\ Len(t) = b - d
  <2>1. b - d \in Nat /\ d + (b - d) = b
    BY <1>7
  <2>2. Cut(buf, d, b - d) \in Seq(Cells) /\ Len(Cut(buf, d, b - d)) = b - d
    <3>1. d + (b - d) <= Len(buf)
      BY <1>1, <2>1
    <3> QED BY <2>1, <3>1, CutIs
  <2>3. Cut(buf, d, b - d) = SubSeq(buf, Len(c) + 1, BufSize)
    BY <1>1, <1>9, <2>1 DEF Cut
  <2> QED BY <2>2, <2>3
<1>11. NewBuf = c \o t
  BY <1>9, <1>10 DEF NewBuf
<1>12. PICK v \in Seq(Cells) : c \o t = v /\ Len(v) = b /\ \A i \in 1 .. d : v[i] = c[i]
  <2>1. /\ c \o t \in Seq(Cells) /\ Len(c \o t) = Len(c) + Len(t)
        /\ \A i \in 1 .. Len(c) : (c \o t)[i] = c[i]
    BY Joins
  <2>2. Len(c) + Len(t) = b
    BY <1>7, <1>9, <1>10
  <2> QED BY <1>9, <2>1, <2>2
<1>13. ASSUME NEW i \in Nat, i >= 1, i <= b, r + i <= l PROVE v[i] = file[r + i]
  <2>1. i \in 1 .. d
    BY <1>2, <1>3, <1>7, <1>13
  <2> QED BY <1>9, <1>12, <2>1
<1>14. Shows(v, file, r)
  BY <1>1, <1>12, <1>13 DEF Shows
<1> QED BY <1>1, <1>6, <1>11, <1>12, <1>14

\* Where a page of the buffer starts.
InBuf(x) == \E q \in Nat : q < MaxPages /\ x = q * PageSize

\* A page of the buffer is in the buffer.
LEMMA PageInBuf ==
  ASSUME NEW x, InBuf(x)
  PROVE  /\ x \in Nat /\ x + PageSize \in Nat /\ BufSize \in Nat /\ PageSize \in Nat /\ x + PageSize <= BufSize
         /\ x + PageSize # BufSize => InBuf(x + PageSize)
<1>1. PICK p \in Nat, m \in Nat : p = PageSize /\ m = MaxPages /\ BufSize = m * p
  BY Numbers
<1>2. PICK q \in Nat : q < m /\ x = q * p
  BY <1>1 DEF InBuf
<1>3. q * p \in Nat /\ m * p \in Nat /\ q * p + p <= m * p
  BY <1>2, MoreIsLonger
<1>4. x + p = (q + 1) * p
  <2>1. (q + 1) * p = q * p + p
    OBVIOUS
  <2> QED BY <1>2, <2>1
<1>5. ASSUME x + p # m * p PROVE InBuf(x + PageSize)
  <2>1. q + 1 # m
    BY <1>4, <1>5
  <2>2. q + 1 < m /\ q + 1 \in Nat
    BY <1>2, <2>1
  <2> QED BY <1>1, <1>4, <2>2 DEF InBuf
<1> QED BY <1>1, <1>2, <1>3, <1>5

\* The first page.
LEMMA FirstInBuf == InBuf(0)
<1>1. 0 \in Nat /\ 0 < MaxPages
  BY Numbers
<1>2. 0 = 0 * PageSize
  <2>1. \A p \in Nat : 0 = 0 * p
    OBVIOUS
  <2> QED BY <2>1, Numbers
<1> QED BY <1>1, <1>2 DEF InBuf

\* The header of a page of the buffer.
LEMMA HeaderShown ==
  ASSUME NEW b, NEW z, NEW r, NEW x, Shows(b, z, r), InBuf(x), NEW a, r + x = a, r \in Nat,
         NEW j, NEW h, Has(z, j, a, h)
  PROVE  HeaderAt(b, x) = h
<1>1. PICK m \in Nat, g \in Nat, p \in Nat : m = Room /\ p = PageSize /\ g = PageHeader /\ g >= 1 /\ m + g = p
  BY Numbers
<1>2. x \in Nat /\ x + p <= BufSize /\ BufSize \in Nat
  BY <1>1, PageInBuf
<1>3. a + p <= Len(z) /\ h = HeaderAt(z, a)
  BY <1>1 DEF Has
<1>4. PICK i \in Nat : i = x + m + 1
  BY <1>2
<1>5. i >= 1 /\ i <= BufSize
  BY <1>1, <1>2, <1>4
<1>6. r + i <= Len(z)
  <2>1. r + i = a + m + 1 /\ a + m + 1 <= a + p /\ a + p \in Nat
    BY <1>1, <1>2, <1>4
  <2>2. PICK l \in Nat : l = Len(z) /\ a + p <= l
    <3>1. Len(z) \in Nat
      BY <1>3, <2>1, LenProperties DEF Has, At
    <3> QED BY <1>3, <3>1
  <2> QED BY <2>1, <2>2
<1>7. b[i] = z[r + i]
  BY <1>5, <1>6 DEF Shows
<1>8. r + i = a + m + 1
  BY <1>1, <1>2, <1>4
<1>9. b[x + m + 1] = z[a + m + 1]
  BY <1>4, <1>7, <1>8
<1> QED BY <1>1, <1>3, <1>9 DEF HeaderAt

\* Cell e of the file is cell p of the buffer that starts at r.
From(r, p, e) == r + p = e

\* Payload that is in the buffer.
LEMMA PayloadShown ==
  ASSUME NEW b, NEW z, NEW r, NEW p, NEW n, NEW id, NEW f, NEW e,
         r \in Nat, p \in Nat, n \in Nat, id \in Nat, f \in Nat, Shows(b, z, r), e \in Nat, From(r, p, e),
         z \in Seq(Cells), e + n <= Len(z), p + n <= BufSize, Pays(z, e, n, id, f)
  PROVE  Cut(b, p, n) = Payload(id, f, n)
<1>1. b \in Seq(Cells) /\ Len(b) = BufSize /\ BufSize \in Nat
  BY Numbers DEF Shows
<1>2. PICK k \in Nat, l \in Nat : k = BufSize /\ l = Len(z) /\ e + n <= l /\ p + n <= k
  BY <1>1, LenProperties
<1>3. ASSUME NEW m \in 1 .. n PROVE b[p + m] = Cell("payload", id, f + m)
  <2>1. p + m \in Nat /\ p + m >= 1 /\ p + m <= k /\ r + (p + m) <= l /\ r + (p + m) = e + m
    BY <1>2 DEF From
  <2>2. b[p + m] = z[r + (p + m)]
    BY <1>2, <2>1 DEF Shows
  <2>3. z[e + m] = Cell("payload", id, f + m)
    BY DEF Pays
  <2> QED BY <2>1, <2>2, <2>3
<1>4. Pays(b, p, n, id, f)
  BY <1>3 DEF Pays
<1>5. p + n <= Len(b)
  BY <1>1, <1>2
<1>6. b \in Seq(Cells)
  BY <1>1
<1> QED BY <1>4, <1>5, <1>6, CutPayload

\* A caplet, or the start of one, that is in the buffer.
LEMMA CapletShown ==
  ASSUME NEW b, NEW z, NEW r \in Nat, NEW p \in Nat, NEW id \in Nat, NEW len \in Nat, NEW part \in Nat,
         Shows(b, z, r), NEW e \in Nat, From(r, p, e), z \in Seq(Cells), Comes(z, e, id, len, part),
         p + Packed(part) <= BufSize
  PROVE  /\ b[p + 1].id = id /\ b[p + 1].n = len /\ b[p + CapHeader + 1].n = part
         /\ SubSeq(b, p + CapHeader + IntSize + 1, p + Packed(part)) = Payload(id, 0, part)
<1>1. PICK h \in Nat, t \in Nat : h = CapHeader /\ t = IntSize /\ h >= 1 /\ t >= 1
  BY Numbers
<1>2. Packed(part) = h + t + part
  BY <1>1 DEF Packed
<1>3. PICK k \in Nat, l \in Nat : k = BufSize /\ l = Len(z) /\ e + (h + t + part) <= l /\ p + (h + t + part) <= k
  <2>1. e + Packed(part) <= Len(z)
    BY DEF Comes
  <2> QED BY <1>2, <2>1, Numbers, LenProperties
<1>4. b[p + 1] = z[e + 1]
  <2>1. p + 1 \in Nat /\ p + 1 >= 1 /\ p + 1 <= k /\ r + (p + 1) <= l /\ r + (p + 1) = e + 1
    BY <1>1, <1>3 DEF From
  <2> QED BY <1>3, <2>1 DEF Shows
<1>5. b[p + h + 1] = z[e + 1 + h]
  <2>1. /\ p + h + 1 \in Nat /\ p + h + 1 >= 1 /\ p + h + 1 <= k /\ r + (p + h + 1) <= l
        /\ r + (p + h + 1) = e + 1 + h
    BY <1>1, <1>3 DEF From
  <2> QED BY <1>3, <2>1 DEF Shows
<1>6. z[e + 1].id = id /\ z[e + 1].n = len /\ z[e + 1 + h].n = part
  BY <1>1 DEF Comes, PartAt
<1>7. PICK p2 \in Nat, e2 \in Nat : p2 = p + h + t /\ e2 = e + h + t
  OBVIOUS
<1>8. Pays(z, e2, part, id, 0)
  <2>1. ASSUME NEW m \in 1 .. part PROVE z[e2 + m] = Cell("payload", id, 0 + m)
    <3>1. z[e + h + t + m] = Cell("payload", id, m)
      BY <1>1 DEF Comes
    <3>2. 0 + m = m
      OBVIOUS
    <3> QED BY <1>7, <3>1, <3>2
  <2> QED BY <2>1 DEF Pays
<1>9. From(r, p2, e2)
  BY <1>7 DEF From
<1>13. e2 + part <= Len(z)
  BY <1>3, <1>7
<1>14. p2 + part <= BufSize
  BY <1>3, <1>7
<1>10. Cut(b, p2, part) = Payload(id, 0, part)
  <2>1. 0 \in Nat
    OBVIOUS
  <2> QED BY <1>8, <1>9, <1>13, <1>14, <2>1, PayloadShown
<1>11. SubSeq(b, p + CapHeader + IntSize + 1, p + Packed(part)) = Cut(b, p2, part)
  <2>1. p2 + 1 = p + h + t + 1 /\ p2 + part = p + (h + t + part)
    BY <1>7
  <2> QED BY <1>1, <1>2, <2>1 DEF Cut
<1>12. b[p + CapHeader + 1] = z[e + 1 + h]
  BY <1>1, <1>5
<1> QED BY <1>4, <1>6, <1>10, <1>11, <1>12

\* The reader is at cell p of the buffer, in its page from cell x on: in the file at
\* cell e, in the page from a on.
Sees(b, z, r, x, p, j, a, h, e, g, l) ==
  /\ r \in Nat /\ p \in Nat /\ Shows(b, z, r) /\ InBuf(x) /\ From(r, x, a) /\ From(r, p, e)
  /\ Reads(z, j, a, h, e, g, l)

\* What it finds there: caplet id, of length len, with part of its payload.
Finds(b, p, id, len, part) ==
  /\ b[p + 1].id = id /\ b[p + 1].n = len /\ b[p + CapHeader + 1].n = part
  /\ SubSeq(b, p + CapHeader + IntSize + 1, p + Packed(part)) = Payload(id, 0, part)

\* The page from cell x of the buffer on is that from a on, and so are its cells.
LEMMA Bounds ==
  ASSUME NEW r \in Nat, NEW x, NEW a, NEW p \in Nat, NEW e \in Nat, NEW c \in Nat,
         InBuf(x), From(r, x, a), From(r, p, e), e + c <= a + Room
  PROVE  p + c <= BufSize
<1>1. x \in Nat /\ PageSize \in Nat /\ BufSize \in Nat /\ x + PageSize <= BufSize
  BY PageInBuf
<1>2. Room \in Nat /\ Room <= PageSize
  BY Numbers
<1> QED BY <1>1, <1>2 DEF From

\* It finds what was written there.
LEMMA FindsIt ==
  ASSUME NEW b, NEW z, NEW r, NEW x, NEW p, NEW j, NEW a, NEW h, NEW e, NEW g, NEW l,
         Sees(b, z, r, x, p, j, a, h, e, g, l), z \in Seq(Cells),
         NEW id, NEW len, NEW part, id \in Nat, len \in Nat, part \in Nat, Comes(z, e, id, len, part),
         e + Packed(part) <= a + Room
  PROVE  Finds(b, p, id, len, part)
<1>1. r \in Nat /\ p \in Nat /\ Shows(b, z, r) /\ InBuf(x) /\ From(r, x, a) /\ From(r, p, e)
  BY DEF Sees
<1>2. e \in Nat
  BY DEF Sees, Reads
<1>3. PICK c \in Nat : c = Packed(part)
  BY Numbers DEF Packed
<1>4. e + c <= a + Room
  BY <1>3
<1>5. p + c <= BufSize
  BY <1>1, <1>2, <1>4, Bounds
<1>6. p + Packed(part) <= BufSize
  BY <1>3, <1>5
<1> QED BY <1>1, <1>2, <1>6, CapletShown DEF Finds

\* A whole caplet is read.
LEMMA SeesWhole ==
  ASSUME NEW b, NEW z, NEW r, NEW x, NEW p, NEW j, NEW a, NEW h, NEW e, NEW g, NEW l,
         Sees(b, z, r, x, p, j, a, h, e, g, l), NEW w, NEW o, Holding(z, w, o), l > 0
  PROVE  \E id \in Nat, len \in Nat, c \in Nat :
           /\ Finds(b, p, id, len, len) /\ Packed(len) = c /\ g + 1 = id /\ Of(w, id, len)
           /\ Sees(b, z, r, x, p + c, j, a, h, e + c, g + 1, l - 1)
<1>1. Reads(z, j, a, h, e, g, l)
  BY DEF Sees
<1>2. PICK id \in Nat, len \in Nat, c \in Nat :
         /\ Comes(z, e, id, len, len) /\ Packed(len) = c /\ g + 1 = id /\ Of(w, id, len)
         /\ Reads(z, j, a, h, e + c, g + 1, l - 1)
  BY <1>1, TakeWhole
<1>3. z \in Seq(Cells)
  BY DEF Holding
<1>4. e + c <= a + Room
  BY <1>2 DEF Reads
<1>5. Finds(b, p, id, len, len)
  <2>1. e + Packed(len) <= a + Room
    BY <1>2, <1>4
  <2> QED BY <1>2, <1>3, <2>1, FindsIt
<1>6. Sees(b, z, r, x, p + c, j, a, h, e + c, g + 1, l - 1)
  <2>1. r \in Nat /\ p \in Nat /\ Shows(b, z, r) /\ InBuf(x) /\ From(r, x, a) /\ From(r, p, e)
    BY DEF Sees
  <2>2. p + c \in Nat
    BY <2>1
  <2>3. e \in Nat
    BY <1>1 DEF Reads
  <2>4. From(r, p + c, e + c)
    BY <2>1, <2>3 DEF From
  <2> QED BY <1>2, <2>1, <2>2, <2>4 DEF Sees
<1> QED BY <1>2, <1>5, <1>6

\* A caplet that goes on behind cell b of z, in the page that starts there.
Owes(z, w, o, b, id, len, part) ==
  /\ id \in Nat /\ len \in Nat /\ part \in Nat /\ part < len /\ Of(w, id, len) /\ Count(z, b) = id
  /\ \E j, a, e, c : At(j, a) /\ a + PageSize = b /\ Covers(z, a, e, c, id, len, part, w, o)

\* The start of a caplet that is split is read.
LEMMA SeesSplit ==
  ASSUME NEW b, NEW z, NEW r, NEW x, NEW p, NEW j, NEW a, NEW h, NEW e, NEW g, NEW l,
         Sees(b, z, r, x, p, j, a, h, e, g, l), NEW w, NEW o, Holding(z, w, o), l <= 0,
         ~Flagged(h, "last"), Flagged(h, "spilled"), NEW d, a + PageSize = d
  PROVE  d < Len(z) /\ \E id, len, part : /\ Finds(b, p, id, len, part) /\ g + 1 = id
                                          /\ Owes(z, w, o, d, id, len, part)
<1>1. Reads(z, j, a, h, e, g, l)
  BY DEF Sees
<1>2. Has(z, j, a, h)
  BY <1>1 DEF Reads
<1>3. z \in Seq(Cells)
  BY DEF Holding
<1>4. PageSays(z, j, a, h)
  BY <1>2, FilePage
<1>5. a + PageSize < Len(z) /\ h.n > 0 /\ "spilled" \in h.flags
  BY <1>2, <1>3, <1>4, NotLast
<1>6. PICK id \in Nat, len \in Nat, part \in Nat, c \in Nat :
         /\ Comes(z, e, id, len, part) /\ Packed(part) = c /\ g + 1 = id /\ Of(w, id, len) /\ part < len
         /\ Covers(z, a, e, c, id, len, part, w, o) /\ Count(z, a + PageSize) = id
  BY <1>1, <1>5, TakeSplit
<1>7. e + Packed(part) <= a + Room
  BY <1>6 DEF Covers
<1>8. Finds(b, p, id, len, part)
  BY <1>3, <1>6, <1>7, FindsIt
<1>9. At(j, a)
  BY <1>2 DEF Has
<1>10. Count(z, d) = id /\ d < Len(z)
  BY <1>5, <1>6
<1>11. Owes(z, w, o, d, id, len, part)
  BY <1>6, <1>9, <1>10 DEF Owes
<1> QED BY <1>6, <1>8, <1>10, <1>11

\* The reader at the start of a page with header h, that follows without a split.
LEMMA SeesNext ==
  ASSUME NEW b, NEW z, NEW r, NEW x, NEW j, NEW a, r \in Nat, Shows(b, z, r), InBuf(x), From(r, x, a),
         NEW w, NEW o, Holding(z, w, o), At(j, a), a < Len(z), NEW g, g \in Nat, Count(z, a) = g, Tight(z, a, a),
         NEW h, HeaderAt(b, x) = h
  PROVE  Sees(b, z, r, x, x, j, a, h, a, g, Starts(h))
<1>1. Has(z, j, a, HeaderAt(z, a))
  BY PageThere
<1>2. PICK h2 : HeaderAt(z, a) = h2
  OBVIOUS
<1>3. Has(z, j, a, h2)
  BY <1>1, <1>2
<1>4. HeaderAt(b, x) = h2
  <2>1. r + x = a
    BY DEF From
  <2> QED BY <1>3, <2>1, HeaderShown
<1>5. Has(z, j, a, h)
  BY <1>3, <1>4
<1>6. Reads(z, j, a, h, a, g, Starts(h))
  BY <1>5, BeginsPage
<1>7. x \in Nat
  BY PageInBuf
<1> QED BY <1>6, <1>7 DEF Sees

\* The rest of a caplet is read, and the reader is behind it.
LEMMA SeesRest ==
  ASSUME NEW b, NEW z, NEW r, NEW x, NEW a, r \in Nat, Shows(b, z, r), InBuf(x), From(r, x, a),
         NEW w, NEW o, Holding(z, w, o), NEW id, NEW len, NEW part, Owes(z, w, o, a, id, len, part),
         a < Len(z), NEW h, HeaderAt(b, x) = h, NEW d, len - part = d
  PROVE  /\ Cut(b, x, d) = Payload(id, part, d) /\ d \in Nat
         /\ \E j : Sees(b, z, r, x, x + d, j, a, h, a + d, id, Starts(h))
<1>1. /\ id \in Nat /\ len \in Nat /\ part \in Nat /\ part < len /\ Of(w, id, len) /\ Count(z, a) = id
  BY DEF Owes
<1>2. PICK j, a0, e, c : At(j, a0) /\ a0 + PageSize = a /\ Covers(z, a0, e, c, id, len, part, w, o)
  BY DEF Owes
<1>3. At(j + 1, a)
  BY <1>2, AtNext
<1>4. Has(z, j + 1, a, HeaderAt(z, a))
  BY <1>3, PageThere
<1>5. PICK h2 : HeaderAt(z, a) = h2
  OBVIOUS
<1>6. Has(z, j + 1, a, h2)
  BY <1>4, <1>5
<1>7. HeaderAt(b, x) = h2
  <2>1. r + x = a
    BY DEF From
  <2> QED BY <1>6, <2>1, HeaderShown
<1>8. h = HeaderAt(z, a)
  BY <1>5, <1>7
<1>9. /\ RestIs(z, a, d, id, part) /\ d \in Nat
      /\ Reads(z, j + 1, a, h, a + d, id, Starts(h))
  <2>1. a0 + PageSize < Len(z) /\ Count(z, a0 + PageSize) = id
    BY <1>1, <1>2
  <2> QED BY <1>1, <1>2, <1>8, <2>1, RestComes
<1>10. a \in Nat /\ x \in Nat
  BY <1>3, PageInBuf DEF At
<1>11. a + d <= a + Room
  BY <1>9 DEF Reads
<1>12. x + d <= BufSize
  BY <1>9, <1>10, <1>11, Bounds
<1>13. a + d <= Len(z) /\ Pays(z, a, d, id, part)
  BY <1>9 DEF RestIs, Pays
<1>14. z \in Seq(Cells)
  BY DEF Holding
<1>15. Cut(b, x, d) = Payload(id, part, d)
  BY <1>1, <1>9, <1>10, <1>12, <1>13, <1>14, PayloadShown
<1>16. From(r, x + d, a + d) /\ x + d \in Nat
  BY <1>9, <1>10 DEF From
<1>17. Sees(b, z, r, x, x + d, j + 1, a, h, a + d, id, Starts(h))
  BY <1>9, <1>16 DEF Sees
<1> QED BY <1>9, <1>15, <1>17

-----------------------------------------------------------------------------
(* The reader's steps.                                                     *)

ReaderTyped == buf \in Seq(Cells) /\ Len(buf) = BufSize /\ mem \in Seq(Cells) /\ reads \in Nat

\* What was written is there, all of it, and what was read of it is right.
Known == /\ Holding(file, written, offset) /\ Count(file, Len(file)) = Len(written)
         /\ AllRight(got, written)

\* Read n + 1, from cell r of the file on, is being taken apart.
Shown(n, r, j, a, h, e) ==
  /\ n \in Nat /\ n + 1 = reads /\ ReadAt(r, n)
  /\ Sees(buf, file, r, base, pos, j, a, h, e, Len(got), left)

InPage == \E n, r, j, a, h, e : Shown(n, r, j, a, h, e)

\* All caplets before cell d were read.
Clean(d) == Count(file, d) = Len(got) /\ Tight(file, d, d)

\* All but the one that goes on there.
Unfinished(d) ==
  \E id, len, part : /\ Owes(file, written, offset, d, id, len, part) /\ Len(got) + 1 = id
                     /\ [id |-> id, len |-> len, part |-> part] = pending /\ Payload(id, 0, part) = mem

\* The next read is from cell d of the file on.
NextRead(d) == /\ ReadAt(d, reads)
               /\ d < Len(file) => IF pending = NoCaplet THEN Clean(d) ELSE Unfinished(d)
               /\ ~(d < Len(file)) => Len(got) = Len(written)

Between == \E d : NextRead(d)

Reading == ReaderTyped /\ Known

\* How many caplets the client has.
LEMMA GotIs ==
  ASSUME Reading
  PROVE  Len(got) \in Nat /\ got \in Seq(Entries) /\ file \in Seq(Cells) /\ written \in Seq(Sizes)
BY LenProperties DEF Reading, Known, AllRight, Holding

\* The pages of the next read.
LEMMA Fetched ==
  ASSUME Reading, Read, NEW d, ReadAt(d, reads)
  PROVE  /\ d \in Nat /\ d < Len(file) /\ Shows(NewBuf, file, d)
         /\ reads \in Nat /\ reads' \in Nat /\ reads + 1 = reads'
         /\ buf' = NewBuf /\ base' = 0 /\ UNCHANGED writer
<1>1. Chunk # << >>
  BY DEF Read
<1>2. buf \in Seq(Cells) /\ Len(buf) = BufSize /\ file \in Seq(Cells)
  BY GotIs DEF Reading, ReaderTyped
<1>3. d < Len(file) /\ Shows(NewBuf, file, d)
  BY <1>1, <1>2, NewBufShows
<1>4. reads + 1 = reads' /\ buf' = NewBuf /\ base' = 0 /\ UNCHANGED writer
  BY DEF Read
<1>5. d \in Nat /\ reads \in Nat
  BY DEF Reading, ReaderTyped, ReadAt
<1> QED BY <1>3, <1>4, <1>5

\* The first of the buffer is cell r of the file.
LEMMA FromFirst ==
  ASSUME NEW r, r \in Nat
  PROVE  From(r, 0, r)
BY DEF From

\* The reader is in the first page of what it has just read.
LEMMA OpensRead ==
  ASSUME Reading, Read, NEW d, ReadAt(d, reads), NEW q, NewBuf = q, NEW j, NEW h, NEW e,
         NEW p, p = pos', NEW l, l = left', NEW g, g = Len(got'),
         Sees(q, file, d, 0, p, j, d, h, e, g, l)
  PROVE  InPage'
<1>1. reads \in Nat /\ reads + 1 = reads' /\ buf' = q /\ base' = 0 /\ file' = file
  BY Fetched DEF writer
<1>2. Sees(buf', file', d, base', pos', j, d, h, e, Len(got'), left')
  BY <1>1
<1>3. PICK n : reads = n
  OBVIOUS
<1>4. n \in Nat /\ n + 1 = reads' /\ ReadAt(d, n)
  BY <1>1, <1>3
<1>5. Shown(n, d, j, d, h, e)'
  BY <1>2, <1>4 DEF Shown
<1> QED BY <1>5 DEF InPage

\* The first caplet of a read that does not begin with the rest of one.
LEMMA FirstOf ==
  ASSUME NEW b, NEW z, NEW j, NEW a, NEW h, NEW g, NEW l, NEW w, NEW o, Holding(z, w, o),
         NEW r, NEW x, NEW p, NEW e, Sees(b, z, r, x, p, j, a, h, e, g, l), Flagged(h, "last"), e = a
  PROVE  Sees(b, z, r, x, p, j, a, h, e, g, h.n)
<1>1. Reads(z, j, a, h, e, g, l)
  BY DEF Sees
<1>2. Has(z, j, a, h) /\ z \in Seq(Cells)
  BY <1>1 DEF Reads, Holding
<1>3. PageSays(z, j, a, h)
  BY <1>2, FilePage
<1>4. h.flags = {"last"}
  BY <1>2, <1>3, TheLast
<1>5. Count(z, a + PageSize) = Count(z, a) + h.n /\ h.n \in Nat
  BY <1>2, <1>3, CountPage
<1>6. Left(z, a, h, e, h.n)
  <2>1. Count(z, a + PageSize) = Count(z, e) + h.n + 0
    <3>1. Count(z, e) \in Nat /\ Count(z, a + PageSize) = Count(z, e) + h.n
      <4>1. Count(z, e) = g /\ g \in Nat
        BY <1>1 DEF Reads
      <4> QED BY <1>5, <4>1
    <3> QED BY <1>5, <3>1
  <2>2. "spilled" \notin h.flags
    BY <1>4
  <2> QED BY <1>5, <2>1, <2>2 DEF Left
<1>7. Reads(z, j, a, h, e, g, h.n)
  BY <1>1, <1>5, <1>6 DEF Reads
<1> QED BY <1>7 DEF Sees

\* A page that begins with a caplet says so.
LEMMA FirstStart ==
  ASSUME NEW z, NEW w, NEW o, Holding(z, w, o), NEW j, NEW a, NEW h, Has(z, j, a, h), MessageOf(j) = a,
         ~Flagged(h, "last"), Tight(z, a, a)
  PROVE  h.id = 0
<1>1. z \in Seq(Cells)
  BY DEF Holding
<1>2. PageSays(z, j, a, h)
  BY FilePage
<1>3. a + PageSize < Len(z) /\ h.n > 0 /\ h.id >= 0
  BY <1>1, <1>2, NotLast
<1>4. h.id \in Nat /\ a \in Nat /\ PageSize \in Nat /\ PageSize >= 1 /\ Len(z) \in Nat
  <2>1. h.id \in Int
    BY <1>1, HeaderIs
  <2>2. a \in Nat
    BY DEF Has, At
  <2> QED BY <1>1, <1>3, <2>1, <2>2, Numbers, LenProperties
<1>5. PICK st : StartsOf(z, a, a + PageSize) = st
  OBVIOUS
<1>6. a + h.id + 1 \in st /\ \A i \in st : a + h.id + 1 <= i
  BY <1>2, <1>3, <1>5 DEF PageSays, Tells
<1>7. a + h.id + 1 \in a + 1 .. a + PageSize /\ z[a + h.id + 1].kind = "caplet"
  BY <1>5, <1>6 DEF StartsOf
<1>8. z[a + 1].kind = "caplet"
  <2>1. a # Len(z)
    BY <1>3, <1>4
  <2> QED BY <1>7, <2>1 DEF Tight
<1>9. a + 1 \in st
  BY <1>4, <1>5, <1>8 DEF StartsOf
<1> QED BY <1>4, <1>6, <1>9

\* The client's caplets after a step that adds caplet k, or none.
LEMMA StillReading ==
  ASSUME Reading, UNCHANGED writer, buf' \in Seq(Cells), Len(buf') = BufSize, mem' \in Seq(Cells),
         reads' \in Nat, AllRight(got', written)
  PROVE  Reading'
BY DEF Reading, ReaderTyped, Known, writer

\* A read that begins with a caplet.
LEMMA ReadFirstStep ==
  ASSUME Reading, Read, ReadFirst, NEW d, NextRead(d)
  PROVE  Reading' /\ InPage'
<1>1. ReadAt(d, reads) /\ pending = NoCaplet
  BY DEF NextRead, ReadFirst
<1>2. PICK q : NewBuf = q
  OBVIOUS
<1>3. d \in Nat /\ d < Len(file) /\ Shows(q, file, d)
  BY <1>1, <1>2, Fetched
<1>4. Clean(d)
  BY <1>1, <1>3 DEF NextRead
<1>5. PICK g : Len(got) = g
  OBVIOUS
<1>6. g \in Nat /\ Count(file, d) = g /\ Tight(file, d, d)
  BY <1>4, <1>5, GotIs DEF Clean
<1>7. PICK h : HeaderAt(q, 0) = h
  OBVIOUS
<1>8. PICK j : At(j, d) /\ MessageOf(j) = d
  BY <1>1, ReadPage
<1>9. Holding(file, written, offset)
  BY DEF Reading, Known
<1>10. From(d, 0, d) /\ InBuf(0)
  BY <1>3, FromFirst, FirstInBuf
<1>11. Sees(q, file, d, 0, 0, j, d, h, d, g, Starts(h))
  BY <1>3, <1>6, <1>7, <1>8, <1>9, <1>10, SeesNext
<1>12. Has(file, j, d, h)
  BY <1>11 DEF Sees, Reads
<1>13. mem' = mem /\ got' = got
  BY DEF ReadFirst
<1>14. Len(got') = g
  BY <1>5, <1>13
<1>15. ASSUME Flagged(h, "last") PROVE InPage'
  <2>1. pos' = 0 /\ left' = h.n
    BY <1>2, <1>7, <1>15 DEF ReadFirst
  <2>2. Sees(q, file, d, 0, 0, j, d, h, d, g, h.n)
    BY <1>9, <1>11, <1>15, FirstOf
  <2>3. Sees(q, file, d, 0, pos', j, d, h, d, Len(got'), left')
    BY <1>14, <2>1, <2>2
  <2> QED BY <1>1, <1>2, <2>3, OpensRead
<1>16. ASSUME ~Flagged(h, "last") PROVE InPage'
  <2>1. h.id = 0
    BY <1>6, <1>8, <1>9, <1>12, <1>16, FirstStart
  <2>2. pos' = 0 /\ left' = Starts(h)
    BY <1>2, <1>7, <1>16, <2>1 DEF ReadFirst
  <2>3. Sees(q, file, d, 0, pos', j, d, h, d, Len(got'), left')
    BY <1>11, <1>14, <2>2
  <2> QED BY <1>1, <1>2, <2>3, OpensRead
<1>17. InPage'
  BY <1>15, <1>16
<1>18. Reading'
  <2>1. UNCHANGED writer /\ reads' \in Nat /\ buf' = q
    BY <1>1, <1>2, Fetched
  <2>2. mem' \in Seq(Cells) /\ AllRight(got', written)
    BY <1>13 DEF Reading, ReaderTyped, Known
  <2>3. buf' \in Seq(Cells) /\ Len(buf') = BufSize
    BY <1>3, <2>1 DEF Shows
  <2> QED BY <2>1, <2>2, <2>3, StillReading
<1> QED BY <1>17, <1>18

\* A record of three numbers is what it was made of.
LEMMA PendingIs ==
  ASSUME NEW id, NEW len, NEW part, [id |-> id, len |-> len, part |-> part] = pending
  PROVE  pending.id = id /\ pending.len = len /\ pending.part = part
OBVIOUS

\* Payload is cells.
LEMMA PayloadCells ==
  ASSUME NEW id \in Nat, NEW f \in Nat, NEW n \in Nat
  PROVE  Payload(id, f, n) \in Seq(Cells) /\ Len(Payload(id, f, n)) = n
BY PayloadIs DEF Dull

\* Memory that holds a caplet and no more.
LEMMA Alone ==
  ASSUME NEW w \in Seq(Sizes), NEW id \in Nat, NEW len \in Nat, Of(w, id, len),
         NEW m, Payload(id, 0, len) = m
  PROVE  Caplet(id, len, m, 0, FALSE) \in Entries /\ Right(Caplet(id, len, m, 0, FALSE), w, id)
<1>1. << >> \in Seq(Cells) /\ Len(<< >>) = 0
  OBVIOUS
<1>2. m \in Seq(Cells)
  <2>1. 0 \in Nat
    OBVIOUS
  <2> QED BY <2>1, PayloadCells
<1>3. << >> \o m = m
  BY <1>2
<1>4. PICK y : WholeEntry(id, len, << >> \o m, Len(<< >>)) = y
  OBVIOUS
<1>5. y \in Entries /\ Right(y, w, id)
  BY <1>1, <1>4, WholeIsRight
<1>6. y = Caplet(id, len, m, 0, FALSE)
  BY <1>1, <1>3, <1>4 DEF WholeEntry
<1> QED BY <1>5, <1>6

\* A read that begins with the rest of a caplet.
LEMMA ReadPendingStep ==
  ASSUME Reading, Read, ReadPending, NEW d, NextRead(d)
  PROVE  Reading' /\ InPage'
<1>1. ReadAt(d, reads) /\ pending # NoCaplet
  BY DEF NextRead, ReadPending
<1>2. PICK q : NewBuf = q
  OBVIOUS
<1>3. d \in Nat /\ d < Len(file) /\ Shows(q, file, d)
  BY <1>1, <1>2, Fetched
<1>4. Unfinished(d)
  BY <1>1, <1>3 DEF NextRead
<1>5. PICK id, len, part : /\ Owes(file, written, offset, d, id, len, part) /\ Len(got) + 1 = id
                           /\ [id |-> id, len |-> len, part |-> part] = pending /\ Payload(id, 0, part) = mem
  BY <1>4 DEF Unfinished
<1>6. id \in Nat /\ len \in Nat /\ part \in Nat /\ part < len /\ Of(written, id, len)
  BY <1>5 DEF Owes
<1>7. pending.id = id /\ pending.len = len /\ pending.part = part
  BY <1>5, PendingIs
<1>8. PICK n : len - part = n
  OBVIOUS
<1>9. RestSize(pending) = n
  BY <1>7, <1>8 DEF RestSize
<1>10. PICK h : HeaderAt(q, 0) = h
  OBVIOUS
<1>11. Holding(file, written, offset) /\ written \in Seq(Sizes)
  BY GotIs DEF Reading, Known
<1>12. From(d, 0, d) /\ InBuf(0)
  BY <1>3, FromFirst, FirstInBuf
<1>13. /\ Cut(q, 0, n) = Payload(id, part, n) /\ n \in Nat
       /\ \E j : Sees(q, file, d, 0, 0 + n, j, d, h, d + n, id, Starts(h))
  BY <1>3, <1>5, <1>8, <1>10, <1>11, <1>12, SeesRest
<1>14. PICK j : Sees(q, file, d, 0, 0 + n, j, d, h, d + n, id, Starts(h))
  BY <1>13
<1>15. PICK m : mem \o SubSeq(q, 1, n) = m
  OBVIOUS
<1>16. m = Payload(id, 0, len)
  <2>1. Cut(q, 0, n) = SubSeq(q, 1, n)
    <3>1. 0 + 1 = 1 /\ 0 + n = n
      BY <1>13
    <3> QED BY <3>1 DEF Cut
  <2>2. m = Payload(id, 0, part) \o Payload(id, part, n)
    BY <1>5, <1>13, <1>15, <2>1
  <2>3. Payload(id, 0, part) \o Payload(id, part, n) = Payload(id, 0, part + n)
    BY <1>6, <1>13, PayloadJoins
  <2>4. part + n = len
    BY <1>6, <1>8
  <2> QED BY <2>2, <2>3, <2>4
<1>17. PICK y : Caplet(id, len, m, 0, FALSE) = y
  OBVIOUS
<1>18. y \in Entries /\ Right(y, written, id)
  BY <1>6, <1>11, <1>16, <1>17, Alone
<1>19. mem' = m /\ got' = Append(got, y) /\ pos' = 0 + n /\ left' = Starts(h)
  <2>1. mem' = m
    BY <1>2, <1>9, <1>15 DEF ReadPending
  <2>2. got' = Append(got, y)
    BY <1>2, <1>7, <1>9, <1>15, <1>17 DEF ReadPending
  <2>3. pos' = n /\ left' = Starts(h)
    BY <1>2, <1>9, <1>10 DEF ReadPending
  <2>4. n = 0 + n
    BY <1>13
  <2> QED BY <2>1, <2>2, <2>3, <2>4
<1>20. AllRight(got', written) /\ Len(got') = id
  <2>1. AllRight(got, written)
    BY DEF Reading, Known
  <2>2. AllRight(Append(got, y), written) /\ Len(Append(got, y)) = id
    BY <1>5, <1>18, <2>1, OneMore
  <2> QED BY <1>19, <2>2
<1>21. InPage'
  <2>1. Sees(q, file, d, 0, pos', j, d, h, d + n, Len(got'), left')
    BY <1>14, <1>19, <1>20
  <2> QED BY <1>1, <1>2, <2>1, OpensRead
<1>22. Reading'
  <2>1. UNCHANGED writer /\ reads' \in Nat /\ buf' = q
    BY <1>1, <1>2, Fetched
  <2>2. mem' \in Seq(Cells)
    <3>1. 0 \in Nat
      OBVIOUS
    <3> QED BY <1>6, <1>16, <1>19, <3>1, PayloadCells
  <2>3. buf' \in Seq(Cells) /\ Len(buf') = BufSize
    BY <1>3, <2>1 DEF Shows
  <2> QED BY <1>20, <2>1, <2>2, <2>3, StillReading
<1> QED BY <1>21, <1>22

\* The reader stays with its buffer.
LEMMA SameBuffer ==
  ASSUME NEW n, NEW r, NEW j, NEW a, NEW h, NEW e, n \in Nat, n + 1 = reads, ReadAt(r, n),
         reads' = reads, buf' = buf, file' = file,
         NEW x, base' = x, NEW p, pos' = p, NEW l, left' = l, NEW g, Len(got') = g,
         Sees(buf, file, r, x, p, j, a, h, e, g, l)
  PROVE  InPage'
<1>1. Sees(buf', file', r, base', pos', j, a, h, e, Len(got'), left')
  OBVIOUS
<1>2. Shown(n, r, j, a, h, e)'
  BY <1>1 DEF Shown
<1> QED BY <1>2 DEF InPage

\* What the reader is at, in a step that leaves the buffer and the file as they are.
LEMMA AtIt ==
  ASSUME Reading, NEW n, NEW r, NEW j, NEW a, NEW h, NEW e, Shown(n, r, j, a, h, e)
  PROVE  /\ n \in Nat /\ n + 1 = reads /\ ReadAt(r, n) /\ r \in Nat /\ Holding(file, written, offset)
         /\ Sees(buf, file, r, base, pos, j, a, h, e, Len(got), left)
         /\ Shows(buf, file, r) /\ InBuf(base) /\ From(r, base, a) /\ Has(file, j, a, h) /\ HeaderAt(buf, base) = h
<1>1. n \in Nat /\ n + 1 = reads /\ ReadAt(r, n) /\ Sees(buf, file, r, base, pos, j, a, h, e, Len(got), left)
  BY DEF Shown
<1>2. r \in Nat /\ Shows(buf, file, r) /\ InBuf(base) /\ From(r, base, a) /\ Has(file, j, a, h)
  BY <1>1 DEF Sees, Reads
<1>3. Holding(file, written, offset)
  BY DEF Reading, Known
<1>4. HeaderAt(buf, base) = h
  <2>1. r + base = a
    BY <1>2 DEF From
  <2> QED BY <1>2, <2>1, HeaderShown
<1> QED BY <1>1, <1>2, <1>3, <1>4

\* A whole caplet.
LEMMA ReadCapletStep ==
  ASSUME Reading, InPage, ReadCaplet
  PROVE  Reading' /\ InPage'
<1>1. PICK n, r, j, a, h, e : Shown(n, r, j, a, h, e)
  BY DEF InPage
<1>2. /\ n \in Nat /\ n + 1 = reads /\ ReadAt(r, n) /\ Holding(file, written, offset)
      /\ Sees(buf, file, r, base, pos, j, a, h, e, Len(got), left)
  BY <1>1, AtIt
<1>3. left > 0
  BY DEF ReadCaplet
<1>4. PICK id \in Nat, len \in Nat, c \in Nat :
        /\ Finds(buf, pos, id, len, len) /\ Packed(len) = c /\ Len(got) + 1 = id /\ Of(written, id, len)
        /\ Sees(buf, file, r, base, pos + c, j, a, h, e + c, Len(got) + 1, left - 1)
  BY <1>2, <1>3, SeesWhole
<1>5. Start.id = id /\ Part = len /\ PartBytes = Payload(id, 0, len)
  BY <1>4 DEF Finds, Start, Part, PartBytes
<1>6. PICK x : Payload(id, 0, len) = x
  OBVIOUS
<1>7. PICK y : WholeEntry(id, len, mem \o x, Len(mem)) = y
  OBVIOUS
<1>8. mem' = mem \o x /\ got' = Append(got, y) /\ pos' = pos + c /\ left' = left - 1
  <2>1. mem' = mem \o x
    BY <1>5, <1>6 DEF ReadCaplet
  <2>2. got' = Append(got, y)
    BY <1>5, <1>6, <1>7 DEF ReadCaplet, WholeEntry
  <2>3. pos' = pos + c /\ left' = left - 1
    BY <1>4, <1>5 DEF ReadCaplet
  <2> QED BY <2>1, <2>2, <2>3
<1>9. reads' = reads /\ buf' = buf /\ base' = base /\ UNCHANGED writer
  BY DEF ReadCaplet
<1>10. mem \in Seq(Cells) /\ written \in Seq(Sizes) /\ AllRight(got, written)
  BY GotIs DEF Reading, ReaderTyped, Known
<1>11. y \in Entries /\ Right(y, written, id)
  BY <1>4, <1>6, <1>7, <1>10, WholeIsRight
<1>12. AllRight(got', written) /\ Len(got') = id
  <2>1. AllRight(Append(got, y), written) /\ Len(Append(got, y)) = id
    BY <1>4, <1>10, <1>11, OneMore
  <2> QED BY <1>8, <2>1
<1>13. InPage'
  <2>1. Sees(buf, file, r, base', pos', j, a, h, e + c, Len(got'), left')
    BY <1>4, <1>8, <1>9, <1>12
  <2>2. reads' = reads /\ buf' = buf /\ file' = file
    BY <1>9 DEF writer
  <2> QED BY <1>2, <2>1, <2>2, SameBuffer
<1>14. mem' \in Seq(Cells)
  <2>1. x \in Seq(Cells)
    <3>1. 0 \in Nat
      OBVIOUS
    <3> QED BY <1>6, <3>1, PayloadCells
  <2> QED BY <1>8, <1>10, <2>1, Joins
<1>15. Reading'
  <2>1. reads' \in Nat /\ buf' \in Seq(Cells) /\ Len(buf') = BufSize
    BY <1>9 DEF Reading, ReaderTyped
  <2> QED BY <1>9, <1>12, <1>14, <2>1, StillReading
<1> QED BY <1>13, <1>15

\* All caplets before the end of the last page were read.
LEMMA AllTaken ==
  ASSUME NEW z, NEW w, NEW o, Holding(z, w, o), NEW j, NEW a, NEW h, NEW e, NEW g, NEW l,
         Reads(z, j, a, h, e, g, l), l <= 0, Flagged(h, "last")
  PROVE  a + PageSize = Len(z) /\ Count(z, Len(z)) = g
<1>1. Has(z, j, a, h) /\ z \in Seq(Cells)
  BY DEF Reads, Holding
<1>2. PageSays(z, j, a, h)
  BY <1>1, FilePage
<1>3. a + PageSize = Len(z) /\ h.flags = {"last"}
  BY <1>1, <1>2, TheLast
<1>4. PICK b : a + PageSize = b
  OBVIOUS
<1>5. Count(z, b) = Count(z, a) + h.n /\ h.n \in Nat
  BY <1>1, <1>2, <1>4, CountPage
<1>6. a \in Nat /\ b \in Nat /\ e \in Nat /\ a <= e /\ e <= b
  BY <1>4, Inside
<1>7. Count(z, e) = g /\ g \in Nat /\ l \in Int /\ Left(z, a, h, e, l)
  BY DEF Reads
<1>8. ASSUME h.n > 0 PROVE Count(z, b) = g
  <2>1. "spilled" \notin h.flags
    BY <1>3
  <2>2. l >= 0 /\ Count(z, b) = Count(z, e) + l + 0
    BY <1>4, <1>7, <1>8, <2>1 DEF Left
  <2>3. l = 0
    BY <1>7, <2>2
  <2> QED BY <1>7, <2>2, <2>3
<1>9. ASSUME h.n = 0 PROVE Count(z, b) = g
  <2>1. Count(z, a) \in Nat /\ Count(z, e) \in Nat /\ Count(z, a) <= Count(z, e)
    BY <1>6, CountGrows
  <2>2. Count(z, b) \in Nat /\ Count(z, e) <= Count(z, b)
    BY <1>6, CountGrows
  <2>3. Count(z, b) = Count(z, a)
    BY <1>5, <1>9, <2>1
  <2> QED BY <1>7, <2>1, <2>2, <2>3
<1>10. Count(z, b) = g
  BY <1>5, <1>8, <1>9
<1> QED BY <1>3, <1>4, <1>10

\* The end of the file.
LEMMA LastPageStep ==
  ASSUME Reading, InPage, LastPage
  PROVE  Reading' /\ Between'
<1>1. PICK n, r, j, a, h, e : Shown(n, r, j, a, h, e)
  BY DEF InPage
<1>2. /\ n \in Nat /\ n + 1 = reads /\ ReadAt(r, n) /\ r \in Nat /\ Holding(file, written, offset)
      /\ InBuf(base) /\ From(r, base, a) /\ HeaderAt(buf, base) = h
      /\ Sees(buf, file, r, base, pos, j, a, h, e, Len(got), left)
  BY <1>1, AtIt
<1>3. Flagged(h, "last") /\ left <= 0
  BY <1>2 DEF LastPage, Header
<1>4. a + PageSize = Len(file) /\ Count(file, Len(file)) = Len(got)
  <2>1. Reads(file, j, a, h, e, Len(got), left)
    BY <1>2 DEF Sees
  <2> QED BY <1>2, <1>3, <2>1, AllTaken
<1>5. ReadAt(r + BufSize, reads)
  BY <1>2, ReadAfter
<1>6. ~(r + BufSize < Len(file))
  <2>1. base \in Nat /\ base + PageSize <= BufSize /\ PageSize \in Nat /\ BufSize \in Nat
    BY <1>2, PageInBuf
  <2>2. r + base = a
    BY <1>2 DEF From
  <2>3. r + base + PageSize = Len(file)
    BY <1>4, <2>2
  <2> QED BY <1>2, <2>1, <2>3
<1>7. PICK d : d = r + BufSize
  OBVIOUS
<1>8. UNCHANGED <<writer, reader>>
  BY DEF LastPage
<1>9. NextRead(d)'
  <2>1. ReadAt(d, reads) /\ ~(d < Len(file))
    BY <1>5, <1>6, <1>7
  <2>2. ReadAt(d, reads') /\ ~(d < Len(file'))
    BY <1>8, <2>1 DEF writer, reader
  <2>3. Len(got) = Len(written)
    BY <1>4 DEF Reading, Known
  <2>4. Len(got') = Len(written')
    BY <1>8, <2>3 DEF writer, reader
  <2> QED BY <2>2, <2>4 DEF NextRead
<1>10. Reading'
  BY <1>8, StillReading DEF Reading, ReaderTyped, Known, reader
<1> QED BY <1>9, <1>10 DEF Between

\* The next page of the buffer, and of the file.
LEMMA NextInBuf ==
  ASSUME NEW r, NEW x, NEW a, r \in Nat, InBuf(x), From(r, x, a), x + PageSize # BufSize
  PROVE  InBuf(x + PageSize) /\ From(r, x + PageSize, a + PageSize)
<1>1. x \in Nat /\ PageSize \in Nat /\ InBuf(x + PageSize)
  BY PageInBuf
<1>2. r + (x + PageSize) = a + PageSize
  BY <1>1 DEF From
<1> QED BY <1>1, <1>2 DEF From

\* The end of the buffer is where the next read is from.
LEMMA EndOfBuf ==
  ASSUME NEW r, NEW x, NEW a, r \in Nat, InBuf(x), From(r, x, a), x + PageSize = BufSize
  PROVE  r + BufSize = a + PageSize
<1>1. x \in Nat /\ PageSize \in Nat
  BY PageInBuf
<1>2. r + (x + PageSize) = a + PageSize
  BY <1>1 DEF From
<1> QED BY <1>2

\* A page that is over, no caplet split.
LEMMA OverIsClean ==
  ASSUME Reading, NEW n, NEW r, NEW j, NEW a, NEW h, NEW e, Shown(n, r, j, a, h, e), left <= 0,
         ~Flagged(h, "last"), ~Flagged(h, "spilled"), NEW b, a + PageSize = b
  PROVE  b < Len(file) /\ Clean(b) /\ At(j + 1, b)
<1>1. /\ Holding(file, written, offset) /\ Has(file, j, a, h)
      /\ Sees(buf, file, r, base, pos, j, a, h, e, Len(got), left)
  BY AtIt
<1>2. file \in Seq(Cells)
  BY GotIs
<1>3. PageSays(file, j, a, h)
  BY <1>1, FilePage
<1>4. a + PageSize < Len(file) /\ h.n > 0 /\ "spilled" \notin h.flags
  BY <1>1, <1>2, <1>3, NotLast
<1>5. Reads(file, j, a, h, e, Len(got), left)
  BY <1>1 DEF Sees
<1>6. Count(file, a + PageSize) = Len(got) /\ Tight(file, a + PageSize, a + PageSize)
  BY <1>1, <1>4, <1>5, PageOver
<1>7. At(j, a)
  BY <1>1 DEF Has
<1>8. At(j + 1, a + PageSize)
  BY <1>7, AtNext
<1> QED BY <1>4, <1>6, <1>8 DEF Clean

\* The next page.
LEMMA MoveToNextDBPageStep ==
  ASSUME Reading, InPage, MoveToNextDBPage
  PROVE  Reading' /\ (IF base + PageSize = BufSize THEN Between' ELSE InPage')
<1>1. PICK n, r, j, a, h, e : Shown(n, r, j, a, h, e)
  BY DEF InPage
<1>2. /\ n \in Nat /\ n + 1 = reads /\ ReadAt(r, n) /\ r \in Nat /\ Holding(file, written, offset)
      /\ Shows(buf, file, r) /\ InBuf(base) /\ From(r, base, a) /\ HeaderAt(buf, base) = h
  BY <1>1, AtIt
<1>3. left <= 0 /\ ~Flagged(h, "last") /\ ~Flagged(h, "spilled")
  BY <1>2 DEF MoveToNextDBPage, MoreReadings, Header
<1>4. PICK b : a + PageSize = b
  OBVIOUS
<1>5. b < Len(file) /\ Clean(b) /\ At(j + 1, b)
  BY <1>1, <1>3, <1>4, OverIsClean
<1>6. reads' = reads /\ buf' = buf /\ got' = got /\ UNCHANGED writer
  BY DEF MoveToNextDBPage
<1>7. mem' \in Seq(Cells)
  <2>1. mem' = mem \/ mem' = << >>
    BY DEF MoveToNextDBPage
  <2>2. mem \in Seq(Cells) /\ << >> \in Seq(Cells)
    BY DEF Reading, ReaderTyped
  <2> QED BY <2>1, <2>2
<1>8. Reading'
  <2>1. reads' \in Nat /\ buf' \in Seq(Cells) /\ Len(buf') = BufSize /\ AllRight(got', written)
    BY <1>6 DEF Reading, ReaderTyped, Known
  <2> QED BY <1>6, <1>7, <2>1, StillReading
<1>9. ASSUME base + PageSize = BufSize PROVE Between'
  <2>1. r + BufSize = b
    BY <1>2, <1>4, <1>9, EndOfBuf
  <2>2. ReadAt(b, reads)
    BY <1>2, <2>1, ReadAfter
  <2>3. pending' = NoCaplet
    BY <1>9 DEF MoveToNextDBPage
  <2>4. Clean(b)'
    BY <1>5, <1>6 DEF Clean, writer
  <2>5. ReadAt(b, reads')
    BY <1>6, <2>2
  <2>6. b < Len(file')
    BY <1>5, <1>6 DEF writer
  <2>7. NextRead(b)'
    BY <2>3, <2>4, <2>5, <2>6 DEF NextRead
  <2> QED BY <2>7 DEF Between
<1>10. ASSUME base + PageSize # BufSize PROVE InPage'
  <2>1. PICK x : base + PageSize = x
    OBVIOUS
  <2>2. InBuf(x) /\ From(r, x, b)
    <3>1. InBuf(base + PageSize) /\ From(r, base + PageSize, a + PageSize)
      BY <1>2, <1>10, NextInBuf
    <3> QED BY <1>4, <2>1, <3>1
  <2>3. PICK h2 : HeaderAt(buf, x) = h2
    OBVIOUS
  <2>4. PICK g : Len(got) = g
    OBVIOUS
  <2>5. g \in Nat /\ Count(file, b) = g /\ Tight(file, b, b)
    BY <1>5, <2>4, GotIs DEF Clean
  <2>6. Sees(buf, file, r, x, x, j + 1, b, h2, b, g, Starts(h2))
    BY <1>2, <1>5, <2>2, <2>3, <2>5, SeesNext
  <2>7. base' = x /\ left' = Starts(h2) /\ pos' = x
    BY <1>10, <2>1, <2>3 DEF MoveToNextDBPage, ToPage
  <2>8. Sees(buf, file, r, base', pos', j + 1, b, h2, b, Len(got'), left')
    BY <1>6, <2>4, <2>6, <2>7
  <2>9. reads' = reads /\ buf' = buf /\ file' = file
    BY <1>6 DEF writer
  <2> QED BY <1>2, <2>8, <2>9, SameBuffer
<1> QED BY <1>8, <1>9, <1>10

\* What is found at the end of a page whose last caplet is split.
LEMMA SplitIsHere ==
  ASSUME Reading, NEW n, NEW r, NEW j, NEW a, NEW h, NEW e, Shown(n, r, j, a, h, e), left <= 0,
         ~Flagged(h, "last"), Flagged(h, "spilled"), NEW b, a + PageSize = b
  PROVE  /\ b < Len(file)
         /\ \E id, len, part : /\ Start.id = id /\ Start.n = len /\ Part = part
                               /\ PartBytes = Payload(id, 0, part) /\ Len(got) + 1 = id
                               /\ Owes(file, written, offset, b, id, len, part)
<1>1. /\ Holding(file, written, offset)
      /\ Sees(buf, file, r, base, pos, j, a, h, e, Len(got), left)
  BY AtIt
<1>2. b < Len(file)
  BY <1>1, SeesSplit
<1>3. PICK id, len, part : /\ Finds(buf, pos, id, len, part) /\ Len(got) + 1 = id
                           /\ Owes(file, written, offset, b, id, len, part)
  BY <1>1, SeesSplit
<1>4. Start.id = id /\ Start.n = len /\ Part = part
  BY <1>3 DEF Finds, Start, Part
<1>5. PartBytes = Payload(id, 0, part)
  BY <1>3, <1>4 DEF Finds, PartBytes
<1> QED BY <1>2, <1>3, <1>4, <1>5

\* The start of a caplet that goes on in the next read.
LEMMA ReadPartStep ==
  ASSUME Reading, InPage, ReadPart
  PROVE  Reading' /\ Between'
<1>1. PICK n, r, j, a, h, e : Shown(n, r, j, a, h, e)
  BY DEF InPage
<1>2. /\ n \in Nat /\ n + 1 = reads /\ ReadAt(r, n) /\ r \in Nat
      /\ InBuf(base) /\ From(r, base, a) /\ HeaderAt(buf, base) = h
  BY <1>1, AtIt
<1>3. left <= 0 /\ ~Flagged(h, "last") /\ Flagged(h, "spilled")
  BY <1>2 DEF ReadPart, MoreReadings, Header
<1>4. PICK b : a + PageSize = b
  OBVIOUS
<1>5. PICK id, len, part : /\ Start.id = id /\ Start.n = len /\ Part = part
                           /\ PartBytes = Payload(id, 0, part) /\ Len(got) + 1 = id
                           /\ Owes(file, written, offset, b, id, len, part)
  BY <1>1, <1>3, <1>4, SplitIsHere
<1>6. id \in Nat /\ len \in Nat /\ part \in Nat /\ id >= 1
  BY <1>5 DEF Owes, Of
<1>7. reads' = reads /\ buf' = buf /\ got' = got /\ UNCHANGED writer
  BY DEF ReadPart
<1>8. Payload(id, 0, part) = mem' /\ [id |-> id, len |-> len, part |-> part] = pending'
  BY <1>5 DEF ReadPart
<1>9. pending' # NoCaplet
  BY <1>6, <1>8 DEF NoCaplet
<1>10. base + PageSize = BufSize
  <2>1. base \in Nat /\ PageSize \in Nat /\ BufSize \in Nat /\ base + PageSize <= BufSize
    BY <1>2, PageInBuf
  <2>2. BufSize - base <= PageSize
    BY DEF ReadPart
  <2> QED BY <2>1, <2>2
<1>11. ReadAt(b, reads)
  <2>1. r + BufSize = b
    BY <1>2, <1>4, <1>10, EndOfBuf
  <2> QED BY <1>2, <2>1, ReadAfter
<1>12. Unfinished(b)'
  <2>1. Owes(file', written', offset', b, id, len, part) /\ Len(got') + 1 = id
    BY <1>5, <1>7 DEF writer
  <2> QED BY <1>8, <2>1 DEF Unfinished
<1>13. NextRead(b)'
  <2>1. ReadAt(b, reads')
    BY <1>7, <1>11
  <2>2. b < Len(file')
    <3>1. b < Len(file)
      BY <1>1, <1>3, <1>4, SplitIsHere
    <3> QED BY <1>7, <3>1 DEF writer
  <2> QED BY <1>9, <1>12, <2>1, <2>2 DEF NextRead
<1>14. mem' \in Seq(Cells)
  <2>1. 0 \in Nat
    OBVIOUS
  <2> QED BY <1>6, <1>8, <2>1, PayloadCells
<1>15. Reading'
  <2>1. reads' \in Nat /\ buf' \in Seq(Cells) /\ Len(buf') = BufSize /\ AllRight(got', written)
    BY <1>7 DEF Reading, ReaderTyped, Known
  <2> QED BY <1>7, <1>14, <2>1, StillReading
<1> QED BY <1>13, <1>15 DEF Between

\* A caplet split between two pages of the buffer.
LEMMA ReadSplitStep ==
  ASSUME Reading, InPage, ReadSplit
  PROVE  Reading' /\ InPage'
<1>1. PICK n, r, j, a, h, e : Shown(n, r, j, a, h, e)
  BY DEF InPage
<1>2. /\ n \in Nat /\ n + 1 = reads /\ ReadAt(r, n) /\ r \in Nat /\ Holding(file, written, offset)
      /\ Shows(buf, file, r) /\ InBuf(base) /\ From(r, base, a) /\ HeaderAt(buf, base) = h
  BY <1>1, AtIt
<1>3. left <= 0 /\ ~Flagged(h, "last") /\ Flagged(h, "spilled")
  BY <1>2 DEF ReadSplit, SplitInBuffer, MoreReadings, Header
<1>4. PICK b : a + PageSize = b
  OBVIOUS
<1>5. PICK id, len, part : /\ Start.id = id /\ Start.n = len /\ Part = part
                           /\ PartBytes = Payload(id, 0, part) /\ Len(got) + 1 = id
                           /\ Owes(file, written, offset, b, id, len, part)
  BY <1>1, <1>3, <1>4, SplitIsHere
<1>6. b < Len(file)
  BY <1>1, <1>3, <1>4, SplitIsHere
<1>7. id \in Nat /\ len \in Nat /\ part \in Nat /\ part < len /\ Of(written, id, len)
  BY <1>5 DEF Owes
<1>8. base + PageSize # BufSize
  <2>1. base \in Nat /\ PageSize \in Nat /\ BufSize \in Nat
    BY <1>2, PageInBuf
  <2>2. BufSize - base > PageSize
    BY DEF ReadSplit, SplitInBuffer
  <2> QED BY <2>1, <2>2
<1>9. PICK x : base + PageSize = x
  OBVIOUS
<1>10. InBuf(x) /\ From(r, x, b)
  <2>1. InBuf(base + PageSize) /\ From(r, base + PageSize, a + PageSize)
    BY <1>2, <1>8, NextInBuf
  <2> QED BY <1>4, <1>9, <2>1
<1>11. PICK d : len - part = d
  OBVIOUS
<1>12. PICK h2 : HeaderAt(buf, x) = h2
  OBVIOUS
<1>13. /\ Cut(buf, x, d) = Payload(id, part, d) /\ d \in Nat
       /\ \E i : Sees(buf, file, r, x, x + d, i, b, h2, b + d, id, Starts(h2))
  BY <1>2, <1>5, <1>6, <1>10, <1>11, <1>12, SeesRest
<1>14. PICK i : Sees(buf, file, r, x, x + d, i, b, h2, b + d, id, Starts(h2))
  BY <1>13
<1>15. PICK m : Payload(id, 0, len) = m
  OBVIOUS
<1>16. m \in Seq(Cells)
  <2>1. 0 \in Nat
    OBVIOUS
  <2> QED BY <1>7, <1>15, <2>1, PayloadCells
<1>17. PICK y : SplitEntry(id, len, mem \o m) = y
  OBVIOUS
<1>18. mem \in Seq(Cells) /\ written \in Seq(Sizes) /\ AllRight(got, written)
  BY GotIs DEF Reading, ReaderTyped, Known
<1>19. y \in Entries /\ Right(y, written, id)
  BY <1>7, <1>15, <1>17, <1>18, SplitIsRight
<1>20. mem \o PartBytes \o SubSeq(buf, x + 1, x + d) = mem \o m
  <2>1. Payload(id, 0, part) \o Payload(id, part, d) = m
    <3>1. part + d = len
      BY <1>7, <1>11
    <3> QED BY <1>7, <1>13, <1>15, <3>1, PayloadJoins
  <2>2. SubSeq(buf, x + 1, x + d) = Payload(id, part, d)
    BY <1>13 DEF Cut
  <2>3. Payload(id, 0, part) \in Seq(Cells) /\ Payload(id, part, d) \in Seq(Cells)
    <3>1. 0 \in Nat
      OBVIOUS
    <3> QED BY <1>7, <1>13, <3>1, PayloadCells
  <2>4. (mem \o Payload(id, 0, part)) \o Payload(id, part, d) = mem \o (Payload(id, 0, part) \o Payload(id, part, d))
    BY <1>18, <2>3, Regroup
  <2> QED BY <1>5, <2>1, <2>2, <2>4
<1>21. reads' = reads /\ buf' = buf /\ UNCHANGED writer
  BY DEF ReadSplit
<1>22. mem' = mem \o m
  <2>1. mem' = mem \o PartBytes \o SubSeq(buf, x + 1, x + d)
    BY <1>5, <1>9, <1>11 DEF ReadSplit
  <2> QED BY <1>20, <2>1
<1>23. got' = Append(got, y)
  <2>1. got' = Append(got, Caplet(id, len, mem \o PartBytes \o SubSeq(buf, x + 1, x + d), 0, TRUE))
    BY <1>5, <1>9, <1>11 DEF ReadSplit
  <2>2. got' = Append(got, Caplet(id, len, mem \o m, 0, TRUE))
    BY <1>20, <2>1
  <2> QED BY <1>17, <2>2 DEF SplitEntry
<1>24. base' = x /\ pos' = x + d /\ left' = Starts(h2)
  BY <1>5, <1>9, <1>11, <1>12 DEF ReadSplit, ToPage
<1>25. AllRight(got', written) /\ Len(got') = id
  <2>1. AllRight(Append(got, y), written) /\ Len(Append(got, y)) = id
    BY <1>5, <1>18, <1>19, OneMore
  <2> QED BY <1>23, <2>1
<1>26. InPage'
  <2>1. Sees(buf, file, r, base', pos', i, b, h2, b + d, Len(got'), left')
    BY <1>14, <1>24, <1>25
  <2>2. file' = file
    BY <1>21 DEF writer
  <2> QED BY <1>2, <1>21, <2>1, <2>2, SameBuffer
<1>27. Reading'
  <2>1. mem' \in Seq(Cells)
    BY <1>16, <1>18, <1>22, Joins
  <2>2. reads' \in Nat /\ buf' \in Seq(Cells) /\ Len(buf') = BufSize
    BY <1>21 DEF Reading, ReaderTyped
  <2> QED BY <1>21, <1>25, <2>1, <2>2, StillReading
<1> QED BY <1>26, <1>27

\* Nothing was read yet.
Fresh == /\ got = << >> /\ reads = 0 /\ pending = NoCaplet /\ mem = << >>
         /\ buf \in Seq(Cells) /\ Len(buf) = BufSize

\* Who is at the file, and what is known.
LInv == /\ WInv
        /\ Writing => Drawn /\ Fresh
        /\ ~Writing => Reading
        /\ pc = "page" => InPage
        /\ pc = "closed" => Between
        /\ pc = "done" => Len(got) = Len(written)

\* The start of a file that was written.
LEMMA FileBegins ==
  ASSUME NEW z, NEW w, NEW o, Holding(z, w, o)
  PROVE  Count(z, 0) = 0 /\ Tight(z, 0, 0)
<1>1. PageLaid(z, 0, w, o)
  <2>1. 1 \in Nat \ {0} /\ (1 - 1) * PageSize = 0
    <3>1. \A p \in Nat : (1 - 1) * p = 0
      OBVIOUS
    <3> QED BY <3>1, Numbers
  <2>2. PageLaid(z, (1 - 1) * PageSize, w, o)
    BY <2>1 DEF Holding, Laid
  <2> QED BY <2>1, <2>2
<1>2. Begins(z, 0)
  BY <1>1 DEF PageLaid
<1>3. 0 <= Len(z) /\ ~(0 > 0)
  BY LenProperties DEF Holding
<1>4. Tight(z, 0, 0)
  BY <1>2, <1>3 DEF Begins
<1>5. Count(z, 0) = 0
  <2>1. StartsOf(z, 0, 0) = {}
    BY DEF StartsOf
  <2> QED BY <2>1, FS_EmptySet DEF Count
<1> QED BY <1>4, <1>5

\* Before anything is written.
LEMMA FreshStart ==
  ASSUME Init
  PROVE  Drawn /\ Fresh
<1>1. /\ pc = "idle" /\ written = << >> /\ offset = 0 /\ bytes = << >> /\ ret = << >> /\ file = << >>
      /\ reads = 0 /\ buf = Filler(MaxPages * PageSize) /\ pending = NoCaplet /\ mem = << >> /\ got = << >>
  BY DEF Init
<1>2. Made = << >>
  BY <1>1 DEF Made, Out
<1>3. Len(<< >>) = 0
  OBVIOUS
<1>4. PICK z, w, o : << >> = z /\ << >> = w /\ 0 = o /\ Len(z) = 0
  BY <1>3
<1>5. ASSUME NEW j \in Nat \ {0} PROVE PageLaid(z, (j - 1) * PageSize, w, o)
  <2>1. PICK a : (j - 1) * PageSize = a
    OBVIOUS
  <2>2. a \in Nat /\ PageSize \in Nat /\ PageSize >= 1
    BY <2>1, PageStart, Numbers
  <2>3. ASSUME NEW i \in Nat PROVE ~StartsAt(z, i, a)
    BY <1>4, <2>2 DEF StartsAt
  <2>4. SplitIn(z, a)
    BY <1>4, <2>2 DEF SplitIn
  <2>5. Begins(z, a)
    <3>1. ASSUME a <= Len(z) PROVE Tight(z, a, a)
      BY <1>4, <2>2, <3>1 DEF Tight
    <3> QED BY <3>1 DEF Begins
  <2>6. PageLaid(z, a, w, o)
    BY <2>3, <2>4, <2>5 DEF PageLaid
  <2> QED BY <2>1, <2>6
<1>6. Laid(z, w, o)
  BY <1>5 DEF Laid
<1>7. Laid(Made, written, offset)
  BY <1>1, <1>2, <1>4, <1>6
<1>8. Count(z, 0) = 0
  <2>1. StartsOf(z, 0, 0) = {}
    BY DEF StartsOf
  <2> QED BY <2>1, FS_EmptySet DEF Count
<1>9. Count(Made, Len(Made)) + Owed = Len(written)
  <2>1. Owed = 0
    BY <1>1 DEF Owed
  <2>2. Count(Made, Len(Made)) = 0
    BY <1>2, <1>4, <1>8
  <2>3. Len(written) = 0
    BY <1>1, <1>3
  <2> QED BY <2>1, <2>2, <2>3
<1>10. buf \in Seq(Cells) /\ Len(buf) = BufSize
  <2>1. Filler(BufSize) \in Seq(Cells) /\ Len(Filler(BufSize)) = BufSize
    BY Numbers, FillerIs DEF Dull
  <2>2. buf = Filler(BufSize)
    BY <1>1 DEF BufSize
  <2> QED BY <2>1, <2>2
<1> QED BY <1>1, <1>7, <1>9, <1>10 DEF Drawn, Fresh

\* The session ends: the file can be read.
LEMMA FinishRead ==
  ASSUME Packing, Drawn, Fresh, FinishWritingCaplets
  PROVE  Reading' /\ Between'
<1>1. UNCHANGED reader
  BY DEF FinishWritingCaplets
<1>2. /\ got' = << >> /\ reads' = 0 /\ pending' = NoCaplet /\ mem' = << >>
      /\ buf' \in Seq(Cells) /\ Len(buf') = BufSize
  BY <1>1 DEF Fresh, reader
<1>3. Laid(file', written', offset') /\ Count(file', Len(file')) = Len(written')
  BY FinishDrawn
<1>4. Typed' /\ Complete(file')
  BY FinishStep
<1>5. file' \in Seq(Cells) /\ written' \in Seq(Sizes)
  BY <1>4 DEF Typed
<1>6. Holding(file', written', offset')
  BY <1>3, <1>4, <1>5 DEF Holding
<1>7. AllRight(got', written')
  <2>1. << >> \in Seq(Entries) /\ Len(<< >>) = 0
    OBVIOUS
  <2> QED BY <1>2, <2>1 DEF AllRight
<1>8. ReaderTyped'
  <2>1. << >> \in Seq(Cells) /\ 0 \in Nat
    OBVIOUS
  <2> QED BY <1>2, <2>1 DEF ReaderTyped
<1>9. Clean(0)'
  <2>1. Len(got') = 0
    BY <1>2
  <2>2. Count(file', 0) = 0 /\ Tight(file', 0, 0)
    BY <1>6, FileBegins
  <2> QED BY <2>1, <2>2 DEF Clean
<1>10. ReadAt(0, reads')
  <2>1. \A m \in Nat : 0 = 0 * m
    OBVIOUS
  <2>2. 0 = 0 * BufSize /\ 0 \in Nat
    BY <2>1, Numbers
  <2> QED BY <1>2, <2>2 DEF ReadAt
<1>11. ASSUME ~(0 < Len(file')) PROVE Len(got') = Len(written')
  <2>1. Len(file') = 0
    <3>1. Len(file') \in Nat
      BY <1>5, LenProperties
    <3> QED BY <1>11, <3>1
  <2>2. Len(written') = 0
    BY <1>3, <1>6, <2>1, FileBegins
  <2> QED BY <1>2, <2>2
<1>12. NextRead(0)'
  BY <1>2, <1>9, <1>10, <1>11 DEF NextRead
<1>13. Reading'
  BY <1>3, <1>6, <1>7, <1>8 DEF Reading, Known
<1> QED BY <1>12, <1>13 DEF Between

\* The client is told that there is no more at the end of the file.
LEMMA NoMore ==
  ASSUME Reading, NEW d, ReadAt(d, reads), Chunk = << >>
  PROVE  ~(d < Len(file))
<1>1. PICK b \in Nat, n \in Nat, l \in Nat : BufSize = b /\ reads = n /\ Len(file) = l /\ b >= 1
  <2>1. BufSize \in Nat /\ BufSize >= 1
    <3>1. 0 \in Nat /\ 0 + PageSize <= BufSize /\ BufSize \in Nat
      BY FirstInBuf, PageInBuf
    <3> QED BY <3>1, Numbers
  <2>2. Len(file) \in Nat
    BY GotIs, LenProperties
  <2> QED BY <2>1, <2>2 DEF ReadAt
<1>2. d \in Nat /\ n * b = d /\ (n + 1) * b = d + b
  <2>1. ReadAt(d + BufSize, n + 1)
    BY <1>1, ReadAfter
  <2>2. (n + 1) * b = d + b
    BY <1>1, <2>1 DEF ReadAt
  <2> QED BY <1>1, <2>2 DEF ReadAt
<1>3. PICK m \in Nat : m = (IF d + b < l THEN d + b ELSE l)
  BY <1>2
<1>4. Chunk = SubSeq(file, d + 1, m)
  BY <1>1, <1>2, <1>3 DEF Chunk
<1>5. ASSUME d < l PROVE FALSE
  <2>1. PICK k \in Nat : d + k = m /\ k >= 1
    <3>1. m - d \in Nat /\ d + (m - d) = m /\ m - d >= 1
      BY <1>1, <1>2, <1>3, <1>5
    <3> QED BY <3>1
  <2>2. d + k <= Len(file)
    BY <1>1, <1>2, <1>3, <1>5, <2>1
  <2>3. Len(Cut(file, d, k)) = k
    BY <1>2, <2>2, GotIs, CutIs
  <2>4. Chunk = Cut(file, d, k)
    BY <1>4, <2>1 DEF Cut
  <2>5. Len(<< >>) = 0
    OBVIOUS
  <2> QED BY <2>1, <2>3, <2>4, <2>5
<1> QED BY <1>1, <1>5

\* The inductive invariant of writer and reader.
LEMMA ReaderInductive ==
  /\ Init => LInv
  /\ LInv /\ [Next]_vars => LInv'
<1>1. ASSUME Init PROVE LInv
  <2>1. WInv
    BY <1>1, Inductive
  <2>2. Drawn /\ Fresh
    BY <1>1, FreshStart
  <2>3. pc = "idle"
    BY <1>1 DEF Init
  <2> QED BY <2>1, <2>2, <2>3 DEF LInv, Writing
<1>2. ASSUME LInv, [Next]_vars PROVE LInv'
  <2>1. WInv'
    BY <1>2, Inductive DEF LInv
  <2>2. Writing => Packing /\ Drawn /\ Fresh
    BY <1>2 DEF LInv, WInv, Packing
  <2>3. ASSUME pc' \in {"idle", "pack"}, Drawn', Fresh' PROVE LInv'
    BY <2>1, <2>3 DEF LInv, Writing
  <2>4. ASSUME UNCHANGED reader, Fresh PROVE Fresh'
    BY <2>4 DEF Fresh, reader
  <2>5. ASSUME Reading', pc' = "page", InPage' PROVE LInv'
    BY <2>1, <2>5 DEF LInv, Writing
  <2>6. ASSUME Reading', pc' = "closed", Between' PROVE LInv'
    BY <2>1, <2>6 DEF LInv, Writing
  <2>7. ASSUME NEW len \in Sizes, AddCaplet(len) PROVE LInv'
    <3>1. pc = "idle" /\ pc' = "pack" /\ UNCHANGED reader
      BY <2>7 DEF AddCaplet
    <3>2. Packing /\ Drawn /\ Fresh
      BY <2>2, <3>1 DEF Writing
    <3>3. Drawn'
      BY <2>7, <3>2, AddCapletDrawn
    <3> QED BY <2>3, <2>4, <3>1, <3>2, <3>3
  <2>8. CASE Skip
    <3>1. pc = "pack" /\ pc' = pc /\ UNCHANGED reader
      BY <2>8 DEF Skip, NextPage
    <3>2. Packing /\ Drawn /\ Fresh
      BY <2>2, <3>1 DEF Writing
    <3>3. Drawn'
      BY <2>8, <3>2, SkipDrawn
    <3> QED BY <2>3, <2>4, <3>1, <3>2, <3>3
  <2>9. CASE Split
    <3>1. pc = "pack" /\ pc' = pc /\ UNCHANGED reader
      BY <2>9 DEF Split, NextPage
    <3>2. Packing /\ Drawn /\ Fresh
      BY <2>2, <3>1 DEF Writing
    <3>3. Drawn'
      BY <2>9, <3>2, SplitDrawn
    <3> QED BY <2>3, <2>4, <3>1, <3>2, <3>3
  <2>10. CASE Rest
    <3>1. pc = "pack" /\ pc' = "idle" /\ UNCHANGED reader
      BY <2>10 DEF Rest, Return
    <3>2. Packing /\ Drawn /\ Fresh
      BY <2>2, <3>1 DEF Writing
    <3>3. Drawn'
      BY <2>10, <3>2, RestDrawn
    <3> QED BY <2>3, <2>4, <3>1, <3>2, <3>3
  <2>11. CASE Whole
    <3>1. pc = "pack" /\ pc' = "idle" /\ UNCHANGED reader
      BY <2>11 DEF Whole, Return
    <3>2. Packing /\ Drawn /\ Fresh
      BY <2>2, <3>1 DEF Writing
    <3>3. Drawn'
      BY <2>11, <3>2, WholeDrawn
    <3> QED BY <2>3, <2>4, <3>1, <3>2, <3>3
  <2>12. CASE FinishWritingCaplets
    <3>1. pc = "idle" /\ pc' = "closed"
      BY <2>12 DEF FinishWritingCaplets
    <3>2. Packing /\ Drawn /\ Fresh
      BY <2>2, <3>1 DEF Writing
    <3>3. Reading' /\ Between'
      BY <2>12, <3>2, FinishRead
    <3> QED BY <2>6, <3>1, <3>3
  <2>13. ASSUME pc = "page" PROVE Reading /\ InPage
    BY <1>2, <2>13 DEF LInv, Writing
  <2>14. ASSUME pc = "closed" PROVE Reading /\ Between
    BY <1>2, <2>14 DEF LInv, Writing
  <2>15. CASE Read
    <3>1. pc = "closed" /\ pc' = "page" /\ (ReadPending \/ ReadFirst)
      BY <2>15 DEF Read
    <3>2. PICK d : NextRead(d)
      BY <2>14, <3>1 DEF Between
    <3>3. Reading
      BY <2>14, <3>1
    <3>4. Reading' /\ InPage'
      BY <2>15, <3>1, <3>2, <3>3, ReadFirstStep, ReadPendingStep
    <3> QED BY <2>5, <3>1, <3>4
  <2>16. CASE EndOfData
    <3>1. pc = "closed" /\ pc' = "done" /\ UNCHANGED <<writer, reader>>
      BY <2>16 DEF EndOfData
    <3>2. Reading
      BY <2>14, <3>1
    <3>3. Reading'
      BY <3>1, <3>2, StillReading DEF Reading, ReaderTyped, Known, reader
    <3>4. PICK d : NextRead(d)
      BY <2>14, <3>1 DEF Between
    <3>5. ~(d < Len(file))
      BY <2>16, <3>2, <3>4, NoMore DEF EndOfData, NextRead
    <3>6. Len(got) = Len(written)
      BY <3>4, <3>5 DEF NextRead
    <3>7. Len(got') = Len(written')
      BY <3>1, <3>6 DEF writer, reader
    <3> QED BY <2>1, <3>1, <3>3, <3>7 DEF LInv, Writing
  <2>17. CASE ReadCaplet
    <3>1. pc = "page" /\ pc' = pc
      BY <2>17 DEF ReadCaplet
    <3>2. Reading' /\ InPage'
      BY <2>13, <2>17, <3>1, ReadCapletStep
    <3> QED BY <2>5, <3>1, <3>2
  <2>18. CASE LastPage
    <3>1. pc = "page" /\ pc' = "closed"
      BY <2>18 DEF LastPage
    <3>2. Reading' /\ Between'
      BY <2>13, <2>18, <3>1, LastPageStep
    <3> QED BY <2>6, <3>1, <3>2
  <2>19. CASE MoveToNextDBPage
    <3>1. pc = "page" /\ IF base + PageSize = BufSize THEN pc' = "closed" ELSE pc' = pc
      BY <2>19 DEF MoveToNextDBPage, MoreReadings
    <3>2. Reading' /\ IF base + PageSize = BufSize THEN Between' ELSE InPage'
      BY <2>13, <2>19, <3>1, MoveToNextDBPageStep
    <3> QED BY <2>5, <2>6, <3>1, <3>2
  <2>20. CASE ReadSplit
    <3>1. pc = "page" /\ pc' = pc
      BY <2>20 DEF ReadSplit, SplitInBuffer, MoreReadings
    <3>2. Reading' /\ InPage'
      BY <2>13, <2>20, <3>1, ReadSplitStep
    <3> QED BY <2>5, <3>1, <3>2
  <2>21. CASE ReadPart
    <3>1. pc = "page" /\ pc' = "closed"
      BY <2>21 DEF ReadPart, MoreReadings
    <3>2. Reading' /\ Between'
      BY <2>13, <2>21, <3>1, ReadPartStep
    <3> QED BY <2>6, <3>1, <3>2
  <2>22. CASE UNCHANGED vars
    <3>1. pc' = pc /\ UNCHANGED writer /\ UNCHANGED reader
      BY <2>22 DEF vars
    <3>2. Writing' = Writing
      BY <3>1 DEF Writing
    <3>3. ASSUME Drawn PROVE Drawn'
      <4>1. Made' = Made /\ Owed' = Owed
        BY <3>1 DEF Made, Out, Owed, writer
      <4>2. written' = written /\ offset' = offset
        BY <3>1 DEF writer
      <4> QED BY <3>3, <4>1, <4>2 DEF Drawn
    <3>4. ASSUME Reading PROVE Reading'
      BY <3>1, <3>4, StillReading DEF Reading, ReaderTyped, Known, reader
    <3>5. ASSUME InPage PROVE InPage'
      <4>1. PICK n, r, j, a, h, e : Shown(n, r, j, a, h, e)
        BY <3>5 DEF InPage
      <4>2. Shown(n, r, j, a, h, e)'
        BY <3>1, <4>1 DEF Shown, writer, reader
      <4> QED BY <4>2 DEF InPage
    <3>6. ASSUME Between PROVE Between'
      <4>1. PICK d : NextRead(d)
        BY <3>6 DEF Between
      <4>2. Clean(d)' = Clean(d) /\ Unfinished(d)' = Unfinished(d)
        BY <3>1 DEF Clean, Unfinished, writer, reader
      <4>3. UNCHANGED <<reads, file, pending, got, written>>
        BY <3>1 DEF writer, reader
      <4>4. NextRead(d)'
        BY <4>1, <4>2, <4>3 DEF NextRead
      <4> QED BY <4>4 DEF Between
    <3>7. Writing' => Drawn' /\ Fresh'
      BY <1>2, <2>4, <3>1, <3>2, <3>3 DEF LInv
    <3>8. ~Writing' => Reading'
      BY <1>2, <3>2, <3>4 DEF LInv
    <3>9. Len(got') = Len(got) /\ Len(written') = Len(written)
      BY <3>1 DEF writer, reader
    <3> QED BY <1>2, <2>1, <3>1, <3>5, <3>6, <3>7, <3>8, <3>9 DEF LInv
  <2>24. CASE SpillAssert \/ NoObjectLeft
    <3>1. pc = "page" /\ pc' \in {"dead", "failed"} /\ UNCHANGED <<writer, reader>>
      BY <2>24 DEF SpillAssert, NoObjectLeft
    <3>2. Reading
      BY <2>13, <3>1
    <3>3. Reading'
      BY <3>1, <3>2, StillReading DEF Reading, ReaderTyped, Known, reader
    <3> QED BY <2>1, <3>1, <3>3 DEF LInv, Writing
  <2>23. CASE ReadBuffer
    BY <2>15, <2>16, <2>17, <2>18, <2>19, <2>20, <2>21, <2>24, <2>23 DEF ReadBuffer
  <2> QED BY <1>2, <2>7, <2>8, <2>9, <2>10, <2>11, <2>12, <2>22, <2>23 DEF Next, Write
<1> QED BY <1>1, <1>2

-----------------------------------------------------------------------------
(* Theorems.                                                               *)

\* What has been packed is where the page, its header and the message's offset say,
\* and every page that is over says what is in it and how it goes on.
THEOREM Invariant == Spec => []WInv
BY Inductive, PTL DEF Spec

\* Page.addCaplet and finishWritingRecord: the header of each page of the file
\* counts the caplets that start in it, and knows where the first does, whether
\* the last goes on in the next page and whether there is a next page.
THEOREM HeadersTrue == Spec => []HeadersExact
<1>1. WInv => HeadersExact
  <2>1. ASSUME WInv, Writing PROVE HeadersExact
    <3>1. Packing
      BY <2>1 DEF WInv, Packing
    <3>2. Exact(file, TRUE)
      BY <3>1, Written
    <3>3. Writing = TRUE
      BY <2>1 DEF Writing
    <3> QED BY <3>2, <3>3, ExactIs
  <2> QED BY <2>1 DEF WInv
<1> QED BY <1>1, Invariant, PTL

\* The file holds the caplets in the order they were added, each in one page or in
\* two with nothing in between, and the reader, as long as it is neither dead nor
\* failed, is where its numbers say: it has all the caplets before it, and the
\* memory for the one it is in.
THEOREM ReaderInvariant == Spec => []LInv
BY ReaderInductive, PTL DEF Spec

\* readNextCapletsIntoMsg: the caplets that are read come in the order they were
\* written, each with its length and its bytes among those stored in the message.
\* The payload a client gets is those bytes for a caplet in one page, or split
\* between two reads; of one split between two pages of a read the theorem says
\* nothing.  A client told that there is no more has all caplets; a reader that
\* dies on the assertion or runs out of caplet objects never gets there.
THEOREM ReadsBack == Spec => []ReadBack
<1>1. LInv => ReadBack
  <2>1. ASSUME LInv PROVE AllRight(got, written)
    <3>1. CASE Writing
      <4>1. got = << >>
        BY <2>1, <3>1 DEF LInv, Fresh
      <4>2. << >> \in Seq(Entries) /\ Len(<< >>) = 0
        OBVIOUS
      <4> QED BY <4>1, <4>2 DEF AllRight
    <3>2. CASE ~Writing
      BY <2>1, <3>2 DEF LInv, Reading, Known
    <3> QED BY <3>1, <3>2
  <2>2. ASSUME AllRight(got, written), NEW k \in 1 .. Len(got) PROVE Right(got[k], written, k)
    BY <2>2 DEF AllRight
  <2>3. ASSUME AllRight(got, written), pc = "done" => Len(got) = Len(written) PROVE ReadBack
    <3>1. ASSUME NEW k \in 1 .. Len(got)
          PROVE  /\ got[k].id = k /\ k <= Len(written) /\ got[k].len = written[k]
                 /\ got[k].stored = Payload(k, 0, written[k])
                 /\ ~got[k].split => got[k].payload = got[k].stored
      BY <2>2, <2>3 DEF Right
    <3> QED BY <2>3, <3>1 DEF ReadBack
  <2>4. ASSUME LInv PROVE pc = "done" => Len(got) = Len(written)
    BY <2>4 DEF LInv
  <2> QED BY <2>1, <2>3, <2>4
<1> QED BY <1>1, ReaderInvariant, PTL
=============================================================================
