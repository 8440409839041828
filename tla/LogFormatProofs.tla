-------------------------- MODULE LogFormatProofs --------------------------
(***************************************************************************)
(* The log, for any block and header size, any records, and any crash and  *)
(* damage: a reader returns records that were written, in order, all that  *)
(* the damage left, and reports nothing without damage.                    *)
(*                                                                         *)
(* A file alone does not tell what was written to it once cells are        *)
(* damaged, so the invariant speaks of a layout: the fragments that were   *)
(* written and not cut off, and where the file was cut.  The reader's      *)
(* position is always between two of them.                                 *)
(***************************************************************************)
EXTENDS LogFormat, TLAPS

-----------------------------------------------------------------------------
(* Blocks *)

\* The first offset of the block that offset x is in.
Base(x) == x - (x % kBlock)

\* What division and remainder by the block size mean.
LEMMA Division ==
  ASSUME NEW x \in Nat
  PROVE  /\ x \div kBlock \in Nat /\ x % kBlock \in 0 .. kBlock - 1
         /\ x = kBlock * (x \div kBlock) + (x % kBlock)
  BY LogAssumption, SMT

\* Multiples of the block size are a block apart.
LEMMA MultiplesApart ==
  ASSUME NEW a \in Nat, NEW b \in Nat, a < b
  PROVE  kBlock * a + kBlock <= kBlock * b
<1>1. PICK d \in Nat : b = a + 1 + d
  <2>1. b - a - 1 \in Nat /\ b = a + 1 + (b - a - 1)
    OBVIOUS
  <2> QED BY <2>1
<1>2. kBlock * b = kBlock * a + kBlock + kBlock * d
  BY <1>1, LogAssumption
<1>3. kBlock * d \in Nat /\ kBlock * a \in Nat
  BY LogAssumption
<1> QED BY <1>2, <1>3, LogAssumption

\* A base is a multiple of the block size.
LEMMA BaseIsMultiple ==
  ASSUME NEW x \in Nat
  PROVE  Base(x) = kBlock * (x \div kBlock) /\ Base(x) \in Nat
<1>1. kBlock * (x \div kBlock) \in Nat
  BY Division, LogAssumption
<1> QED BY <1>1, Division DEF Base

\* An offset is in its block.
LEMMA InBlock ==
  ASSUME NEW x \in Nat
  PROVE  Base(x) \in Nat /\ Base(x) <= x /\ x < Base(x) + kBlock
  BY BaseIsMultiple, Division, LogAssumption DEF Base

\* Two offsets are in the same block, or their blocks are a block apart.
LEMMA BlocksApart ==
  ASSUME NEW x \in Nat, NEW y \in Nat, x <= y
  PROVE  Base(x) = Base(y) \/ Base(x) + kBlock <= Base(y)
<1> DEFINE p == x \div kBlock
           q == y \div kBlock
<1>1. p \in Nat /\ q \in Nat
  BY Division
<1>2. Base(x) = kBlock * p /\ Base(y) = kBlock * q
  BY BaseIsMultiple
<1>3. CASE p < q
  BY <1>1, <1>2, <1>3, MultiplesApart
<1>4. CASE p = q
  BY <1>2, <1>4
<1>5. ~(q < p)
  <2> SUFFICES ASSUME q < p PROVE FALSE
    OBVIOUS
  <2>1. kBlock * q + kBlock <= kBlock * p
    BY <1>1, MultiplesApart
  <2> HIDE DEF p, q
  <2> QED BY <1>2, <2>1, InBlock, LogAssumption
<1> HIDE DEF p, q
<1> QED BY <1>1, <1>3, <1>4, <1>5

\* An offset between a base and the next one has that base.
LEMMA SameBlock ==
  ASSUME NEW x \in Nat, NEW y \in Nat, Base(y) <= x, x < Base(y) + kBlock
  PROVE  Base(x) = Base(y)
  BY BlocksApart, InBlock, LogAssumption

\* The next block begins a block later.
LEMMA NextBlock ==
  ASSUME NEW x \in Nat
  PROVE  Base(Base(x)) = Base(x) /\ Base(Base(x) + kBlock) = Base(x) + kBlock
<1> DEFINE y == Base(x) + kBlock
<1>1. y \in Nat
  BY InBlock, LogAssumption
<1>2. Base(Base(x)) = Base(x)
  BY InBlock, SameBlock, LogAssumption
<1>3. Base(y) # Base(x)
  BY <1>1, InBlock, LogAssumption
<1>4. x <= y
  BY <1>1, InBlock
<1>5. Base(x) + kBlock <= Base(y)
  BY <1>1, <1>3, <1>4, BlocksApart
<1>6. Base(y) <= y
  BY <1>1, InBlock
<1>7. Base(y) \in Nat /\ Base(x) \in Nat
  BY <1>1, InBlock
<1>8. Base(y) = y
  BY <1>1, <1>5, <1>6, <1>7, LogAssumption
<1> QED BY <1>2, <1>8

\* Cells in the same block have the same BlockOf.
LEMMA SameBlockOf ==
  ASSUME NEW i \in Nat \ {0}, NEW j \in Nat \ {0}, Base(i - 1) = Base(j - 1)
  PROVE  BlockOf(i) = BlockOf(j)
<1> DEFINE p == (i - 1) \div kBlock
           q == (j - 1) \div kBlock
<1>1. i - 1 \in Nat /\ j - 1 \in Nat
  OBVIOUS
<1>2. p \in Nat /\ q \in Nat
  BY <1>1, Division
<1>3. kBlock * p = kBlock * q
  BY <1>1, BaseIsMultiple
<1>4. p < q => kBlock * p + kBlock <= kBlock * q
  BY <1>2, MultiplesApart
<1>5. q < p => kBlock * q + kBlock <= kBlock * p
  BY <1>2, MultiplesApart
<1>6. kBlock * p \in Nat
  BY <1>2, LogAssumption
<1>7. p = q
  <2> HIDE DEF p, q
  <2> QED BY <1>2, <1>3, <1>4, <1>5, <1>6, LogAssumption
<1> QED BY <1>7 DEF BlockOf


-----------------------------------------------------------------------------
(* The layout of a file: a set of fragments, and the offset c at which a   *)
(* crash cut the file, 0 if none did.  A fragment that the cut goes        *)
(* through is the torn one; what was written after the crash begins there. *)

FragmentType == [at : Nat, rec : Nat, pos : Nat, n : Nat, type : 1 .. 4]

End(f) == f.at + kHeaderSize + f.n
Stop(f, c) == IF f.at < c /\ c < End(f) THEN c ELSE End(f)

\* The k-th cell of a fragment.
CellOf(f, k) == IF k = 1 THEN HeaderCell(f.n, f.type)
                ELSE IF k <= kHeaderSize THEN HeaderRest
                ELSE PayloadCell(f.rec, f.pos + k - kHeaderSize - 1)

Begins(f) == f.type \in {kFullType, kFirstType}
Finishes(f) == f.type \in {kFullType, kLastType}

\* f is the last fragment that begins before an offset.
LastBefore(L, f, at) == f.at < at /\ \A h \in L : h.at > f.at => h.at >= at

\* Fragments are inside the file and inside a block, and are parts of records.
Placed(L, c) ==
  \A f \in L : /\ Stop(f, c) <= Len(file)
               /\ End(f) <= Base(f.at) + kBlock
               /\ f.rec \in 1 .. Len(sizes)
               /\ f.pos + f.n <= sizes[f.rec]
               /\ Begins(f) => f.pos = 0
               /\ Finishes(f) => f.pos + f.n = sizes[f.rec]

\* Fragments follow each other without overlap, in the order of their records.
InOrder(L, c) ==
  \A f, g \in L : /\ f.at = g.at => f = g
                  /\ f.at < g.at => /\ Stop(f, c) <= g.at
                                    /\ f.rec <= g.rec
                                    /\ Finishes(f) \/ Begins(g) => f.rec < g.rec

\* A cell of a fragment is what was written, or damaged.
Written(L, c) ==
  \A f \in L : \A k \in 1 .. kHeaderSize + f.n :
    f.at + k <= Stop(f, c) => file[f.at + k] = Junk \/ file[f.at + k] = CellOf(f, k)

\* The other cells are in the trailer of a block.
Covered(L, c) ==
  \A i \in 1 .. Len(file) :
    \/ \E f \in L : f.at < i /\ i <= Stop(f, c)
    \/ file[i] \in {Zero, Junk} /\ i - 1 > Base(i - 1) + kBlock - kHeaderSize

DamageKnown == \A i \in 1 .. Len(file) : file[i] = Junk => i \in damaged

\* A fragment that does not begin a record comes right after the one it continues.
Chained(L) ==
  \A g \in L : ~Begins(g) => \E f \in L : /\ LastBefore(L, f, g.at) /\ ~Finishes(f)
                                          /\ f.rec = g.rec /\ f.pos + f.n = g.pos

\* A whole record has a first and a last fragment where starts and ends say.
WholeKnown(L, c) ==
  \A r \in 1 .. Len(sizes) : ends[r] # 0 =>
    /\ \E f \in L : f.rec = r /\ Begins(f) /\ f.at + 1 = starts[r]
    /\ \E f \in L : f.rec = r /\ Finishes(f) /\ Stop(f, c) = End(f) /\ End(f) = ends[r]

\* Unless a writer went on after a torn record, what another record follows is whole.
Followed(L) ==
  torn # "reused" => \A f, g \in L : f.rec < g.rec => \E h \in L : h.rec = f.rec /\ Finishes(h)

CutKnown(c) ==
  /\ c \in Nat /\ c <= Len(file)
  /\ torn = "no" => c = 0
  /\ torn = "crashed" => c = Len(file)

\* Where the writer is in its block.
WriterPlace ==
  torn # "crashed" => \/ writer.off < kBlock /\ Base(Len(file)) + writer.off = Len(file)
                      \/ writer.off = kBlock /\ Base(Len(file)) = Len(file)

\* Without a crash, all records but the one being written are whole.
OthersWhole(L) ==
  torn = "no" => \A f \in L : f.rec = writer.rec \/ \E h \in L : h.rec = f.rec /\ Finishes(h)

\* A record begun has its first fragment, and its latest ends where the rest begins.
Begun(L) ==
  /\ \E f \in L : f.rec = writer.rec /\ Begins(f) /\ f.at + 1 = starts[writer.rec]
  /\ \E f \in L : /\ f.rec = writer.rec /\ ~Finishes(f)
                  /\ f.pos + f.n = sizes[writer.rec] - writer.left
                  /\ \A g \in L : g.at <= f.at

\* Where the writer is in its record.
WriterProgress(L) ==
  writer.rec # 0 =>
    /\ torn # "crashed" /\ writer.rec = Len(sizes)
    /\ writer.left <= sizes[writer.rec] /\ ends[writer.rec] = 0
    /\ writer.begin => writer.left = sizes[writer.rec] /\ \A f \in L : f.rec < writer.rec
    /\ ~writer.begin => Begun(L)

WriterSound(L) == WriterPlace /\ OthersWhole(L) /\ WriterProgress(L)

CellType == {"zero", "junk", "header", "crc", "payload"} \X Nat \X Nat

FileTypes ==
  /\ file \in Seq(CellType)
  /\ writer \in [off : Nat, rec : Nat, left : Nat, begin : BOOLEAN]
  /\ sizes \in Seq(Nat) /\ starts \in Seq(Nat) /\ ends \in Seq(Nat)
  /\ Len(starts) = Len(sizes) /\ Len(ends) = Len(sizes)
  /\ torn \in {"no", "crashed", "reused"}

FileInv(L, c) ==
  /\ L \subseteq FragmentType
  /\ FileTypes /\ CutKnown(c)
  /\ Placed(L, c) /\ InOrder(L, c) /\ Written(L, c) /\ Covered(L, c) /\ DamageKnown
  /\ Chained(L) /\ WholeKnown(L, c) /\ Followed(L) /\ WriterSound(L)

-----------------------------------------------------------------------------
(* The writer *)

\* An empty file has an empty layout.
LEMMA InitFile == LogInit => FileInv({}, 0)
<1> SUFFICES ASSUME LogInit PROVE FileInv({}, 0)
  OBVIOUS
<1>1. FileTypes /\ CutKnown(0) /\ Len(file) = 0 /\ Len(sizes) = 0
  BY DEF LogInit, FileTypes, CutKnown
<1>2. Base(0) = 0
  BY InBlock
<1>3. WriterSound({})
  BY <1>1, <1>2, LogAssumption DEF LogInit, WriterSound, WriterPlace, OthersWhole,
                                   WriterProgress
<1> QED
  BY <1>1, <1>3 DEF LogInit, FileInv, Placed, InOrder, Written, Covered, DamageKnown, Chained,
                    WholeKnown, Followed

\* A record that is added has no fragment yet.
LEMMA AddRecordFile ==
  ASSUME NEW L, NEW c, FileInv(L, c), NEW size \in RecordSizes, AddRecord(size)
  PROVE  FileInv(L, c)'
<1> USE DEF FileInv
<1>1. /\ size \in Nat /\ writer.rec = 0 /\ torn # "crashed"
      /\ sizes' = Append(sizes, size) /\ starts' = Append(starts, 0) /\ ends' = Append(ends, 0)
      /\ UNCHANGED <<file, damaged, torn>>
  BY LogAssumption DEF AddRecord
<1>2. writer' = [off |-> writer.off, rec |-> Len(sizes) + 1, left |-> size, begin |-> TRUE]
  BY DEF AddRecord, FileTypes
<1>3. /\ FileTypes' /\ Len(sizes') = Len(sizes) + 1
      /\ sizes'[Len(sizes) + 1] = size /\ ends'[Len(sizes) + 1] = 0
      /\ \A r \in 1 .. Len(sizes) : sizes'[r] = sizes[r] /\ starts'[r] = starts[r] /\ ends'[r] = ends[r]
  BY <1>1, <1>2 DEF FileTypes
<1>4. CutKnown(c)' /\ InOrder(L, c)' /\ Written(L, c)' /\ Covered(L, c)' /\ DamageKnown'
        /\ Chained(L)' /\ Followed(L)'
  BY <1>1 DEF CutKnown, InOrder, Written, Covered, DamageKnown, Chained, Followed
<1>5. Placed(L, c)'
  <2>1. Len(sizes) \in Nat
    BY DEF FileTypes
  <2>2. 1 .. Len(sizes) \subseteq 1 .. Len(sizes')
    BY <1>3, <2>1
  <2>3. Placed(L, c)
    OBVIOUS
  <2> HIDE DEF FileInv
  <2> QED BY <1>1, <1>3, <2>2, <2>3 DEF Placed
<1>6. WholeKnown(L, c)'
  <2> SUFFICES ASSUME NEW r \in 1 .. Len(sizes'), ends'[r] # 0
               PROVE  /\ \E f \in L : f.rec = r /\ Begins(f) /\ f.at + 1 = starts'[r]
                      /\ \E f \in L : /\ f.rec = r /\ Finishes(f)
                                      /\ Stop(f, c) = End(f) /\ End(f) = ends'[r]
    BY DEF WholeKnown
  <2>1. Len(sizes) \in Nat /\ WholeKnown(L, c)
    BY DEF FileTypes
  <2> HIDE DEF FileInv
  <2>2. r \in 1 .. Len(sizes)
    <3>1. r # Len(sizes) + 1
      BY <1>3
    <3> QED BY <1>3, <2>1, <3>1
  <2>3. starts'[r] = starts[r] /\ ends'[r] = ends[r]
    BY <1>3, <2>2
  <2> QED BY <2>1, <2>2, <2>3 DEF WholeKnown
<1>7. WriterPlace'
  BY <1>1, <1>2 DEF WriterSound, WriterPlace
<1>8. OthersWhole(L)'
  <2>1. \A f \in L : f.rec # writer.rec
    BY <1>1 DEF Placed, FileTypes
  <2> QED BY <1>1, <2>1 DEF WriterSound, OthersWhole
<1>9. WriterProgress(L)'
  <2>1. \A f \in L : f.rec < Len(sizes) + 1
    BY DEF Placed, FileTypes
  <2>2. writer'.rec = Len(sizes) + 1 /\ writer'.left = size /\ writer'.begin = TRUE
    BY <1>2
  <2> QED BY <1>1, <1>3, <2>1, <2>2 DEF WriterProgress, FileTypes
<1> QED
  BY <1>3, <1>4, <1>5, <1>6, <1>7, <1>8, <1>9 DEF WriterSound


\* The elements of a concatenation.
LEMMA Concatenated ==
  ASSUME NEW S, NEW s \in Seq(S), NEW t \in Seq(S)
  PROVE  /\ s \o t \in Seq(S) /\ Len(s \o t) = Len(s) + Len(t)
         /\ \A i \in 1 .. Len(s) : (s \o t)[i] = s[i]
         /\ \A i \in 1 .. Len(t) : (s \o t)[Len(s) + i] = t[i]
  OBVIOUS

\* The payload of a fragment is a sequence of cells.
LEMMA PayloadCells ==
  ASSUME NEW g \in FragmentType
  PROVE  /\ [i \in 1 .. g.n |-> PayloadCell(g.rec, g.pos + i - 1)] \in Seq(CellType)
         /\ Len([i \in 1 .. g.n |-> PayloadCell(g.rec, g.pos + i - 1)]) = g.n
<1>1. \A i \in 1 .. g.n : PayloadCell(g.rec, g.pos + i - 1) \in CellType
  <2> SUFFICES ASSUME NEW i \in 1 .. g.n PROVE PayloadCell(g.rec, g.pos + i - 1) \in CellType
    OBVIOUS
  <2>1. g.pos + i - 1 \in Nat /\ g.rec \in Nat
    BY DEF FragmentType
  <2> QED BY <2>1 DEF PayloadCell, CellType
<1>2. g.n \in Nat
  BY DEF FragmentType
<1> QED BY <1>1, <1>2

\* The cells of a file to which a trailer and a fragment were appended.
Extended(f, m, g) == f \o [i \in 1 .. m |-> Zero] \o Fragment(g.rec, g.pos, g.n, g.type)

LEMMA AppendCells ==
  ASSUME NEW f \in Seq(CellType), NEW m \in Nat, NEW g \in FragmentType
  PROVE  LET new == Extended(f, m, g) IN
         /\ new \in Seq(CellType) /\ Len(new) = Len(f) + m + kHeaderSize + g.n
         /\ \A i \in 1 .. Len(f) : new[i] = f[i]
         /\ \A i \in Len(f) + 1 .. Len(f) + m : new[i] = Zero
         /\ \A k \in 1 .. kHeaderSize + g.n : new[Len(f) + m + k] = CellOf(g, k)
<1> DEFINE zeros == [i \in 1 .. m |-> Zero]
           head == << HeaderCell(g.n, g.type) >>
           rest == [i \in 1 .. kHeaderSize - 1 |-> HeaderRest]
           body == [i \in 1 .. g.n |-> PayloadCell(g.rec, g.pos + i - 1)]
<1>1. /\ zeros \in Seq(CellType) /\ Len(zeros) = m
      /\ \A i \in 1 .. m : zeros[i] = Zero
  BY DEF Zero, CellType
<1>2. /\ head \in Seq(CellType) /\ Len(head) = 1 /\ head[1] = HeaderCell(g.n, g.type)
  BY DEF HeaderCell, CellType, FragmentType
<1>3. /\ rest \in Seq(CellType) /\ Len(rest) = kHeaderSize - 1
      /\ \A i \in 1 .. kHeaderSize - 1 : rest[i] = HeaderRest
  BY LogAssumption DEF HeaderRest, CellType
<1>4. /\ body \in Seq(CellType) /\ Len(body) = g.n
      /\ \A i \in 1 .. g.n : body[i] = PayloadCell(g.rec, g.pos + i - 1)
  BY PayloadCells
<1> DEFINE frag == head \o rest \o body
<1> HIDE DEF zeros, head, rest, body
<1>5. /\ frag \in Seq(CellType) /\ Len(frag) = kHeaderSize + g.n
      /\ frag[1] = HeaderCell(g.n, g.type)
      /\ \A k \in 2 .. kHeaderSize : frag[k] = HeaderRest
      /\ \A k \in kHeaderSize + 1 .. kHeaderSize + g.n : frag[k] = body[k - kHeaderSize]
  <2>1. g.n \in Nat
    BY DEF FragmentType
  <2>2. /\ head \o rest \in Seq(CellType) /\ Len(head \o rest) = kHeaderSize
        /\ (head \o rest)[1] = HeaderCell(g.n, g.type)
        /\ \A k \in 1 .. kHeaderSize - 1 : (head \o rest)[1 + k] = HeaderRest
    <3>1. /\ head \o rest \in Seq(CellType) /\ Len(head \o rest) = Len(head) + Len(rest)
          /\ \A i \in 1 .. Len(head) : (head \o rest)[i] = head[i]
          /\ \A i \in 1 .. Len(rest) : (head \o rest)[Len(head) + i] = rest[i]
      <4>1. head \in Seq(CellType) /\ rest \in Seq(CellType)
        BY <1>2, <1>3
      <4> QED BY <4>1, Concatenated
    <3> QED BY <1>2, <1>3, <3>1, LogAssumption
  <2>3. \A k \in 2 .. kHeaderSize : (head \o rest)[k] = HeaderRest
    <3> SUFFICES ASSUME NEW k \in 2 .. kHeaderSize PROVE (head \o rest)[k] = HeaderRest
      OBVIOUS
    <3>1. k - 1 \in 1 .. kHeaderSize - 1 /\ 1 + (k - 1) = k
      BY LogAssumption
    <3> QED BY <2>2, <3>1
  <2> DEFINE hr == head \o rest
  <2> HIDE DEF hr
  <2>4. /\ hr \o body \in Seq(CellType) /\ Len(hr \o body) = kHeaderSize + g.n
        /\ \A k \in 1 .. kHeaderSize : (hr \o body)[k] = hr[k]
        /\ \A k \in 1 .. g.n : (hr \o body)[kHeaderSize + k] = body[k]
    <3>1. hr \in Seq(CellType) /\ Len(hr) = kHeaderSize
      BY <2>2 DEF hr
    <3>2. /\ hr \o body \in Seq(CellType) /\ Len(hr \o body) = Len(hr) + Len(body)
          /\ \A i \in 1 .. Len(hr) : (hr \o body)[i] = hr[i]
          /\ \A i \in 1 .. Len(body) : (hr \o body)[Len(hr) + i] = body[i]
      <4>1. hr \in Seq(CellType) /\ body \in Seq(CellType)
        BY <1>4, <3>1
      <4> QED BY <4>1, Concatenated
    <3> QED BY <1>4, <3>1, <3>2
  <2>5. \A k \in kHeaderSize + 1 .. kHeaderSize + g.n : (hr \o body)[k] = body[k - kHeaderSize]
    <3> SUFFICES ASSUME NEW k \in kHeaderSize + 1 .. kHeaderSize + g.n
                 PROVE  (hr \o body)[k] = body[k - kHeaderSize]
      OBVIOUS
    <3>1. k - kHeaderSize \in 1 .. g.n /\ kHeaderSize + (k - kHeaderSize) = k
      BY <2>1, LogAssumption
    <3> QED BY <2>4, <3>1
  <2>6. frag = hr \o body /\ 1 \in 1 .. kHeaderSize /\ \A k \in 2 .. kHeaderSize : k \in 1 .. kHeaderSize
    BY LogAssumption DEF hr
  <2>7. hr[1] = HeaderCell(g.n, g.type) /\ \A k \in 2 .. kHeaderSize : hr[k] = HeaderRest
    BY <2>2, <2>3 DEF hr
  <2> HIDE DEF frag
  <2> QED BY <2>4, <2>5, <2>6, <2>7
<1>6. \A k \in 1 .. kHeaderSize + g.n : frag[k] = CellOf(g, k)
  <2> SUFFICES ASSUME NEW k \in 1 .. kHeaderSize + g.n PROVE frag[k] = CellOf(g, k)
    OBVIOUS
  <2>1. CASE k = 1
    BY <1>5, <2>1 DEF CellOf
  <2>2. CASE k \in 2 .. kHeaderSize
    BY <1>5, <2>2, LogAssumption DEF CellOf
  <2>3. CASE k > kHeaderSize
    <3>1. k - kHeaderSize \in 1 .. g.n /\ k \in kHeaderSize + 1 .. kHeaderSize + g.n
      BY <2>3, LogAssumption DEF FragmentType
    <3>2. frag[k] = PayloadCell(g.rec, g.pos + (k - kHeaderSize) - 1)
      BY <1>4, <1>5, <3>1
    <3>3. g.pos + (k - kHeaderSize) - 1 = g.pos + k - kHeaderSize - 1
      BY <3>1, LogAssumption DEF FragmentType
    <3> QED BY <2>3, <3>1, <3>2, <3>3, LogAssumption DEF CellOf
  <2>4. k = 1 \/ k \in 2 .. kHeaderSize \/ k > kHeaderSize
    BY LogAssumption
  <2> QED BY <2>1, <2>2, <2>3, <2>4
<1>7. Fragment(g.rec, g.pos, g.n, g.type) = frag
  BY DEF Fragment, head, rest, body
<1> HIDE DEF frag
<1> DEFINE new == Extended(f, m, g)
<1>8. /\ new \in Seq(CellType) /\ Len(new) = Len(f) + m + kHeaderSize + g.n
      /\ \A i \in 1 .. Len(f) : new[i] = f[i]
      /\ \A i \in Len(f) + 1 .. Len(f) + m : new[i] = Zero
      /\ \A k \in 1 .. kHeaderSize + g.n : new[Len(f) + m + k] = frag[k]
  <2> DEFINE fz == f \o zeros
  <2>1. g.n \in Nat /\ kHeaderSize \in Nat
    BY LogAssumption DEF FragmentType
  <2>2. /\ fz \in Seq(CellType) /\ Len(fz) = Len(f) + m
        /\ \A i \in 1 .. Len(f) : fz[i] = f[i]
        /\ \A i \in 1 .. m : fz[Len(f) + i] = Zero
    <3>1. /\ fz \in Seq(CellType) /\ Len(fz) = Len(f) + Len(zeros)
          /\ \A i \in 1 .. Len(f) : fz[i] = f[i]
          /\ \A i \in 1 .. Len(zeros) : fz[Len(f) + i] = zeros[i]
      <4>1. zeros \in Seq(CellType)
        BY <1>1
      <4> QED BY <4>1, Concatenated
    <3> HIDE DEF fz
    <3> QED BY <1>1, <3>1
  <2>3. \A i \in Len(f) + 1 .. Len(f) + m : fz[i] = Zero
    <3> SUFFICES ASSUME NEW i \in Len(f) + 1 .. Len(f) + m PROVE fz[i] = Zero
      OBVIOUS
    <3>1. i - Len(f) \in 1 .. m /\ Len(f) + (i - Len(f)) = i
      OBVIOUS
    <3> QED BY <2>2, <3>1
  <2> HIDE DEF fz
  <2>4. /\ fz \o frag \in Seq(CellType) /\ Len(fz \o frag) = Len(f) + m + (kHeaderSize + g.n)
        /\ \A i \in 1 .. Len(f) + m : (fz \o frag)[i] = fz[i]
        /\ \A k \in 1 .. kHeaderSize + g.n : (fz \o frag)[Len(f) + m + k] = frag[k]
    <3>1. /\ fz \o frag \in Seq(CellType) /\ Len(fz \o frag) = Len(fz) + Len(frag)
          /\ \A i \in 1 .. Len(fz) : (fz \o frag)[i] = fz[i]
          /\ \A i \in 1 .. Len(frag) : (fz \o frag)[Len(fz) + i] = frag[i]
      <4>1. fz \in Seq(CellType) /\ frag \in Seq(CellType)
        BY <1>5, <2>2
      <4> QED BY <4>1, Concatenated
    <3> QED BY <1>5, <2>2, <3>1
  <2>5. Len(f) \in Nat
    OBVIOUS
  <2>6. /\ \A i \in 1 .. Len(f) : i \in 1 .. Len(f) + m
        /\ \A i \in Len(f) + 1 .. Len(f) + m : i \in 1 .. Len(f) + m
        /\ Len(f) + m + (kHeaderSize + g.n) = Len(f) + m + kHeaderSize + g.n
    BY <2>1, <2>5
  <2>7. new = fz \o frag
    BY <1>7 DEF fz, zeros, Extended
  <2> HIDE DEF new
  <2> QED BY <2>2, <2>3, <2>4, <2>6, <2>7
<1> QED
  BY <1>6, <1>8

\* The offsets of a block that has no room for a header are its trailer.
LEMMA TrailerCells ==
  ASSUME NEW len \in Nat, NEW off \in Nat, off < kBlock, Base(len) + off = len,
         kBlock - off < kHeaderSize, NEW i \in len + 1 .. len + (kBlock - off)
  PROVE  i - 1 > Base(i - 1) + kBlock - kHeaderSize
<1>1. i - 1 \in Nat /\ Base(len) \in Nat
  BY InBlock, LogAssumption
<1>2. Base(i - 1) = Base(len)
  <2>1. Base(len) <= i - 1 /\ i - 1 < Base(len) + kBlock
    BY <1>1, LogAssumption
  <2> QED BY <1>1, <2>1, SameBlock
<1> QED BY <1>1, <1>2, LogAssumption

\* Where a fragment that fits its block leaves the writer.
LEMMA WriterMoves ==
  ASSUME NEW at \in Nat, NEW off \in Nat, NEW n \in Nat, Base(at) + off = at,
         NEW len, len = at + kHeaderSize + n, NEW new, new = off + kHeaderSize + n, new <= kBlock
  PROVE  /\ len <= Base(at) + kBlock
         /\ (new < kBlock /\ Base(len) + new = len) \/ (new = kBlock /\ Base(len) = len)
<1>1. len \in Nat /\ Base(at) \in Nat /\ len = Base(at) + new /\ new \in Nat /\ new <= kBlock
  BY InBlock, LogAssumption
<1>2. CASE new < kBlock
  <2>1. Base(len) = Base(at)
    <3>1. Base(at) <= len /\ len < Base(at) + kBlock
      BY <1>1, <1>2, LogAssumption
    <3> QED BY <1>1, <3>1, SameBlock
  <2>2. Base(len) + new = len
    BY <1>1, <2>1
  <2>3. len <= Base(at) + kBlock
    BY <1>1, LogAssumption
  <2> QED BY <1>2, <2>2, <2>3
<1>3. CASE new = kBlock
  <2>1. Base(len) = len
    BY <1>1, <1>3, NextBlock
  <2> QED BY <1>1, <1>3, <2>1, LogAssumption
<1> QED BY <1>1, <1>2, <1>3, LogAssumption


\* What EmitFragment does, for the fragment g it appends.
Emitted(g) ==
  /\ g.rec = writer.rec /\ g.pos = sizes[writer.rec] - writer.left /\ g.n <= writer.left
  /\ Begins(g) <=> writer.begin
  /\ Finishes(g) <=> g.n = writer.left
  /\ Len(file) <= g.at /\ End(g) <= Base(g.at) + kBlock
  /\ file' \in Seq(CellType) /\ Len(file') = End(g)
  /\ \A i \in 1 .. Len(file) : file'[i] = file[i]
  /\ \A i \in Len(file) + 1 .. g.at :
       file'[i] = Zero /\ i - 1 > Base(i - 1) + kBlock - kHeaderSize
  /\ \A k \in 1 .. kHeaderSize + g.n : file'[g.at + k] = CellOf(g, k)
  /\ starts' = IF writer.begin THEN [starts EXCEPT ![writer.rec] = g.at + 1] ELSE starts
  /\ ends' = IF g.n = writer.left THEN [ends EXCEPT ![writer.rec] = End(g)] ELSE ends
  /\ writer' \in [off : Nat, rec : Nat, left : Nat, begin : BOOLEAN]
  /\ writer'.rec = IF g.n = writer.left THEN 0 ELSE writer.rec
  /\ writer'.left = writer.left - g.n /\ writer'.begin = FALSE
  /\ WriterPlace'
  /\ UNCHANGED <<sizes, damaged, torn>>

LEMMA EmitShape ==
  ASSUME NEW L, NEW c, FileInv(L, c), EmitFragment
  PROVE  \E g \in FragmentType : Emitted(g)
<1> DEFINE len == Len(file)
           m == IF kBlock - writer.off < kHeaderSize THEN kBlock - writer.off ELSE 0
           off == IF kBlock - writer.off < kHeaderSize THEN 0 ELSE writer.off
           avail == kBlock - off - kHeaderSize
           n == IF writer.left < avail THEN writer.left ELSE avail
           end == writer.left = n
           pos == sizes[writer.rec] - writer.left
           g == [at |-> len + m, rec |-> writer.rec, pos |-> pos, n |-> n,
                 type |-> RecordType(writer.begin, end)]
<1>1. /\ file \in Seq(CellType) /\ len \in Nat
      /\ writer \in [off : Nat, rec : Nat, left : Nat, begin : BOOLEAN]
      /\ sizes \in Seq(Nat) /\ Len(sizes) \in Nat
  BY DEF FileInv, FileTypes
<1>2. /\ writer.rec \in 1 .. Len(sizes) /\ sizes[writer.rec] \in Nat /\ writer.left \in Nat
      /\ writer.left <= sizes[writer.rec] /\ writer.off \in Nat /\ writer.begin \in BOOLEAN
      /\ torn # "crashed"
  BY <1>1 DEF FileInv, WriterSound, WriterProgress, EmitFragment
<1>3. \/ writer.off < kBlock /\ Base(len) + writer.off = len
      \/ writer.off = kBlock /\ Base(len) = len
  BY <1>2 DEF FileInv, WriterSound, WriterPlace
<1>4. m \in Nat /\ off \in Nat /\ avail \in Nat /\ n \in Nat /\ n <= writer.left
        /\ off + kHeaderSize + n <= kBlock /\ pos \in Nat
  <2>1. m \in Nat /\ off \in Nat /\ off + kHeaderSize <= kBlock /\ pos \in Nat
    BY <1>2, <1>3, LogAssumption
  <2> HIDE DEF off, m, pos
  <2>2. avail \in Nat /\ off + kHeaderSize + avail = kBlock
    BY <2>1, LogAssumption
  <2> HIDE DEF avail
  <2> QED BY <1>2, <2>1, <2>2, LogAssumption
<1>5. Base(len + m) + off = len + m
  <2>1. CASE ~(kBlock - writer.off < kHeaderSize)
    BY <1>1, <1>2, <1>3, <2>1, LogAssumption
  <2>2. CASE kBlock - writer.off < kHeaderSize /\ writer.off < kBlock
    <3>1. Base(Base(len) + kBlock) = Base(len) + kBlock /\ Base(len) \in Nat
      BY <1>1, NextBlock, InBlock
    <3>2. m = kBlock - writer.off /\ off = 0
      BY <2>2
    <3>3. len + m = Base(len) + kBlock
      BY <1>2, <1>3, <2>2, <3>1, <3>2, LogAssumption
    <3> HIDE DEF m, off, len
    <3> DEFINE at == Base(len) + kBlock
    <3>4. at \in Nat /\ Base(at) = at
      BY <3>1, LogAssumption
    <3>5. len + m = at
      BY <3>3
    <3> HIDE DEF at
    <3>6. Base(at) + off = at
      BY <3>2, <3>4
    <3> QED BY <3>5, <3>6
  <2>3. CASE writer.off = kBlock
    <3>1. m = 0 /\ off = 0
      <4>1. kBlock - writer.off = 0 /\ 0 < kHeaderSize
        BY <2>3, LogAssumption
      <4> QED BY <4>1
    <3>2. Base(len) = len
      <4>1. ~(writer.off < kBlock)
        BY <2>3, LogAssumption
      <4> QED BY <1>3, <4>1
    <3> HIDE DEF m, off
    <3> QED BY <1>1, <3>1, <3>2
  <2> QED BY <1>2, <1>3, <2>1, <2>2, <2>3, LogAssumption
<1>6. RecordType(writer.begin, end) \in 1 .. 4
  BY DEF RecordType, kFullType, kFirstType, kMiddleType, kLastType
<1>7. g \in FragmentType
  BY <1>1, <1>2, <1>4, <1>6 DEF FragmentType
<1>8. /\ g.at = len + m /\ g.rec = writer.rec /\ g.pos = pos /\ g.n = n
      /\ g.type = RecordType(writer.begin, end)
  OBVIOUS
<1>9. Begins(g) <=> writer.begin
  BY <1>2, <1>8 DEF Begins, RecordType, kFullType, kFirstType, kMiddleType, kLastType
<1>10. Finishes(g) <=> n = writer.left
  BY <1>2, <1>8 DEF Finishes, RecordType, kFullType, kFirstType, kMiddleType, kLastType
<1>11. /\ file' = file \o [i \in 1 .. m |-> Zero]
                       \o Fragment(writer.rec, pos, n, RecordType(writer.begin, end))
       /\ starts' = IF writer.begin
                    THEN [starts EXCEPT ![writer.rec] = len + Len([i \in 1 .. m |-> Zero]) + 1]
                    ELSE starts
       /\ ends' = IF end THEN [ends EXCEPT ![writer.rec] = Len(file')] ELSE ends
       /\ writer' = [off |-> off + kHeaderSize + n, rec |-> IF end THEN 0 ELSE writer.rec,
                     left |-> writer.left - n, begin |-> FALSE]
       /\ UNCHANGED <<sizes, damaged, torn>>
  BY DEF EmitFragment
<1>12. Len([i \in 1 .. m |-> Zero]) = m
  BY <1>4
<1>13. file' = file \o [i \in 1 .. m |-> Zero] \o Fragment(g.rec, g.pos, g.n, g.type)
  BY <1>8, <1>11
<1> HIDE DEF g
<1>14. /\ file' \in Seq(CellType) /\ Len(file') = Len(file) + m + kHeaderSize + g.n
       /\ \A i \in 1 .. Len(file) : file'[i] = file[i]
       /\ \A i \in Len(file) + 1 .. Len(file) + m : file'[i] = Zero
       /\ \A k \in 1 .. kHeaderSize + g.n : file'[Len(file) + m + k] = CellOf(g, k)
  <2>1. m \in Nat
    BY <1>4
  <2> HIDE DEF m
  <2>2. file' = Extended(file, m, g)
    BY <1>13 DEF Extended
  <2>3. file \in Seq(CellType)
    BY <1>1
  <2> QED BY <1>7, <2>1, <2>2, <2>3, AppendCells
<1>15. ASSUME NEW i \in len + 1 .. len + m
       PROVE  i - 1 > Base(i - 1) + kBlock - kHeaderSize
  <2>1. /\ kBlock - writer.off < kHeaderSize /\ m = kBlock - writer.off
        /\ i \in len + 1 .. len + (kBlock - writer.off)
    BY <1>1, <1>2, <1>4
  <2>2. writer.off < kBlock
    BY <1>1, <1>2, <1>3, <2>1, LogAssumption
  <2>3. Base(len) + writer.off = len
    BY <1>2, <1>3, <2>2, LogAssumption
  <2> HIDE DEF len, m
  <2> QED BY <1>1, <1>2, <2>1, <2>2, <2>3, TrailerCells
<1>16. /\ len + m + kHeaderSize + n <= Base(len + m) + kBlock
       /\ \/ /\ off + kHeaderSize + n < kBlock
             /\ Base(len + m + kHeaderSize + n) + (off + kHeaderSize + n) = len + m + kHeaderSize + n
          \/ /\ off + kHeaderSize + n = kBlock
             /\ Base(len + m + kHeaderSize + n) = len + m + kHeaderSize + n
  <2>1. len + m \in Nat
    BY <1>1, <1>4
  <2> DEFINE at == len + m
  <2> HIDE DEF len, m, off, n, at
  <2>2. at \in Nat /\ off \in Nat /\ n \in Nat /\ Base(at) + off = at /\ off + kHeaderSize + n <= kBlock
    BY <1>4, <1>5, <2>1 DEF at
  <2> DEFINE l == at + kHeaderSize + n
             w == off + kHeaderSize + n
  <2>3. l = at + kHeaderSize + n /\ w = off + kHeaderSize + n /\ w <= kBlock
    BY <2>2
  <2> HIDE DEF l, w
  <2>4. /\ l <= Base(at) + kBlock
        /\ (w < kBlock /\ Base(l) + w = l) \/ (w = kBlock /\ Base(l) = l)
    BY <2>2, <2>3, WriterMoves
  <2> QED BY <2>4 DEF at, l, w
<1>17. Len(file') = End(g) /\ End(g) = len + m + kHeaderSize + n
  BY <1>8, <1>14 DEF End
<1>18. WriterPlace'
  <2>1. writer'.off = off + kHeaderSize + n
    BY <1>11
  <2> HIDE DEF len, m, off, n
  <2> QED BY <1>16, <1>17, <2>1 DEF WriterPlace
<1>19. /\ writer' \in [off : Nat, rec : Nat, left : Nat, begin : BOOLEAN]
       /\ writer'.rec = IF n = writer.left THEN 0 ELSE writer.rec
       /\ writer'.left = writer.left - n /\ writer'.begin = FALSE
  <2>1. off + kHeaderSize + n \in Nat /\ writer.left - n \in Nat /\ writer.rec \in Nat
    <3> HIDE DEF off, n
    <3> QED BY <1>2, <1>4, LogAssumption
  <2>2. end <=> n = writer.left
    OBVIOUS
  <2> HIDE DEF off, n, end
  <2> QED BY <1>11, <2>1, <2>2
<1>20. /\ starts' = IF writer.begin THEN [starts EXCEPT ![writer.rec] = g.at + 1] ELSE starts
       /\ ends' = IF g.n = writer.left THEN [ends EXCEPT ![writer.rec] = End(g)] ELSE ends
  <2>1. end <=> g.n = writer.left
    BY <1>8
  <2> HIDE DEF len, m, end
  <2> QED BY <1>8, <1>11, <1>12, <1>17, <2>1
<1>21. Len(file) <= g.at /\ End(g) <= Base(g.at) + kBlock
  <2>1. len <= len + m
    BY <1>1, <1>4
  <2> HIDE DEF m, n
  <2> QED BY <1>8, <1>16, <1>17, <2>1
<1> HIDE DEF len, m, off, avail, n, end, pos
<1>22. Emitted(g)
  BY <1>4, <1>8, <1>9, <1>10, <1>11, <1>14, <1>15, <1>17, <1>18, <1>19, <1>20, <1>21
     DEF Emitted, len, pos
<1> QED BY <1>7, <1>22


\* A fragment has at least one cell.
LEMMA StopBounds ==
  ASSUME NEW f \in FragmentType, NEW c \in Nat
  PROVE  /\ f.at \in Nat /\ End(f) \in Nat /\ Stop(f, c) \in Nat
         /\ f.at < Stop(f, c) /\ Stop(f, c) <= End(f) /\ f.at + kHeaderSize <= End(f)
         /\ c <= f.at => Stop(f, c) = End(f)
  BY LogAssumption DEF FragmentType, Stop, End

\* What was there before an emitted fragment precedes it.
LEMMA EmittedLast ==
  ASSUME NEW L, NEW c, FileInv(L, c), NEW g \in FragmentType, Emitted(g), writer.rec # 0
  PROVE  /\ Stop(g, c) = End(g)
         /\ g.rec = Len(sizes)
         /\ \A f \in L : /\ f.at < g.at /\ Stop(f, c) <= g.at /\ f.rec <= g.rec
                         /\ Finishes(f) \/ Begins(g) => f.rec < g.rec
<1> USE DEF FileInv
<1>1. /\ Len(file) \in Nat /\ c \in Nat /\ c <= Len(file) /\ L \subseteq FragmentType
      /\ Len(sizes) \in Nat
  BY DEF FileTypes, CutKnown
<1>2. /\ g.rec = Len(sizes) /\ Len(file) <= g.at /\ g.rec = writer.rec
      /\ Begins(g) <=> writer.begin
  BY DEF Emitted, WriterSound, WriterProgress
<1>3. Stop(g, c) = End(g)
  <2>1. g.at \in Nat
    BY DEF FragmentType
  <2>2. c <= g.at
    BY <1>1, <1>2, <2>1
  <2> QED BY <1>1, <2>2, StopBounds
<1>4. ASSUME NEW f \in L
      PROVE  f.at < g.at /\ Stop(f, c) <= g.at /\ f.rec <= g.rec
  <2>1. Stop(f, c) <= Len(file) /\ f.rec <= Len(sizes)
    BY <1>1 DEF Placed
  <2>2. f.at < Stop(f, c) /\ f.at \in Nat /\ Stop(f, c) \in Nat /\ g.at \in Nat
    BY <1>1, StopBounds
  <2> QED BY <1>1, <1>2, <2>1, <2>2
<1>5. ASSUME NEW f \in L, Begins(g) PROVE f.rec < g.rec
  BY <1>2, <1>5 DEF WriterSound, WriterProgress
<1>6. ASSUME NEW f \in L, Finishes(f) PROVE f.rec < g.rec
  <2>1. CASE writer.begin
    BY <1>2, <1>5, <2>1
  <2>2. CASE ~writer.begin
    <3>1. PICK h \in L : h.rec = writer.rec /\ ~Finishes(h) /\ \A x \in L : x.at <= h.at
      BY <1>2, <2>2 DEF WriterSound, WriterProgress, Begun
    <3>2. f # h /\ f.at <= h.at /\ f.at \in Nat /\ h.at \in Nat
      BY <1>1, <1>6, <3>1, StopBounds
    <3>3. f.at < h.at
      BY <3>2 DEF InOrder
    <3>4. f.rec < h.rec
      BY <1>6, <3>3 DEF InOrder
    <3> QED BY <1>2, <3>1, <3>4
  <2> QED BY <2>1, <2>2
<1> QED BY <1>2, <1>3, <1>4, <1>5, <1>6

\* The layout of a file after EmitFragment: its fragment comes last.
LEMMA EmitLayout ==
  ASSUME NEW L, NEW c, FileInv(L, c), NEW g \in FragmentType, Emitted(g), writer.rec # 0
  PROVE  LET M == L \cup {g} IN
         Placed(M, c)' /\ InOrder(M, c)' /\ Written(M, c)' /\ Covered(M, c)' /\ DamageKnown'
           /\ Chained(M)'
<1> DEFINE M == L \cup {g}
<1>0. /\ Stop(g, c) = End(g) /\ g.rec = Len(sizes)
      /\ \A f \in L : /\ f.at < g.at /\ Stop(f, c) <= g.at /\ f.rec <= g.rec
                      /\ Finishes(f) \/ Begins(g) => f.rec < g.rec
  BY EmittedLast
<1> USE DEF FileInv
<1>1. /\ Len(file) \in Nat /\ c \in Nat /\ L \subseteq FragmentType /\ Len(sizes) \in Nat
      /\ kHeaderSize \in Nat /\ sizes \in Seq(Nat)
  BY LogAssumption DEF FileTypes, CutKnown
<1>2. /\ Stop(g, c) = End(g) /\ g.rec = Len(sizes) /\ g.rec = writer.rec /\ writer.rec \in Nat
      /\ \A f \in L : /\ f.at < g.at /\ Stop(f, c) <= g.at /\ f.rec <= g.rec
                      /\ Finishes(f) \/ Begins(g) => f.rec < g.rec
  BY <1>0 DEF Emitted, FileTypes
<1>3. /\ Len(file) <= g.at /\ End(g) <= Base(g.at) + kBlock /\ sizes' = sizes
      /\ Len(file') = End(g) /\ \A i \in 1 .. Len(file) : file'[i] = file[i]
      /\ Begins(g) <=> writer.begin
      /\ Finishes(g) <=> g.n = writer.left
      /\ g.pos = sizes[writer.rec] - writer.left /\ g.n <= writer.left
  BY DEF Emitted
<1>4. /\ g.at \in Nat /\ End(g) \in Nat /\ g.at < End(g) /\ Len(file) <= End(g)
      /\ End(g) = g.at + kHeaderSize + g.n /\ g.n \in Nat /\ g.pos \in Nat
  <2>1. g.at \in Nat /\ End(g) \in Nat /\ g.at < End(g)
    BY <1>1, <1>2, StopBounds
  <2> QED BY <1>1, <1>3, <2>1 DEF End, FragmentType
<1>5. \A f \in L : Stop(f, c) <= Len(file) /\ Stop(f, c) \in Nat /\ f.at \in Nat /\ f.at < Stop(f, c)
  BY <1>1, StopBounds DEF Placed
<1>6. Placed(M, c)'
  <2> SUFFICES ASSUME NEW f \in M
               PROVE  /\ Stop(f, c) <= Len(file')
                      /\ End(f) <= Base(f.at) + kBlock
                      /\ f.rec \in 1 .. Len(sizes)
                      /\ f.pos + f.n <= sizes[f.rec]
                      /\ Begins(f) => f.pos = 0
                      /\ Finishes(f) => f.pos + f.n = sizes[f.rec]
    BY <1>3 DEF Placed
  <2>1. CASE f \in L
    <3>1. Stop(f, c) <= Len(file')
      BY <1>1, <1>3, <1>4, <1>5, <2>1
    <3> QED BY <2>1, <3>1 DEF Placed
  <2>2. CASE f = g
    <3>1. sizes[writer.rec] \in Nat /\ writer.left \in Nat /\ writer.rec \in 1 .. Len(sizes)
      <4>1. writer.rec \in 1 .. Len(sizes)
        BY <1>1, <1>2
      <4>2. writer.left \in Nat
        BY DEF FileTypes
      <4> QED BY <1>1, <4>1, <4>2
    <3>2. writer.left <= sizes[writer.rec] /\ (writer.begin => writer.left = sizes[writer.rec])
      BY DEF WriterSound, WriterProgress
    <3>3. g.pos + g.n <= sizes[g.rec] /\ (Begins(g) => g.pos = 0)
            /\ (Finishes(g) => g.pos + g.n = sizes[g.rec])
      BY <1>2, <1>3, <1>4, <3>1, <3>2
    <3> QED BY <1>2, <1>3, <1>4, <2>2, <3>1, <3>3
  <2> QED BY <2>1, <2>2
<1>7. InOrder(M, c)'
  <2> SUFFICES ASSUME NEW f \in M, NEW h \in M
               PROVE  /\ f.at = h.at => f = h
                      /\ f.at < h.at => /\ Stop(f, c) <= h.at
                                        /\ f.rec <= h.rec
                                        /\ Finishes(f) \/ Begins(h) => f.rec < h.rec
    BY DEF InOrder
  <2>1. CASE f \in L /\ h \in L
    BY <2>1 DEF InOrder
  <2>2. CASE f \in L /\ h = g
    BY <1>2, <1>4, <1>5, <2>2
  <2>3. CASE f = g /\ h \in L
    BY <1>2, <1>4, <1>5, <2>3
  <2>4. CASE f = g /\ h = g
    BY <1>4, <2>4
  <2> QED BY <2>1, <2>2, <2>3, <2>4
<1>8. Written(M, c)'
  <2> SUFFICES ASSUME NEW f \in M, NEW k \in 1 .. kHeaderSize + f.n, f.at + k <= Stop(f, c)
               PROVE  file'[f.at + k] = Junk \/ file'[f.at + k] = CellOf(f, k)
    BY DEF Written
  <2>1. CASE f \in L
    <3>1. f.at + k \in 1 .. Len(file)
      BY <1>1, <1>5, <2>1 DEF FragmentType
    <3>2. file'[f.at + k] = file[f.at + k]
      BY <1>3, <3>1
    <3> QED BY <2>1, <3>2 DEF Written
  <2>2. CASE f = g
    BY <2>2 DEF Emitted
  <2> QED BY <2>1, <2>2
<1>9. ASSUME NEW i \in 1 .. Len(file')
      PROVE  \/ i \in 1 .. Len(file)
             \/ i \in Len(file) + 1 .. g.at
             \/ i - g.at \in 1 .. kHeaderSize + g.n /\ g.at < i /\ i <= End(g) /\ g.at + (i - g.at) = i
  <2>1. i \in Nat /\ 1 <= i /\ i <= g.at + kHeaderSize + g.n
    BY <1>3, <1>4
  <2>2. CASE i <= Len(file)
    BY <1>1, <2>1, <2>2
  <2>3. CASE i > Len(file) /\ i <= g.at
    BY <1>1, <1>4, <2>1, <2>3
  <2>4. CASE i > g.at
    BY <1>1, <1>4, <2>1, <2>4
  <2> QED BY <1>1, <1>4, <2>1, <2>2, <2>3, <2>4
<1>10. Covered(M, c)'
  <2> SUFFICES ASSUME NEW i \in 1 .. Len(file')
               PROVE  \/ \E f \in M : f.at < i /\ i <= Stop(f, c)
                      \/ file'[i] \in {Zero, Junk} /\ i - 1 > Base(i - 1) + kBlock - kHeaderSize
    BY DEF Covered
  <2>1. CASE i \in 1 .. Len(file)
    BY <1>3, <2>1 DEF Covered
  <2>2. CASE i \in Len(file) + 1 .. g.at
    BY <2>2 DEF Emitted
  <2>3. CASE g.at < i /\ i <= End(g)
    BY <1>2, <2>3
  <2> QED BY <1>9, <2>1, <2>2, <2>3
<1>11. DamageKnown'
  <2> SUFFICES ASSUME NEW i \in 1 .. Len(file'), file'[i] = Junk PROVE i \in damaged
    BY DEF DamageKnown, Emitted
  <2>1. CASE i \in 1 .. Len(file)
    BY <1>3, <2>1 DEF DamageKnown
  <2>2. CASE i \in Len(file) + 1 .. g.at
    BY <2>2 DEF Emitted, Zero, Junk
  <2>3. CASE i - g.at \in 1 .. kHeaderSize + g.n /\ g.at + (i - g.at) = i
    <3>1. file'[i] = CellOf(g, i - g.at)
      BY <2>3 DEF Emitted
    <3> QED BY <3>1 DEF CellOf, HeaderCell, HeaderRest, PayloadCell, Junk
  <2> QED BY <1>9, <2>1, <2>2, <2>3
<1>12. Chained(M)'
  <2> SUFFICES ASSUME NEW f \in M, ~Begins(f)
               PROVE  \E e \in M : /\ LastBefore(M, e, f.at) /\ ~Finishes(e)
                                   /\ e.rec = f.rec /\ e.pos + e.n = f.pos
    BY DEF Chained, LastBefore
  <2>1. CASE f \in L
    <3>1. PICK e \in L : /\ LastBefore(L, e, f.at) /\ ~Finishes(e)
                         /\ e.rec = f.rec /\ e.pos + e.n = f.pos
      BY <2>1 DEF Chained
    <3>2. g.at >= f.at
      BY <1>2, <1>4, <1>5, <2>1
    <3>3. LastBefore(M, e, f.at)
      BY <3>1, <3>2 DEF LastBefore
    <3> QED BY <3>1, <3>3
  <2>2. CASE f = g
    <3>1. PICK e \in L : /\ e.rec = writer.rec /\ ~Finishes(e)
                         /\ e.pos + e.n = sizes[writer.rec] - writer.left
                         /\ \A h \in L : h.at <= e.at
      BY <1>3, <2>2 DEF WriterSound, WriterProgress, Begun
    <3>2. \A h \in M : h.at > e.at => h.at >= g.at
      BY <1>4, <1>5, <3>1
    <3>3. LastBefore(M, e, g.at)
      BY <1>2, <3>2 DEF LastBefore
    <3> QED BY <1>2, <1>3, <2>2, <3>1, <3>3
  <2> QED BY <2>1, <2>2
<1> QED
  BY <1>6, <1>7, <1>8, <1>10, <1>11, <1>12


\* EmitFragment preserves the invariant of the file.
LEMMA EmitFile ==
  ASSUME NEW L, NEW c, FileInv(L, c), EmitFragment
  PROVE  \E M : FileInv(M, c)'
<1>1. PICK g \in FragmentType : Emitted(g)
  BY EmitShape
<1>2. writer.rec # 0
  BY DEF EmitFragment
<1> DEFINE M == L \cup {g}
<1>3. Placed(M, c)' /\ InOrder(M, c)' /\ Written(M, c)' /\ Covered(M, c)' /\ DamageKnown'
        /\ Chained(M)'
  BY <1>1, <1>2, EmitLayout
<1>4. /\ Stop(g, c) = End(g) /\ g.rec = Len(sizes)
      /\ \A f \in L : /\ f.at < g.at /\ Stop(f, c) <= g.at /\ f.rec <= g.rec
                      /\ Finishes(f) \/ Begins(g) => f.rec < g.rec
  BY <1>1, <1>2, EmittedLast
<1> USE DEF FileInv
<1>5. /\ g.rec = writer.rec /\ sizes' = sizes /\ torn' = torn
      /\ Len(file) <= g.at /\ Len(file') = End(g) /\ file' \in Seq(CellType)
      /\ Begins(g) <=> writer.begin
      /\ Finishes(g) <=> g.n = writer.left
      /\ g.pos = sizes[writer.rec] - writer.left /\ g.n <= writer.left
      /\ starts' = IF writer.begin THEN [starts EXCEPT ![writer.rec] = g.at + 1] ELSE starts
      /\ ends' = IF g.n = writer.left THEN [ends EXCEPT ![writer.rec] = End(g)] ELSE ends
      /\ writer' \in [off : Nat, rec : Nat, left : Nat, begin : BOOLEAN]
      /\ writer'.rec = IF g.n = writer.left THEN 0 ELSE writer.rec
      /\ writer'.left = writer.left - g.n /\ writer'.begin = FALSE
      /\ WriterPlace'
  BY <1>1 DEF Emitted
<1>6. /\ Len(file) \in Nat /\ c \in Nat /\ c <= Len(file) /\ L \subseteq FragmentType
      /\ sizes \in Seq(Nat) /\ starts \in Seq(Nat) /\ ends \in Seq(Nat)
      /\ Len(starts) = Len(sizes) /\ Len(ends) = Len(sizes)
      /\ torn \in {"no", "crashed", "reused"}
      /\ writer.left \in Nat
  BY DEF FileTypes, CutKnown
<1>7. /\ g.at \in Nat /\ End(g) \in Nat /\ g.at < End(g) /\ Len(file) <= End(g)
      /\ g.n \in Nat /\ g.pos \in Nat
  <2>1. g.at \in Nat /\ End(g) \in Nat /\ g.at < End(g)
    BY <1>4, <1>6, StopBounds
  <2> QED BY <1>5, <1>6, <2>1 DEF FragmentType
<1>8. /\ torn # "crashed" /\ writer.rec = Len(sizes) /\ writer.rec \in 1 .. Len(sizes)
      /\ writer.left <= sizes[writer.rec] /\ sizes[writer.rec] \in Nat /\ ends[writer.rec] = 0
      /\ ~writer.begin => Begun(L)
  <2>1. /\ torn # "crashed" /\ writer.rec = Len(sizes)
        /\ writer.left <= sizes[writer.rec] /\ ends[writer.rec] = 0
        /\ ~writer.begin => Begun(L)
    BY <1>2 DEF WriterSound, WriterProgress
  <2>2. writer.rec \in 1 .. Len(sizes)
    BY <1>2, <1>6, <2>1
  <2> QED BY <1>6, <2>1, <2>2
<1>9. starts' \in Seq(Nat) /\ Len(starts') = Len(sizes)
  <2>1. g.at + 1 \in Nat
    BY <1>7
  <2> QED BY <1>5, <1>6, <1>8, <2>1
<1>10. ends' \in Seq(Nat) /\ Len(ends') = Len(sizes)
  BY <1>5, <1>6, <1>7, <1>8
<1>11. FileTypes' /\ CutKnown(c)'
  <2>1. FileTypes'
    BY <1>5, <1>6, <1>9, <1>10 DEF FileTypes
  <2>2. c <= Len(file') /\ torn' # "crashed"
    BY <1>5, <1>6, <1>7, <1>8
  <2>3. torn' = "no" => c = 0
    BY <1>5 DEF CutKnown
  <2> QED BY <1>6, <2>1, <2>2, <2>3 DEF CutKnown
<1>12. M \subseteq FragmentType
  BY <1>6
\* The first fragment of the record is known from now on.
<1>13. \E f \in M : f.rec = writer.rec /\ Begins(f) /\ f.at + 1 = starts'[writer.rec]
  <2>1. CASE writer.begin
    <3>1. starts'[writer.rec] = g.at + 1
      BY <1>5, <1>6, <1>8, <2>1
    <3> QED BY <1>5, <2>1, <3>1
  <2>2. CASE ~writer.begin
    BY <1>5, <1>8, <2>2 DEF Begun
  <2> QED BY <2>1, <2>2
<1>14. WholeKnown(M, c)'
  <2> SUFFICES ASSUME NEW r \in 1 .. Len(sizes), ends'[r] # 0
               PROVE  /\ \E f \in M : f.rec = r /\ Begins(f) /\ f.at + 1 = starts'[r]
                      /\ \E f \in M : /\ f.rec = r /\ Finishes(f)
                                      /\ Stop(f, c) = End(f) /\ End(f) = ends'[r]
    BY <1>5 DEF WholeKnown
  <2>1. CASE r = writer.rec
    <3>1. g.n = writer.left
      BY <1>5, <1>8, <2>1
    <3>2. ends'[r] = End(g)
      BY <1>5, <1>6, <1>8, <2>1, <3>1
    <3> QED BY <1>4, <1>5, <1>13, <2>1, <3>1, <3>2
  <2>2. CASE r # writer.rec
    <3>1. starts'[r] = starts[r]
      BY <1>5, <1>6, <1>8, <2>2
    <3>2. ends'[r] = ends[r]
      BY <1>5, <1>6, <1>8, <2>2
    <3> QED BY <3>1, <3>2 DEF WholeKnown
  <2> QED BY <2>1, <2>2
<1>15. torn' = "no" => \A f \in M : f.rec = writer.rec \/ \E h \in L : h.rec = f.rec /\ Finishes(h)
  BY <1>5 DEF WriterSound, OthersWhole
<1>16. Followed(M)'
  <2> SUFFICES ASSUME torn' # "reused", NEW f \in M, NEW h \in M, f.rec < h.rec
               PROVE  \E e \in M : e.rec = f.rec /\ Finishes(e)
    BY DEF Followed
  <2>1. torn' = "no"
    BY <1>5, <1>6, <1>8
  <2>2. h.rec <= writer.rec
    BY <1>4, <1>5, <1>6, <1>8
  <2>3. f.rec \in Nat /\ h.rec \in Nat
    BY <1>12 DEF FragmentType
  <2>4. writer.rec \in Nat
    BY <1>6, <1>8
  <2>5. f.rec # writer.rec
    <3> HIDE DEF FileInv, M
    <3> QED BY <2>2, <2>3, <2>4
  <2> QED BY <1>15, <2>1, <2>5
<1>17. OthersWhole(M)'
  <2> SUFFICES ASSUME torn' = "no", NEW f \in M
               PROVE  f.rec = writer'.rec \/ \E h \in M : h.rec = f.rec /\ Finishes(h)
    BY DEF OthersWhole
  <2>1. CASE f.rec # writer.rec
    BY <1>15, <2>1
  <2>2. CASE f.rec = writer.rec /\ g.n = writer.left
    BY <1>5, <2>2
  <2>3. CASE f.rec = writer.rec /\ g.n # writer.left
    BY <1>5, <2>3
  <2> QED BY <2>1, <2>2, <2>3
<1>18. WriterProgress(M)'
  <2> SUFFICES ASSUME writer'.rec # 0
               PROVE  /\ torn' # "crashed" /\ writer'.rec = Len(sizes)
                      /\ writer'.left <= sizes[writer.rec] /\ ends'[writer.rec] = 0
                      /\ writer'.rec = writer.rec /\ Begun(M)'
    BY <1>5 DEF WriterProgress
  <2>1. g.n # writer.left /\ writer'.rec = writer.rec /\ ends' = ends
    BY <1>5
  <2>2. ~Finishes(g)
    BY <1>5, <2>1
  <2>3. g.pos + g.n = sizes[writer.rec] - (writer.left - g.n)
    <3>1. /\ g.pos = sizes[writer.rec] - writer.left /\ sizes[writer.rec] \in Nat
          /\ writer.left \in Nat /\ g.n \in Nat
      BY <1>5, <1>6, <1>7, <1>8
    <3> DEFINE s == sizes[writer.rec]
    <3>2. g.pos = s - writer.left /\ s \in Nat
      BY <3>1
    <3> HIDE DEF FileInv, s
    <3>3. g.pos + g.n = s - (writer.left - g.n)
      BY <3>1, <3>2
    <3> QED BY <3>3 DEF s
  <2>4. \A h \in M : h.at <= g.at
    BY <1>4, <1>6, <1>7 DEF FragmentType
  <2>5. Begun(M)'
    <3>1. \E f \in M : /\ f.rec = writer.rec /\ ~Finishes(f)
                       /\ f.pos + f.n = sizes[writer.rec] - (writer.left - g.n)
                       /\ \A h \in M : h.at <= f.at
      BY <1>5, <2>2, <2>3, <2>4
    <3> QED BY <1>5, <1>13, <2>1, <3>1 DEF Begun
  <2> QED BY <1>5, <1>6, <1>7, <1>8, <2>1, <2>5
<1>19. FileInv(M, c)'
  BY <1>3, <1>5, <1>11, <1>12, <1>14, <1>16, <1>17, <1>18 DEF WriterSound
<1> QED BY <1>19


\* A crash keeps the fragments that begin before the end of what is left.
LEMMA CrashFile ==
  ASSUME NEW L, NEW c, FileInv(L, c), NEW n \in 0 .. Len(file), LogCrash(n)
  PROVE  \E M : FileInv(M, n)'
<1> USE DEF FileInv
<1> DEFINE M == {f \in L : f.at < n}
<1>1. /\ file \in Seq(CellType) /\ Len(file) \in Nat /\ n \in Nat /\ n <= Len(file) /\ c = 0
      /\ L \subseteq FragmentType
      /\ sizes \in Seq(Nat) /\ starts \in Seq(Nat) /\ ends \in Seq(Nat)
      /\ Len(starts) = Len(sizes) /\ Len(ends) = Len(sizes) /\ torn = "no"
  BY DEF FileTypes, CutKnown, LogCrash
<1>2. /\ file' = SubSeq(file, 1, n)
      /\ writer' = [off |-> 0, rec |-> 0, left |-> 0, begin |-> FALSE]
      /\ ends' = [r \in DOMAIN ends |-> IF ends[r] > n THEN 0 ELSE ends[r]]
      /\ torn' = "crashed"
      /\ UNCHANGED <<sizes, starts, damaged>>
  BY DEF LogCrash
<1>3. /\ file' \in Seq(CellType) /\ Len(file') = n
      /\ \A i \in 1 .. n : file'[i] = file[i] /\ i \in 1 .. Len(file)
  BY <1>1, <1>2
<1>4. /\ ends' \in Seq(Nat) /\ Len(ends') = Len(sizes)
      /\ \A r \in 1 .. Len(sizes) : ends'[r] # 0 => ends[r] <= n /\ ends'[r] = ends[r] /\ ends[r] \in Nat
  <2>1. DOMAIN ends = 1 .. Len(sizes) /\ Len(sizes) \in Nat /\ \A r \in 1 .. Len(sizes) : ends[r] \in Nat
    BY <1>1
  <2>2. ends' = [r \in 1 .. Len(sizes) |-> IF ends[r] > n THEN 0 ELSE ends[r]]
    BY <1>2, <2>1
  <2>3. ends' \in Seq(Nat) /\ Len(ends') = Len(sizes)
    BY <2>1, <2>2
  <2>4. \A r \in 1 .. Len(sizes) : ends'[r] # 0 => ends[r] <= n /\ ends'[r] = ends[r] /\ ends[r] \in Nat
    BY <1>1, <2>1, <2>2
  <2> QED BY <2>3, <2>4
<1>5. FileTypes' /\ CutKnown(n)' /\ WriterSound(M)'
  BY <1>1, <1>2, <1>3, <1>4 DEF FileTypes, CutKnown, WriterSound, WriterPlace, OthersWhole,
                                WriterProgress
<1>6. \A f \in L : /\ f.at \in Nat /\ End(f) \in Nat /\ Stop(f, c) = End(f) /\ Stop(f, n) <= End(f)
                   /\ f.at < n => Stop(f, n) <= n /\ Stop(f, n) \in Nat
                   /\ End(f) <= n => Stop(f, n) = End(f)
                   /\ \A i \in Nat : i <= n /\ i <= End(f) => i <= Stop(f, n)
                   /\ f.at < End(f)
  BY <1>1, LogAssumption DEF FragmentType, Stop, End
<1>7. Placed(M, n)'
  BY <1>1, <1>2, <1>3, <1>6 DEF Placed
<1>8. InOrder(M, n)'
  <2> SUFFICES ASSUME NEW f \in M, NEW h \in M
               PROVE  /\ f.at = h.at => f = h
                      /\ f.at < h.at => /\ Stop(f, n) <= h.at
                                        /\ f.rec <= h.rec
                                        /\ Finishes(f) \/ Begins(h) => f.rec < h.rec
    BY DEF InOrder
  <2>1. f.at < h.at => Stop(f, n) <= h.at
    <3>1. f.at < h.at => End(f) <= h.at
      BY <1>6 DEF InOrder
    <3> QED BY <1>1, <1>6, <3>1
  <2> QED BY <2>1 DEF InOrder
<1>9. Written(M, n)'
  <2> SUFFICES ASSUME NEW f \in M, NEW k \in 1 .. kHeaderSize + f.n, f.at + k <= Stop(f, n)
               PROVE  file'[f.at + k] = Junk \/ file'[f.at + k] = CellOf(f, k)
    BY DEF Written
  <2>1. kHeaderSize + f.n \in Nat
    BY <1>1, LogAssumption DEF FragmentType
  <2>2. f.at + k \in 1 .. n /\ f.at + k <= End(f)
    BY <1>1, <1>6, <2>1
  <2>3. file'[f.at + k] = file[f.at + k]
    BY <1>3, <2>2
  <2> QED BY <1>6, <2>2, <2>3 DEF Written
<1>10. Covered(M, n)'
  <2> SUFFICES ASSUME NEW i \in 1 .. n
               PROVE  \/ \E f \in M : f.at < i /\ i <= Stop(f, n)
                      \/ file'[i] \in {Zero, Junk} /\ i - 1 > Base(i - 1) + kBlock - kHeaderSize
    BY <1>3 DEF Covered
  <2>1. CASE \E f \in L : f.at < i /\ i <= Stop(f, c)
    <3>1. PICK f \in L : f.at < i /\ i <= End(f)
      BY <1>6, <2>1
    <3>2. f.at < n /\ i <= Stop(f, n)
      BY <1>1, <1>6, <3>1
    <3> QED BY <3>1, <3>2
  <2>2. CASE file[i] \in {Zero, Junk} /\ i - 1 > Base(i - 1) + kBlock - kHeaderSize
    BY <1>3, <2>2
  <2> QED BY <1>3, <2>1, <2>2 DEF Covered
<1>11. DamageKnown'
  BY <1>2, <1>3 DEF DamageKnown
<1>12. Chained(M)'
  <2> SUFFICES ASSUME NEW f \in M, ~Begins(f)
               PROVE  \E e \in M : /\ LastBefore(M, e, f.at) /\ ~Finishes(e)
                                   /\ e.rec = f.rec /\ e.pos + e.n = f.pos
    BY DEF Chained, LastBefore
  <2>1. PICK e \in L : /\ LastBefore(L, e, f.at) /\ ~Finishes(e)
                       /\ e.rec = f.rec /\ e.pos + e.n = f.pos
    BY DEF Chained
  <2>2. e.at < n
    BY <1>1, <1>6, <2>1 DEF LastBefore
  <2> QED BY <2>1, <2>2 DEF LastBefore
<1>13. WholeKnown(M, n)'
  <2> SUFFICES ASSUME NEW r \in 1 .. Len(sizes), ends'[r] # 0
               PROVE  /\ \E f \in M : f.rec = r /\ Begins(f) /\ f.at + 1 = starts[r]
                      /\ \E f \in M : /\ f.rec = r /\ Finishes(f)
                                      /\ Stop(f, n) = End(f) /\ End(f) = ends'[r]
    BY <1>2 DEF WholeKnown
  <2>1. ends[r] <= n /\ ends'[r] = ends[r] /\ ends[r] # 0
    BY <1>4
  <2>2. PICK e \in L : e.rec = r /\ Finishes(e) /\ End(e) = ends[r]
    BY <2>1 DEF WholeKnown
  <2>3. PICK f \in L : f.rec = r /\ Begins(f) /\ f.at + 1 = starts[r]
    BY <2>1 DEF WholeKnown
  <2>4. e.at < n /\ Stop(e, n) = End(e)
    BY <1>1, <1>6, <2>1, <2>2
  <2>5. ~(e.at < f.at)
    <3>1. e.at < f.at => e.rec < f.rec
      BY <2>3 DEF InOrder
    <3>2. e.rec \in Nat
      BY <1>1 DEF FragmentType
    <3> QED BY <2>2, <2>3, <3>1, <3>2
  <2>6. f.at < n
    BY <1>1, <1>6, <2>4, <2>5
  <2> QED BY <2>1, <2>2, <2>3, <2>4, <2>6
<1>14. Followed(M)'
  <2> SUFFICES ASSUME NEW f \in M, NEW g \in M, f.rec < g.rec
               PROVE  \E h \in M : h.rec = f.rec /\ Finishes(h)
    BY DEF Followed
  <2>1. PICK h \in L : h.rec = f.rec /\ Finishes(h)
    BY <1>1 DEF Followed
  <2>2. h.rec \in Nat /\ g.rec \in Nat
    BY <1>1 DEF FragmentType
  <2>3. h.at < g.at
    <3>1. g.at < h.at => g.rec <= h.rec
      BY DEF InOrder
    <3>2. g.at = h.at => g = h
      BY DEF InOrder
    <3> QED BY <1>6, <2>1, <2>2, <3>1, <3>2
  <2>4. h.at < n
    BY <1>1, <1>6, <2>3
  <2> QED BY <2>1, <2>4
<1>15. FileInv(M, n)'
  BY <1>1, <1>5, <1>7, <1>8, <1>9, <1>10, <1>11, <1>12, <1>13, <1>14
<1> QED BY <1>15

\* A writer that goes on is at the end of the file.
LEMMA ReuseFile ==
  ASSUME NEW L, NEW c, FileInv(L, c), Reuse
  PROVE  FileInv(L, c)'
<1> USE DEF FileInv
<1>1. /\ torn = "crashed" /\ torn' = "reused" /\ UNCHANGED <<file, sizes, starts, ends, damaged>>
      /\ writer' = [writer EXCEPT !.off = Len(file) % kBlock]
  BY DEF Reuse
<1>2. Len(file) \in Nat /\ writer \in [off : Nat, rec : Nat, left : Nat, begin : BOOLEAN]
  BY DEF FileTypes
<1>3. Len(file) % kBlock \in 0 .. kBlock - 1 /\ Base(Len(file)) + (Len(file) % kBlock) = Len(file)
  <2>1. Len(file) % kBlock \in 0 .. kBlock - 1
    BY <1>2, Division
  <2> QED BY <1>2, <2>1, LogAssumption DEF Base
<1>4. /\ writer' \in [off : Nat, rec : Nat, left : Nat, begin : BOOLEAN]
      /\ writer'.off = Len(file) % kBlock /\ writer'.rec = writer.rec
  <2>1. Len(file) % kBlock \in Nat
    BY <1>3, LogAssumption
  <2> QED BY <1>1, <1>2, <2>1
<1>5. writer.rec = 0
  BY <1>1 DEF WriterSound, WriterProgress
<1>6. WriterSound(L)'
  <2>1. writer'.off < kBlock /\ Base(Len(file)) + writer'.off = Len(file)
    BY <1>3, <1>4, LogAssumption
  <2> QED BY <1>1, <1>4, <1>5, <2>1 DEF WriterSound, WriterPlace, OthersWhole, WriterProgress
<1>7. FileTypes' /\ CutKnown(c)' /\ Followed(L)'
  BY <1>1, <1>4 DEF FileTypes, CutKnown, Followed
<1>8. Placed(L, c)' /\ InOrder(L, c)' /\ Written(L, c)' /\ Covered(L, c)' /\ DamageKnown'
        /\ Chained(L)' /\ WholeKnown(L, c)'
  BY <1>1 DEF Placed, InOrder, Written, Covered, DamageKnown, Chained, WholeKnown
<1> QED BY <1>6, <1>7, <1>8

\* Damage changes a cell to junk and is known.
LEMMA DamageFile ==
  ASSUME NEW L, NEW c, FileInv(L, c), NEW i \in DOMAIN file, DamageCell(i)
  PROVE  FileInv(L, c)'
<1> USE DEF FileInv
<1>1. /\ file' = [file EXCEPT ![i] = Junk] /\ damaged' = damaged \cup {i}
      /\ UNCHANGED <<writer, sizes, starts, ends, torn>>
  BY DEF DamageCell
<1>2. /\ file' \in Seq(CellType) /\ Len(file') = Len(file)
      /\ \A k \in 1 .. Len(file) : file'[k] = IF k = i THEN Junk ELSE file[k]
  <2>1. file \in Seq(CellType) /\ Junk \in CellType
    BY DEF FileTypes, Junk, CellType
  <2> QED BY <1>1, <2>1
<1>3. FileTypes' /\ CutKnown(c)' /\ Followed(L)' /\ WriterSound(L)' /\ Placed(L, c)'
        /\ InOrder(L, c)' /\ Chained(L)' /\ WholeKnown(L, c)'
  BY <1>1, <1>2 DEF FileTypes, CutKnown, Followed, WriterSound, WriterPlace, OthersWhole,
                    WriterProgress, Begun, Placed, InOrder, Chained, WholeKnown
<1>4. Written(L, c)'
  <2> SUFFICES ASSUME NEW f \in L, NEW k \in 1 .. kHeaderSize + f.n, f.at + k <= Stop(f, c)
               PROVE  file'[f.at + k] = Junk \/ file'[f.at + k] = CellOf(f, k)
    BY DEF Written
  <2>1. f \in FragmentType /\ c \in Nat /\ Len(file) \in Nat
    BY DEF CutKnown, FileTypes
  <2>2. Stop(f, c) \in Nat /\ f.at \in Nat /\ Stop(f, c) <= Len(file) /\ kHeaderSize + f.n \in Nat
    <3>1. Stop(f, c) \in Nat /\ f.at \in Nat
      BY <2>1, StopBounds
    <3>2. Stop(f, c) <= Len(file)
      BY DEF Placed
    <3>3. kHeaderSize + f.n \in Nat
      BY <2>1, LogAssumption DEF FragmentType
    <3> QED BY <3>1, <3>2, <3>3
  <2>3. f.at + k \in 1 .. Len(file)
    BY <2>1, <2>2
  <2>4. file[f.at + k] = Junk \/ file[f.at + k] = CellOf(f, k)
    BY DEF Written
  <2> QED BY <1>2, <2>3, <2>4
<1>5. Covered(L, c)'
  BY <1>2 DEF Covered
<1>6. DamageKnown'
  BY <1>1, <1>2 DEF DamageKnown
<1> QED BY <1>3, <1>4, <1>5, <1>6


-----------------------------------------------------------------------------
(* The reader *)

ReaderType ==
  [pc : {"read", "done"}, initial : Nat, at : Nat, end : Nat, eof : BOOLEAN, resyncing : BOOLEAN,
   in_fragment : BOOLEAN, scratch : Seq(CellType), out : Seq(Seq(CellType)), reports : Nat]

\* The first q cells of a record.
Prefix(r, q) == [i \in 1 .. q |-> PayloadCell(r, i - 1)]

\* The buffer is the rest of a block, or of the file.
BufferSound ==
  /\ rdr.at <= rdr.end
  /\ rdr.at < rdr.end => rdr.end = IF Base(rdr.at) + kBlock <= Len(file)
                                   THEN Base(rdr.at) + kBlock ELSE Len(file)
  /\ ~rdr.eof => Base(rdr.end) = rdr.end
  /\ rdr.eof => Len(file) <= rdr.end

\* The reader is never inside a fragment.
BetweenFragments(L, c) == \A f \in L : Stop(f, c) <= rdr.at \/ rdr.at <= f.at

\* What was gathered of a record is its beginning, up to the fragment just read.
ScratchSound(L) ==
  rdr.pc = "read" /\ rdr.in_fragment =>
    \E f \in L : /\ ~Finishes(f) /\ LastBefore(L, f, rdr.at)
                 /\ rdr.scratch = Prefix(f.rec, f.pos + f.n)

\* What was returned are records in order, all before the fragments still to read.
OutSound(L) ==
  \E pick \in [DOMAIN rdr.out -> DOMAIN sizes] :
    /\ \A i \in DOMAIN rdr.out : rdr.out[i] = Contents2(pick[i])
    /\ \A i, j \in DOMAIN rdr.out : i < j => pick[i] < pick[j]
    /\ \A i \in DOMAIN rdr.out : \A g \in L : rdr.at <= g.at => pick[i] < g.rec

\* The records that LossConfined is about.
InScope(r) == Complete(r) /\ starts[r] - 1 >= rdr.initial /\ ~Touched(r)

\* Those behind the reader were returned, and of one it is inside of it has the beginning.
NothingLost ==
  torn # "reused" => \A r \in DOMAIN sizes : InScope(r) =>
    /\ ends[r] <= rdr.at => \E i \in DOMAIN rdr.out : rdr.out[i] = Contents2(r)
    /\ starts[r] - 1 < rdr.at /\ rdr.at < ends[r] => rdr.in_fragment
    /\ rdr.pc = "done" => ends[r] <= rdr.at

\* In an undamaged file read from its start, the reader is inside of a record
\* exactly when its last fragment was not the end of one.
Quiet(L) ==
  torn # "reused" /\ damaged = {} /\ rdr.initial = 0 =>
    /\ rdr.reports = 0
    /\ rdr.pc = "read" => \A f \in L : LastBefore(L, f, rdr.at) /\ ~Finishes(f) => rdr.in_fragment

ReaderInv(L, c) ==
  /\ rdr \in ReaderType /\ writer.rec = 0
  /\ rdr.resyncing => ~rdr.in_fragment /\ rdr.initial > 0
  /\ BufferSound /\ BetweenFragments(L, c) /\ ScratchSound(L) /\ OutSound(L) /\ NothingLost
  /\ Quiet(L)

\* A fragment is on one side of the beginning of a block.
LEMMA FragmentsInBlocks ==
  ASSUME NEW L, NEW c, FileInv(L, c), NEW f \in L, NEW x \in Nat, Base(x) = x
  PROVE  End(f) <= x \/ x <= f.at
<1> SUFFICES ASSUME f.at < x PROVE End(f) <= x
  <2>1. f.at \in Nat
    BY DEF FileInv, FragmentType
  <2> QED BY <2>1
<1>1. f.at \in Nat /\ End(f) \in Nat /\ Base(f.at) \in Nat /\ Base(f.at) <= f.at
  <2>1. f \in FragmentType /\ c \in Nat
    BY DEF FileInv, CutKnown
  <2>2. f.at \in Nat /\ End(f) \in Nat
    BY <2>1, StopBounds
  <2> QED BY <2>2, InBlock
<1>2. End(f) <= Base(f.at) + kBlock
  BY DEF FileInv, Placed
<1>3. Base(f.at) = Base(x) \/ Base(f.at) + kBlock <= Base(x)
  BY <1>1, BlocksApart
<1>4. Base(f.at) + kBlock <= x
  BY <1>1, <1>3
<1> QED BY <1>1, <1>2, <1>4, LogAssumption

\* The types of the history of a record, and of the layout.
LEMMA RecordTypes ==
  ASSUME NEW L, NEW c, FileInv(L, c)
  PROVE  /\ Len(file) \in Nat /\ c \in Nat /\ DOMAIN sizes = 1 .. Len(sizes)
         /\ \A r \in DOMAIN sizes : r \in Nat /\ sizes[r] \in Nat /\ starts[r] \in Nat /\ ends[r] \in Nat
         /\ \A f \in L : /\ f \in FragmentType /\ f.at \in Nat /\ f.n \in Nat /\ f.pos \in Nat
                         /\ f.rec \in DOMAIN sizes /\ f.rec \in Nat
                         /\ End(f) \in Nat /\ Stop(f, c) \in Nat
                         /\ f.at < Stop(f, c) /\ Stop(f, c) <= End(f) /\ f.at + kHeaderSize <= End(f)
<1>1. /\ Len(file) \in Nat /\ c \in Nat /\ L \subseteq FragmentType
      /\ sizes \in Seq(Nat) /\ starts \in Seq(Nat) /\ ends \in Seq(Nat)
      /\ Len(starts) = Len(sizes) /\ Len(ends) = Len(sizes)
  BY DEF FileInv, FileTypes, CutKnown
<1>2. DOMAIN sizes = 1 .. Len(sizes)
  BY <1>1
<1>3. ASSUME NEW r \in DOMAIN sizes
      PROVE  r \in Nat /\ sizes[r] \in Nat /\ starts[r] \in Nat /\ ends[r] \in Nat
  BY <1>1
<1>4. ASSUME NEW f \in L
      PROVE  /\ f \in FragmentType /\ f.at \in Nat /\ f.n \in Nat /\ f.pos \in Nat
             /\ f.rec \in DOMAIN sizes /\ f.rec \in Nat
             /\ End(f) \in Nat /\ Stop(f, c) \in Nat
             /\ f.at < Stop(f, c) /\ Stop(f, c) <= End(f) /\ f.at + kHeaderSize <= End(f)
  <2>1. f \in FragmentType /\ f.rec \in 1 .. Len(sizes)
    BY <1>1 DEF FileInv, Placed
  <2>2. /\ End(f) \in Nat /\ Stop(f, c) \in Nat
        /\ f.at < Stop(f, c) /\ Stop(f, c) <= End(f) /\ f.at + kHeaderSize <= End(f)
    BY <1>1, <2>1, StopBounds
  <2> QED BY <1>2, <2>1, <2>2 DEF FragmentType
<1> QED BY <1>1, <1>2, <1>3, <1>4

\* The first and the last fragment of a whole record.
LEMMA WholeRecord ==
  ASSUME NEW L, NEW c, FileInv(L, c), NEW r \in DOMAIN sizes, Complete(r)
  PROVE  \E f \in L, e \in L :
           /\ f.rec = r /\ Begins(f) /\ f.at = starts[r] - 1
           /\ e.rec = r /\ Finishes(e) /\ Stop(e, c) = End(e) /\ End(e) = ends[r]
           /\ f.at <= e.at /\ e.at + kHeaderSize <= ends[r] /\ ends[r] <= Len(file)
<1> USE DEF FileInv
<1>1. r \in 1 .. Len(sizes) /\ ends[r] # 0 /\ starts[r] \in Nat /\ c \in Nat /\ L \subseteq FragmentType
  BY DEF FileTypes, CutKnown, Complete
<1>2. PICK f \in L : f.rec = r /\ Begins(f) /\ f.at + 1 = starts[r]
  BY <1>1 DEF WholeKnown
<1>3. PICK e \in L : e.rec = r /\ Finishes(e) /\ Stop(e, c) = End(e) /\ End(e) = ends[r]
  BY <1>1 DEF WholeKnown
<1>4. f.at \in Nat /\ e.at \in Nat /\ e.at + kHeaderSize <= End(e) /\ e.rec \in Nat
  <2>1. f \in FragmentType /\ e \in FragmentType
    BY <1>1
  <2>2. f.at \in Nat /\ e.at \in Nat /\ e.at + kHeaderSize <= End(e)
    BY <1>1, <2>1, StopBounds
  <2> QED BY <2>1, <2>2 DEF FragmentType
<1>5. f.at <= e.at
  <2>1. e.at < f.at => e.rec < f.rec
    BY <1>2 DEF InOrder
  <2> QED BY <1>2, <1>3, <1>4, <2>1
<1>6. ends[r] <= Len(file)
  BY <1>3 DEF Placed
<1>7. f.at = starts[r] - 1
  BY <1>1, <1>2, <1>4
<1>8. e.at + kHeaderSize <= ends[r]
  BY <1>3, <1>4
<1> QED BY <1>2, <1>3, <1>5, <1>6, <1>7, <1>8


\* The reader begins at a block: the one of the initial offset, or the next one
\* if no fragment can begin at or after the offset in its own.
LEMMA OpenSound ==
  ASSUME NEW L, NEW c, FileInv(L, c), NEW initial \in 0 .. Len(file), OpenReader(initial)
  PROVE  FileInv(L, c)' /\ ReaderInv(L, c)'
<1> DEFINE in == initial % kBlock
           start == initial - in + (IF in > kBlock - (kHeaderSize - 1) THEN kBlock ELSE 0)
<1>1. /\ rdr' = [pc |-> "read", initial |-> initial, at |-> start, end |-> start,
                 eof |-> FALSE, resyncing |-> initial > 0, in_fragment |-> FALSE,
                 scratch |-> << >>, out |-> << >>, reports |-> 0]
      /\ writer.rec = 0 /\ UNCHANGED <<file, writer, sizes, starts, ends, damaged, torn>>
  BY DEF OpenReader
<1>2. initial \in Nat /\ Len(file) \in Nat
  BY DEF FileInv, FileTypes
<1>3. in \in 0 .. kBlock - 1 /\ initial - in = Base(initial) /\ Base(initial) \in Nat
  BY <1>2, Division, InBlock DEF Base
<1>4. start \in Nat /\ Base(start) = start
  <2>1. start = Base(initial) \/ start = Base(initial) + kBlock
    BY <1>3, LogAssumption
  <2>2. Base(Base(initial)) = Base(initial) /\ Base(Base(initial) + kBlock) = Base(initial) + kBlock
    BY <1>2, NextBlock
  <2> HIDE DEF start
  <2>3. CASE start = Base(initial)
    BY <1>3, <2>2, <2>3
  <2>4. CASE start = Base(initial) + kBlock
    <3>1. start \in Nat
      BY <1>3, <2>4, LogAssumption
    <3> QED BY <2>2, <2>4, <3>1
  <2> QED BY <2>1, <2>3, <2>4
<1>5. ASSUME NEW f \in L, initial <= f.at PROVE start <= f.at
  <2>1. f.at \in Nat /\ f.at + kHeaderSize <= Base(f.at) + kBlock
    <3>1. f \in FragmentType /\ c \in Nat
      BY DEF FileInv, CutKnown
    <3>2. f.at \in Nat /\ End(f) \in Nat /\ f.at + kHeaderSize <= End(f)
      BY <3>1, StopBounds
    <3>3. End(f) <= Base(f.at) + kBlock
      BY DEF FileInv, Placed
    <3>4. Base(f.at) \in Nat
      BY <3>2, InBlock
    <3> QED BY <3>2, <3>3, <3>4, LogAssumption
  <2>2. Base(f.at) \in Nat /\ Base(f.at) <= f.at
    BY <2>1, InBlock
  <2>3. Base(initial) = Base(f.at) \/ Base(initial) + kBlock <= Base(f.at)
    BY <1>2, <1>5, <2>1, BlocksApart
  <2>4. CASE in > kBlock - (kHeaderSize - 1)
    <3>1. start = Base(initial) + kBlock
      BY <1>3, <2>4
    <3>2. initial > Base(initial) + kBlock - (kHeaderSize - 1)
      BY <1>2, <1>3, <2>4, LogAssumption
    <3>3. Base(initial) # Base(f.at)
      <4> SUFFICES ASSUME Base(initial) = Base(f.at) PROVE FALSE
        OBVIOUS
      <4>1. f.at + kHeaderSize <= Base(initial) + kBlock
        BY <2>1
      <4> HIDE DEF start, in
      <4> QED BY <1>2, <1>3, <1>5, <2>1, <3>2, <4>1, LogAssumption
    <3> HIDE DEF start, in
    <3> QED BY <1>3, <2>1, <2>2, <2>3, <3>1, <3>3, LogAssumption
  <2>5. CASE ~(in > kBlock - (kHeaderSize - 1))
    BY <1>2, <1>3, <1>5, <2>1, <2>5, LogAssumption
  <2> QED BY <2>4, <2>5
<1>6. initial = 0 => start = 0
  BY <1>2, <1>3, LogAssumption
<1> HIDE DEF start, in
<1>7. /\ rdr' \in ReaderType /\ rdr'.at = start /\ rdr'.end = start /\ ~rdr'.eof /\ rdr'.pc = "read"
      /\ ~rdr'.in_fragment /\ rdr'.out = << >> /\ rdr'.reports = 0 /\ rdr'.initial = initial
      /\ rdr'.resyncing <=> initial > 0
  <2>1. (initial > 0) \in BOOLEAN /\ << >> \in Seq(CellType) /\ << >> \in Seq(Seq(CellType))
    OBVIOUS
  <2>2. rdr' \in ReaderType
    BY <1>1, <1>2, <1>4, <2>1 DEF ReaderType
  <2> QED BY <1>1, <2>2
<1>8. FileInv(L, c)'
  BY <1>1 DEF FileInv, FileTypes, CutKnown, Followed, WriterSound, WriterPlace, OthersWhole,
              WriterProgress, Begun, Placed, InOrder, Chained, WholeKnown, Written, Covered,
              DamageKnown
<1>9. BufferSound'
  BY <1>1, <1>4, <1>7 DEF BufferSound
<1>10. BetweenFragments(L, c)'
  <2> SUFFICES ASSUME NEW f \in L PROVE Stop(f, c) <= start \/ start <= f.at
    BY <1>7 DEF BetweenFragments
  <2>1. End(f) <= start \/ start <= f.at
    BY <1>4, FragmentsInBlocks
  <2>2. f \in FragmentType /\ c \in Nat
    BY DEF FileInv, CutKnown
  <2>3. Stop(f, c) <= End(f) /\ Stop(f, c) \in Nat /\ End(f) \in Nat
    BY <2>2, StopBounds
  <2> QED BY <1>4, <2>1, <2>3
<1>11. ScratchSound(L)'
  BY <1>7 DEF ScratchSound
<1>12. OutSound(L)'
  <2>1. DOMAIN rdr'.out = {}
    BY <1>7
  <2>2. [i \in {} |-> 0] \in [DOMAIN rdr'.out -> DOMAIN sizes']
    BY <2>1
  <2> QED BY <2>1, <2>2 DEF OutSound
<1>13. NothingLost'
  <2> SUFFICES ASSUME NEW r \in DOMAIN sizes, Complete(r), starts[r] - 1 >= initial
               PROVE  ~(ends[r] <= start) /\ ~(starts[r] - 1 < start)
    <3>1. \A r \in DOMAIN sizes : InScope(r)' => Complete(r) /\ starts[r] - 1 >= initial
      BY <1>1, <1>7 DEF InScope, Complete
    <3> QED BY <1>1, <1>7, <3>1 DEF NothingLost
  <2>1. PICK f \in L, e \in L :
          /\ f.at = starts[r] - 1 /\ f.at <= e.at /\ e.at + kHeaderSize <= ends[r]
    BY WholeRecord
  <2>2. f.at \in Nat /\ e.at \in Nat /\ ends[r] \in Nat
    BY RecordTypes
  <2>3. start <= f.at
    BY <1>2, <1>5, <2>1, <2>2
  <2> QED BY <1>4, <2>1, <2>2, <2>3, LogAssumption
<1>14. Quiet(L)'
  <2>1. initial = 0 => \A f \in L : ~(f.at < start)
    BY <1>6 DEF FileInv, FragmentType
  <2> QED BY <1>7, <2>1 DEF Quiet, LastBefore
<1>15. rdr'.resyncing => ~rdr'.in_fragment /\ rdr'.initial > 0
  BY <1>7
<1> QED BY <1>1, <1>7, <1>8, <1>9, <1>10, <1>11, <1>12, <1>13, <1>14, <1>15 DEF ReaderInv

\* The reader leaves the file alone.
LEMMA FileFrozen ==
  ASSUME NEW L, NEW c, FileInv(L, c), UNCHANGED <<file, writer, sizes, starts, ends, damaged, torn>>
  PROVE  FileInv(L, c)'
  BY DEF FileInv, FileTypes, CutKnown, Followed, WriterSound, WriterPlace, OthersWhole,
         WriterProgress, Begun, Placed, InOrder, Chained, WholeKnown, Written, Covered, DamageKnown


\* No fragment begins in the rest of a block that has no room for a header.
LEMMA RestIsEmpty ==
  ASSUME NEW L, NEW c, FileInv(L, c), ReaderInv(L, c), rdr.end - rdr.at < kHeaderSize, ~rdr.eof,
         NEW f \in L
  PROVE  Stop(f, c) <= rdr.at \/ rdr.end <= f.at
<1>1. rdr.at \in Nat /\ rdr.end \in Nat /\ rdr.at <= rdr.end /\ Base(rdr.end) = rdr.end
  BY DEF ReaderInv, ReaderType, BufferSound
<1>2. End(f) <= rdr.end \/ rdr.end <= f.at
  BY <1>1, FragmentsInBlocks
<1>3. Stop(f, c) <= rdr.at \/ rdr.at <= f.at
  BY DEF ReaderInv, BetweenFragments
<1>4. f.at \in Nat /\ End(f) \in Nat /\ f.at + kHeaderSize <= End(f)
  BY RecordTypes
<1> QED BY <1>1, <1>2, <1>3, <1>4, LogAssumption

\* The next block is read.
LEMMA BlockSound ==
  ASSUME NEW L, NEW c, FileInv(L, c), ReaderInv(L, c), ReadBlock
  PROVE  ReaderInv(L, c)'
<1> DEFINE from == rdr.end
           last == IF from + kBlock <= Len(file) THEN from + kBlock
                   ELSE IF from < Len(file) THEN Len(file) ELSE from
<1>1. /\ rdr.pc = "read" /\ rdr.end - rdr.at < kHeaderSize /\ ~rdr.eof
      /\ rdr' = [rdr EXCEPT !.at = from, !.end = last, !.eof = last - from < kBlock]
      /\ UNCHANGED <<file, writer, sizes, starts, ends, damaged, torn>>
  BY DEF ReadBlock
<1>2. /\ rdr \in ReaderType /\ rdr.at \in Nat /\ from \in Nat /\ rdr.at <= from /\ Base(from) = from
      /\ Len(file) \in Nat
  BY <1>1, RecordTypes DEF ReaderInv, ReaderType, BufferSound
<1>3. last \in Nat /\ from <= last /\ (last - from < kBlock) \in BOOLEAN
  BY <1>2, LogAssumption
<1>4. /\ rdr' \in ReaderType /\ rdr'.at = from /\ rdr'.end = last /\ (rdr'.eof <=> last - from < kBlock)
      /\ rdr'.pc = "read" /\ rdr'.initial = rdr.initial /\ rdr'.resyncing = rdr.resyncing
      /\ rdr'.in_fragment = rdr.in_fragment /\ rdr'.scratch = rdr.scratch /\ rdr'.out = rdr.out
      /\ rdr'.reports = rdr.reports
  <2> HIDE DEF last
  <2> QED BY <1>1, <1>2, <1>3 DEF ReaderType
<1>5. BufferSound'
  <2>1. CASE from + kBlock <= Len(file)
    <3>1. last = from + kBlock /\ last - from = kBlock
      BY <1>2, <2>1, LogAssumption
    <3>2. Base(from + kBlock) = from + kBlock
      <4>1. Base(Base(from) + kBlock) = Base(from) + kBlock
        BY <1>2, NextBlock
      <4> QED BY <1>2, <4>1
    <3>3. Base(last) = last /\ ~rdr'.eof
      BY <1>4, <3>1, <3>2, LogAssumption
    <3> HIDE DEF last
    <3> QED BY <1>1, <1>2, <1>3, <1>4, <2>1, <3>1, <3>3, LogAssumption DEF BufferSound
  <2>2. CASE ~(from + kBlock <= Len(file))
    <3>1. last - from < kBlock /\ last >= Len(file) /\ (from < last => last = Len(file))
      BY <1>2, <2>2, LogAssumption
    <3> HIDE DEF last
    <3> QED BY <1>1, <1>2, <1>3, <1>4, <2>2, <3>1, LogAssumption DEF BufferSound
  <2> QED BY <2>1, <2>2
<1> HIDE DEF last
<1>6. \A f \in L : /\ Stop(f, c) <= rdr.at \/ from <= f.at
                   /\ f.at \in Nat /\ Stop(f, c) \in Nat /\ f.at < Stop(f, c)
  BY <1>1, RestIsEmpty, RecordTypes
<1>7. \A f \in L : f.at < from => f.at < rdr.at
  BY <1>2, <1>6
<1>8. BetweenFragments(L, c)'
  BY <1>2, <1>4, <1>6 DEF BetweenFragments
<1>9. \A f \in L : LastBefore(L, f, from) <=> LastBefore(L, f, rdr.at)
  BY <1>2, <1>6, <1>7 DEF LastBefore
<1>10. ScratchSound(L)'
  BY <1>1, <1>4, <1>9 DEF ReaderInv, ScratchSound
<1>11. OutSound(L)'
  <2>1. \A g \in L : from <= g.at => rdr.at <= g.at
    BY <1>2, <1>6
  <2>2. PICK pick \in [DOMAIN rdr.out -> DOMAIN sizes] :
          /\ \A i \in DOMAIN rdr.out : rdr.out[i] = Contents2(pick[i])
          /\ \A i, j \in DOMAIN rdr.out : i < j => pick[i] < pick[j]
          /\ \A i \in DOMAIN rdr.out : \A g \in L : rdr.at <= g.at => pick[i] < g.rec
    BY DEF ReaderInv, OutSound
  <2>3. \A i \in DOMAIN rdr.out : Contents2(pick[i])' = Contents2(pick[i])
    BY <1>1 DEF Contents2
  <2> QED BY <1>1, <1>4, <2>1, <2>2, <2>3 DEF OutSound
<1>12. NothingLost'
  <2> SUFFICES ASSUME torn # "reused", NEW r \in DOMAIN sizes, InScope(r)
               PROVE  /\ ends[r] <= from => \E i \in DOMAIN rdr.out : rdr.out[i] = Contents2(r)
                      /\ starts[r] - 1 < from /\ from < ends[r] => rdr.in_fragment
    <3>1. \A r \in DOMAIN sizes : InScope(r)' <=> InScope(r)
      BY <1>1, <1>4 DEF InScope, Complete, Touched
    <3>2. \A r \in DOMAIN sizes : Contents2(r)' = Contents2(r)
      BY <1>1 DEF Contents2
    <3> QED BY <1>1, <1>4, <3>1, <3>2 DEF NothingLost
  <2>1. PICK f \in L, e \in L : /\ f.at = starts[r] - 1 /\ Stop(e, c) = End(e) /\ End(e) = ends[r]
    BY WholeRecord DEF InScope
  <2>2. ends[r] <= from => ends[r] <= rdr.at
    BY <1>2, <1>6, <2>1
  <2>3. starts[r] - 1 < from /\ from < ends[r] => starts[r] - 1 < rdr.at /\ rdr.at < ends[r]
    <3>1. ends[r] \in Nat
      BY RecordTypes
    <3> QED BY <1>2, <1>7, <2>1, <3>1
  <2> QED BY <2>2, <2>3 DEF ReaderInv, NothingLost
<1>13. Quiet(L)'
  BY <1>1, <1>4, <1>9 DEF ReaderInv, Quiet
<1>14. /\ rdr'.resyncing => ~rdr'.in_fragment /\ rdr'.initial > 0
       /\ writer'.rec = 0
  BY <1>1, <1>4 DEF ReaderInv
<1> QED
  BY <1>4, <1>5, <1>8, <1>10, <1>11, <1>12, <1>13, <1>14 DEF ReaderInv

\* The end of the file: every whole record is behind the reader.
LEMMA EndSound ==
  ASSUME NEW L, NEW c, FileInv(L, c), ReaderInv(L, c), ReadEnd
  PROVE  ReaderInv(L, c)'
<1>1. /\ rdr.pc = "read" /\ rdr.end - rdr.at < kHeaderSize /\ rdr.eof
      /\ rdr' = [rdr EXCEPT !.pc = "done", !.scratch = << >>]
      /\ UNCHANGED <<file, writer, sizes, starts, ends, damaged, torn>>
  BY DEF ReadEnd
<1>2. /\ rdr \in ReaderType /\ rdr.at \in Nat /\ rdr.end \in Nat /\ Len(file) <= rdr.end
      /\ Len(file) \in Nat
  BY <1>1, RecordTypes DEF ReaderInv, ReaderType, BufferSound
<1>3. /\ rdr' \in ReaderType /\ rdr'.at = rdr.at /\ rdr'.end = rdr.end /\ rdr'.eof = rdr.eof
      /\ rdr'.pc = "done" /\ rdr'.initial = rdr.initial /\ rdr'.resyncing = rdr.resyncing
      /\ rdr'.in_fragment = rdr.in_fragment /\ rdr'.out = rdr.out /\ rdr'.reports = rdr.reports
  <2>1. << >> \in Seq(CellType)
    OBVIOUS
  <2>2. rdr' \in ReaderType
    BY <1>1, <1>2, <2>1 DEF ReaderType
  <2> QED BY <1>1, <1>2, <2>2 DEF ReaderType
<1>4. BufferSound' /\ BetweenFragments(L, c)' /\ ScratchSound(L)' /\ Quiet(L)'
  BY <1>1, <1>3 DEF ReaderInv, BufferSound, BetweenFragments, ScratchSound, Quiet
<1>5. OutSound(L)'
  <2>1. \A r \in DOMAIN sizes : Contents2(r)' = Contents2(r)
    BY <1>1 DEF Contents2
  <2> QED BY <1>1, <1>3, <2>1 DEF ReaderInv, OutSound
<1>6. NothingLost'
  <2> SUFFICES ASSUME torn # "reused", NEW r \in DOMAIN sizes, InScope(r)
               PROVE  /\ ends[r] <= rdr.at => \E i \in DOMAIN rdr.out : rdr.out[i] = Contents2(r)
                      /\ ends[r] <= rdr.at
    <3>1. \A r \in DOMAIN sizes : InScope(r)' <=> InScope(r)
      BY <1>1, <1>3 DEF InScope, Complete, Touched
    <3>2. \A r \in DOMAIN sizes : Contents2(r)' = Contents2(r)
      BY <1>1 DEF Contents2
    <3>3. \A r \in DOMAIN sizes : ends[r] <= rdr.at => ~(rdr.at < ends[r])
      BY <1>2, RecordTypes
    <3> QED BY <1>1, <1>3, <3>1, <3>2, <3>3 DEF NothingLost
  <2>1. PICK e \in L : /\ Stop(e, c) = End(e) /\ End(e) = ends[r]
                       /\ e.at + kHeaderSize <= ends[r] /\ ends[r] <= Len(file)
    BY WholeRecord DEF InScope
  <2>2. Stop(e, c) <= rdr.at \/ rdr.at <= e.at
    BY DEF ReaderInv, BetweenFragments
  <2>3. e.at \in Nat /\ ends[r] \in Nat
    BY RecordTypes
  <2>4. ends[r] <= rdr.at
    BY <1>1, <1>2, <2>1, <2>2, <2>3, LogAssumption
  <2> QED BY <2>4 DEF ReaderInv, NothingLost
<1> QED
  BY <1>1, <1>3, <1>4, <1>5, <1>6 DEF ReaderInv


-----------------------------------------------------------------------------
(* What ReadPhysicalRecord finds at a fragment f of the layout. *)

PhysicalType == [type : 1 .. 6, payload : Seq(CellType), at : Nat, report : BOOLEAN]

PayloadOf(f) == [i \in 1 .. f.n |-> PayloadCell(f.rec, f.pos + i - 1)]

\* The fragment as it was written, at or after the initial offset.
Good(f, c, p) ==
  /\ Stop(f, c) = End(f) /\ End(f) <= rdr.end /\ rdr.initial <= rdr.at
  /\ p = [type |-> f.type, payload |-> PayloadOf(f), at |-> End(f), report |-> FALSE]

\* The same, before the initial offset.
Early(f, c, p) ==
  /\ Stop(f, c) = End(f) /\ End(f) <= rdr.end /\ rdr.at < rdr.initial
  /\ p = [type |-> kBadRecord, payload |-> << >>, at |-> End(f), report |-> FALSE]

\* The rest of the block is dropped: a cell of it is damaged, or the file was
\* cut here and written on.
Dropped(p) ==
  /\ p.at = rdr.end /\ p.type \in {kEof, kBadRecord} /\ (p.type = kEof => rdr.eof)
  /\ torn = "reused" \/ \E d \in damaged : d \in Nat \ {0} /\ Base(d - 1) = Base(rdr.at)

\* The file ends inside of the fragment.
CutOff(f, c, p) ==
  /\ torn = "crashed" /\ f.at < c /\ c < End(f) /\ c = Len(file) /\ rdr.eof
  /\ p = [type |-> kEof, payload |-> << >>, at |-> rdr.end, report |-> FALSE]

\* The reader is at a fragment when there is room for a header.
LEMMA FragmentHere ==
  ASSUME NEW L, NEW c, FileInv(L, c), ReaderInv(L, c), rdr.end - rdr.at >= kHeaderSize
  PROVE  /\ \E f \in L : f.at = rdr.at
         /\ rdr.at \in Nat /\ rdr.end \in Nat /\ rdr.end <= Len(file) /\ rdr.at < rdr.end
         /\ rdr.end <= Base(rdr.at) + kBlock
         /\ rdr.end = Len(file) \/ rdr.end = Base(rdr.at) + kBlock
         /\ Base(rdr.at) \in Nat /\ Base(rdr.at) <= rdr.at
<1>1. rdr.at \in Nat /\ rdr.end \in Nat /\ Len(file) \in Nat /\ rdr.at < rdr.end
  BY RecordTypes, LogAssumption DEF ReaderInv, ReaderType, BufferSound
<1>2. Base(rdr.at) \in Nat /\ Base(rdr.at) <= rdr.at
  BY <1>1, InBlock
<1>3. rdr.end = IF Base(rdr.at) + kBlock <= Len(file) THEN Base(rdr.at) + kBlock ELSE Len(file)
  BY <1>1 DEF ReaderInv, BufferSound
<1>4. /\ rdr.end <= Len(file) /\ rdr.end <= Base(rdr.at) + kBlock
      /\ rdr.end = Len(file) \/ rdr.end = Base(rdr.at) + kBlock
  BY <1>1, <1>2, <1>3, LogAssumption
<1>5. rdr.at + 1 \in 1 .. Len(file) /\ (rdr.at + 1) - 1 = rdr.at
  BY <1>1, <1>4
<1>6. CASE \E f \in L : f.at < rdr.at + 1 /\ rdr.at + 1 <= Stop(f, c)
  <2>1. PICK f \in L : f.at < rdr.at + 1 /\ rdr.at + 1 <= Stop(f, c)
    BY <1>6
  <2>2. Stop(f, c) <= rdr.at \/ rdr.at <= f.at
    BY DEF ReaderInv, BetweenFragments
  <2>3. f.at \in Nat /\ Stop(f, c) \in Nat
    BY RecordTypes
  <2>4. f.at = rdr.at
    BY <1>1, <2>1, <2>2, <2>3
  <2> QED BY <1>1, <1>2, <1>4, <2>4
<1>7. CASE (rdr.at + 1) - 1 > Base((rdr.at + 1) - 1) + kBlock - kHeaderSize
  <2>1. rdr.at > Base(rdr.at) + kBlock - kHeaderSize
    BY <1>5, <1>7
  <2> QED BY <1>1, <1>2, <1>4, <2>1, LogAssumption
<1> QED BY <1>5, <1>6, <1>7 DEF FileInv, Covered

\* A fragment whose checksum is right was not cut: what follows a cut is no
\* part of a fragment that began before it.
LEMMA IntactIsWhole ==
  ASSUME NEW L, NEW c, FileInv(L, c), NEW f \in L, f.at = rdr.at, End(f) <= Len(file), Intact(f.n)
  PROVE  Stop(f, c) = End(f)
<1> SUFFICES ASSUME f.at < c, c < End(f) PROVE FALSE
  BY DEF Stop
<1>1. /\ f.at \in Nat /\ f.n \in Nat /\ c \in Nat /\ Len(file) \in Nat /\ End(f) \in Nat
      /\ kHeaderSize \in Nat
  BY RecordTypes, LogAssumption
<1>2. End(f) = f.at + kHeaderSize + f.n /\ Stop(f, c) = c
  BY DEF Stop, End
<1>3. c + 1 \in 1 .. Len(file) /\ (c + 1) - f.at \in 2 .. kHeaderSize + f.n /\ f.at + ((c + 1) - f.at) = c + 1
  BY <1>1, <1>2
<1>4. file[c + 1][1] \in {"crc", "payload"}
  <2> DEFINE k == (c + 1) - f.at
  <2>1. CASE k <= kHeaderSize
    <3>1. file[rdr.at + k] = HeaderRest
      BY <1>1, <1>3, <2>1 DEF Intact
    <3> QED BY <1>3, <3>1 DEF HeaderRest
  <2>2. CASE k > kHeaderSize
    <3>1. k - kHeaderSize \in 1 .. f.n /\ f.at + kHeaderSize + (k - kHeaderSize) = c + 1
      BY <1>1, <1>3, <2>2
    <3>2. file[rdr.at + kHeaderSize + (k - kHeaderSize)][1] = "payload"
      BY <3>1 DEF Intact
    <3> QED BY <3>1, <3>2
  <2> QED BY <1>1, <1>3, <2>1, <2>2
<1>5. CASE \E g \in L : g.at < c + 1 /\ c + 1 <= Stop(g, c)
  <2>1. PICK g \in L : g.at < c + 1 /\ c + 1 <= Stop(g, c)
    BY <1>5
  <2>2. g.at \in Nat /\ Stop(g, c) \in Nat /\ g.n \in Nat
    BY RecordTypes
  <2>3. f.at = g.at => f = g
    BY DEF FileInv, InOrder
  <2>4. f.at < g.at => c <= g.at
    BY <1>2 DEF FileInv, InOrder
  <2>5. g.at < f.at => Stop(g, c) <= f.at
    BY DEF FileInv, InOrder
  <2>6. g.at = c
    BY <1>1, <1>2, <2>1, <2>2, <2>3, <2>4, <2>5
  <2>7. 1 \in 1 .. kHeaderSize + g.n
    BY <1>1, <2>2, LogAssumption
  <2>8. file[g.at + 1] = Junk \/ file[g.at + 1] = CellOf(g, 1)
    BY <2>1, <2>6, <2>7 DEF FileInv, Written
  <2> QED BY <1>4, <2>6, <2>8 DEF CellOf, HeaderCell, Junk
<1>6. CASE file[c + 1] \in {Zero, Junk}
  BY <1>4, <1>6 DEF Zero, Junk
<1> QED BY <1>3, <1>5, <1>6 DEF FileInv, Covered


\* A cell of the block that is not what was written is known to be damaged.
LEMMA DamageInBlock ==
  ASSUME NEW L, NEW c, FileInv(L, c), NEW f \in L, f.at = rdr.at, Stop(f, c) = End(f),
         NEW k \in 1 .. kHeaderSize + f.n, file[f.at + k] # CellOf(f, k)
  PROVE  \E d \in damaged : d \in Nat \ {0} /\ Base(d - 1) = Base(rdr.at)
<1>1. /\ f.at \in Nat /\ f.n \in Nat /\ Len(file) \in Nat /\ End(f) \in Nat /\ kHeaderSize \in Nat
      /\ Base(f.at) \in Nat /\ Base(f.at) <= f.at
  <2>1. f.at \in Nat /\ f.n \in Nat /\ Len(file) \in Nat /\ End(f) \in Nat
    BY RecordTypes
  <2> QED BY <2>1, LogAssumption, InBlock
<1>2. Stop(f, c) <= Len(file) /\ End(f) <= Base(f.at) + kBlock
  BY DEF FileInv, Placed
<1>3. f.at + k <= End(f)
  BY <1>1 DEF End
<1>4. f.at + k \in 1 .. Len(file) /\ (f.at + k) - 1 \in Nat /\ f.at + k \in Nat \ {0}
  BY <1>1, <1>2, <1>3
<1>5. file[f.at + k] = Junk
  BY <1>3 DEF FileInv, Written
<1>6. f.at + k \in damaged
  BY <1>4, <1>5 DEF FileInv, DamageKnown
<1>7. Base((f.at + k) - 1) = Base(f.at)
  <2>1. Base(f.at) <= (f.at + k) - 1 /\ (f.at + k) - 1 < Base(f.at) + kBlock
    BY <1>1, <1>2, <1>3, <1>4, LogAssumption
  <2> DEFINE x == (f.at + k) - 1
  <2>2. x \in Nat /\ Base(f.at) <= x /\ x < Base(f.at) + kBlock
    BY <1>4, <2>1
  <2> HIDE DEF x
  <2>3. Base(x) = Base(f.at)
    BY <1>1, <2>2, SameBlock
  <2> QED BY <2>3 DEF x
<1> QED BY <1>4, <1>6, <1>7

\* A record of these values is what ReadPhysicalRecord may return.
LEMMA IsPhysical ==
  ASSUME NEW t \in 1 .. 6, NEW s \in Seq(CellType), NEW a \in Nat, NEW b \in BOOLEAN
  PROVE  [type |-> t, payload |-> s, at |-> a, report |-> b] \in PhysicalType
  BY DEF PhysicalType

\* ReadPhysicalRecord finds the fragment at the reader's position, or drops
\* what cannot be one: every case of what it returns.
LEMMA HeadSound ==
  ASSUME NEW L, NEW c, FileInv(L, c), ReaderInv(L, c), rdr.pc = "read",
         rdr.end - rdr.at >= kHeaderSize, NEW p \in Physical
  PROVE  /\ p \in PhysicalType
         /\ \E f \in L : f.at = rdr.at /\ (Good(f, c, p) \/ Early(f, c, p) \/ Dropped(p) \/ CutOff(f, c, p))
<1>1. PICK f \in L : f.at = rdr.at
  BY FragmentHere
<1>2. /\ rdr.at \in Nat /\ rdr.end \in Nat /\ rdr.end <= Len(file) /\ rdr.at < rdr.end
      /\ rdr.end <= Base(rdr.at) + kBlock
      /\ rdr.end = Len(file) \/ rdr.end = Base(rdr.at) + kBlock
      /\ Base(rdr.at) \in Nat /\ Base(rdr.at) <= rdr.at
  BY FragmentHere
<1>3. /\ f \in FragmentType /\ f.at \in Nat /\ f.n \in Nat /\ c \in Nat /\ Len(file) \in Nat
      /\ End(f) \in Nat /\ kHeaderSize \in Nat /\ f.at < Stop(f, c) /\ Stop(f, c) \in Nat
  BY RecordTypes, LogAssumption
<1>4. End(f) = rdr.at + kHeaderSize + f.n /\ End(f) <= Base(rdr.at) + kBlock /\ f.type \in 1 .. 4
        /\ Stop(f, c) <= Len(file)
  BY <1>1, <1>3 DEF FileInv, Placed, End, FragmentType
<1>5. rdr.eof \in BOOLEAN /\ rdr.initial \in Nat
  BY DEF ReaderInv, ReaderType
<1> DEFINE head == file[rdr.at + 1]
<1>6. head = Junk \/ head = HeaderCell(f.n, f.type)
  <2>1. 1 \in 1 .. kHeaderSize + f.n /\ f.at + 1 <= Stop(f, c)
    BY <1>3, LogAssumption
  <2>2. file[f.at + 1] = Junk \/ file[f.at + 1] = CellOf(f, 1)
    BY <2>1 DEF FileInv, Written
  <2> QED BY <1>1, <2>2 DEF CellOf
<1>7. /\ DropBuffer(kEof, FALSE) = [type |-> kEof, payload |-> << >>, at |-> rdr.end, report |-> FALSE]
      /\ DropBuffer(kBadRecord, TRUE)
           = [type |-> kBadRecord, payload |-> << >>, at |-> rdr.end, report |-> TRUE]
  BY DEF DropBuffer
<1>8. DropBuffer(kEof, FALSE) \in PhysicalType /\ DropBuffer(kBadRecord, TRUE) \in PhysicalType
  <2>1. << >> \in Seq(CellType) /\ TRUE \in BOOLEAN /\ FALSE \in BOOLEAN
    OBVIOUS
  <2>2. kEof \in 1 .. 6 /\ kBadRecord \in 1 .. 6
    BY DEF kEof, kBadRecord
  <2>3. [type |-> kEof, payload |-> << >>, at |-> rdr.end, report |-> FALSE] \in PhysicalType
    BY <1>2, <2>1, <2>2, IsPhysical
  <2>4. [type |-> kBadRecord, payload |-> << >>, at |-> rdr.end, report |-> TRUE] \in PhysicalType
    BY <1>2, <2>1, <2>2, IsPhysical
  <2> QED BY <1>7, <2>3, <2>4
<1>9. ASSUME torn = "reused" \/ \E d \in damaged : d \in Nat \ {0} /\ Base(d - 1) = Base(rdr.at),
             p \in {TooLong, DropBuffer(kBadRecord, TRUE)}
      PROVE  p \in PhysicalType /\ Dropped(p)
  <2>1. /\ DropBuffer(kBadRecord, TRUE).at = rdr.end /\ DropBuffer(kBadRecord, TRUE).type = kBadRecord
        /\ DropBuffer(kEof, FALSE).at = rdr.end /\ DropBuffer(kEof, FALSE).type = kEof
        /\ kEof # kBadRecord
    BY DEF DropBuffer, kEof, kBadRecord
  <2>2. CASE p = DropBuffer(kBadRecord, TRUE)
    BY <1>8, <1>9, <2>1, <2>2 DEF Dropped
  <2>3. CASE p = DropBuffer(kEof, FALSE) /\ rdr.eof
    BY <1>8, <1>9, <2>1, <2>3 DEF Dropped
  <2>4. p = DropBuffer(kBadRecord, TRUE) \/ (p = DropBuffer(kEof, FALSE) /\ rdr.eof)
    BY <1>9 DEF TooLong
  <2> QED BY <2>2, <2>3, <2>4
<1>10. CASE head = Junk
  <2>1. Physical = {TooLong, DropBuffer(kBadRecord, TRUE)}
    BY <1>10 DEF Physical, Junk
  <2>2. rdr.at + 1 \in 1 .. Len(file) /\ (rdr.at + 1) - 1 = rdr.at /\ rdr.at + 1 \in Nat \ {0}
    BY <1>2, <1>3
  <2>3. rdr.at + 1 \in damaged
    BY <1>10, <2>2 DEF FileInv, DamageKnown
  <2> QED BY <1>1, <1>9, <2>1, <2>2, <2>3
<1>11. CASE head = HeaderCell(f.n, f.type)
  <2>1. head[1] = "header" /\ head[2] = f.n /\ head[3] = f.type
    BY <1>11 DEF HeaderCell
  <2> HIDE DEF head
  <2>2. Stop(f, c) # End(f) => /\ f.at < c /\ c < End(f) /\ Stop(f, c) = c
                               /\ torn = "reused" \/ (torn = "crashed" /\ c = Len(file))
    <3>1. Stop(f, c) # End(f) => f.at < c /\ c < End(f) /\ Stop(f, c) = c
      BY DEF Stop
    <3>2. c # 0 => torn = "reused" \/ (torn = "crashed" /\ c = Len(file))
      BY DEF FileInv, CutKnown, FileTypes
    <3> QED BY <1>3, <3>1, <3>2
  <2>3. CASE f.n > rdr.end - rdr.at - kHeaderSize
    <3>1. Physical = {TooLong}
      BY <2>1, <2>3 DEF Physical, head
    <3>2. Stop(f, c) # End(f)
      BY <1>2, <1>3, <1>4, <2>3, LogAssumption
    <3>3. CASE torn = "reused"
      BY <1>1, <1>9, <3>1, <3>3
    <3>4. CASE torn = "crashed" /\ c = Len(file)
      <4>1. rdr.at < rdr.end /\ rdr.end < Base(rdr.at) + kBlock /\ rdr.end = Len(file)
        BY <1>2, <1>3, <1>4, <2>2, <3>2, <3>4, LogAssumption
      <4>2. Base(rdr.end) = Base(rdr.at)
        BY <1>2, <4>1, SameBlock
      <4>3. rdr.eof
        BY <1>2, <4>1, <4>2 DEF ReaderInv, BufferSound
      <4>4. p = DropBuffer(kEof, FALSE)
        BY <3>1, <4>3 DEF TooLong
      <4>5. CutOff(f, c, p)
        BY <1>7, <2>2, <3>2, <3>4, <4>3, <4>4 DEF CutOff
      <4> QED BY <1>1, <1>8, <4>4, <4>5
    <3> QED BY <2>2, <3>2, <3>3, <3>4
  <2>4. CASE ~(f.n > rdr.end - rdr.at - kHeaderSize) /\ ~Intact(f.n)
    <3>1. Physical = {DropBuffer(kBadRecord, TRUE)}
      BY <2>1, <2>4 DEF Physical, head
    <3>2. End(f) <= rdr.end
      BY <1>2, <1>3, <1>4, <2>4, LogAssumption
    <3>3. CASE torn = "reused"
      BY <1>1, <1>9, <3>1, <3>3
    <3>4. CASE torn # "reused"
      <4>1. Stop(f, c) = End(f)
        BY <1>2, <1>3, <2>2, <3>2, <3>4
      <4>2. \E k \in 1 .. kHeaderSize + f.n : file[f.at + k] # CellOf(f, k)
        <5> SUFFICES ASSUME \A k \in 1 .. kHeaderSize + f.n : file[f.at + k] = CellOf(f, k)
                     PROVE  Intact(f.n)
          BY <2>4
        <5>1. ASSUME NEW i \in 2 .. kHeaderSize PROVE file[rdr.at + i] = HeaderRest
          <6>1. i \in 1 .. kHeaderSize + f.n /\ i # 1 /\ i <= kHeaderSize
            BY <1>3
          <6> QED BY <1>1, <6>1 DEF CellOf
        <5>2. ASSUME NEW i \in 1 .. f.n PROVE file[rdr.at + kHeaderSize + i][1] = "payload"
          <6>1. /\ kHeaderSize + i \in 1 .. kHeaderSize + f.n /\ kHeaderSize + i # 1
                /\ ~(kHeaderSize + i <= kHeaderSize)
                /\ f.at + (kHeaderSize + i) = rdr.at + kHeaderSize + i
            BY <1>1, <1>3, LogAssumption
          <6>2. file[rdr.at + kHeaderSize + i] = CellOf(f, kHeaderSize + i)
            BY <6>1
          <6> QED BY <6>1, <6>2 DEF CellOf, PayloadCell
        <5> QED BY <5>1, <5>2 DEF Intact
      <4>3. \E d \in damaged : d \in Nat \ {0} /\ Base(d - 1) = Base(rdr.at)
        BY <1>1, <4>1, <4>2, DamageInBlock
      <4> QED BY <1>1, <1>9, <3>1, <4>3
    <3> QED BY <3>3, <3>4
  <2>5. CASE ~(f.n > rdr.end - rdr.at - kHeaderSize) /\ Intact(f.n)
    <3>1. p = [type |-> IF rdr.at < rdr.initial THEN kBadRecord ELSE f.type,
               payload |-> IF rdr.at < rdr.initial THEN << >> ELSE Payload(rdr.at, f.n),
               at |-> rdr.at + kHeaderSize + f.n, report |-> FALSE]
      BY <2>1, <2>5 DEF Physical, head
    <3>2. End(f) <= rdr.end /\ End(f) <= Len(file)
      <4>1. f.n <= rdr.end - rdr.at - kHeaderSize
        BY <1>2, <1>3, <2>5
      <4>2. rdr.at + kHeaderSize + f.n <= rdr.end
        BY <1>2, <1>3, <4>1
      <4> QED BY <1>2, <1>3, <1>4, <4>2
    <3>3. Stop(f, c) = End(f)
      BY <1>1, <2>5, <3>2, IntactIsWhole
    <3>4. Payload(rdr.at, f.n) = PayloadOf(f)
      <4> SUFFICES ASSUME NEW i \in 1 .. f.n
                   PROVE  file[rdr.at + kHeaderSize + i] = PayloadCell(f.rec, f.pos + i - 1)
        BY DEF Payload, PayloadOf
      <4>1. file[rdr.at + kHeaderSize + i][1] = "payload"
        BY <2>5 DEF Intact
      <4>2. /\ kHeaderSize + i \in 1 .. kHeaderSize + f.n /\ kHeaderSize + i # 1
            /\ ~(kHeaderSize + i <= kHeaderSize)
            /\ f.at + (kHeaderSize + i) = rdr.at + kHeaderSize + i
            /\ f.at + (kHeaderSize + i) <= End(f)
        BY <1>1, <1>3, <1>4, LogAssumption
      <4>3. \/ file[rdr.at + kHeaderSize + i] = Junk
            \/ file[rdr.at + kHeaderSize + i] = CellOf(f, kHeaderSize + i)
        BY <3>3, <4>2 DEF FileInv, Written
      <4>4. file[rdr.at + kHeaderSize + i] = CellOf(f, kHeaderSize + i)
        BY <4>1, <4>3 DEF Junk
      <4>5. f.pos + (kHeaderSize + i) - kHeaderSize - 1 = f.pos + i - 1
        BY <1>3 DEF FragmentType
      <4> QED BY <4>2, <4>4, <4>5 DEF CellOf
    <3>5. PayloadOf(f) \in Seq(CellType)
      BY <1>3, PayloadCells DEF PayloadOf
    <3>6. CASE rdr.at < rdr.initial
      <4>1. p = [type |-> kBadRecord, payload |-> << >>, at |-> End(f), report |-> FALSE]
        BY <1>4, <3>1, <3>6
      <4>2. p \in PhysicalType
        <5>1. << >> \in Seq(CellType) /\ FALSE \in BOOLEAN /\ kBadRecord \in 1 .. 6
          BY DEF kBadRecord
        <5>2. [type |-> kBadRecord, payload |-> << >>, at |-> End(f), report |-> FALSE] \in PhysicalType
          BY <1>3, <5>1, IsPhysical
        <5> QED BY <4>1, <5>2
      <4> QED BY <1>1, <3>2, <3>3, <3>6, <4>1, <4>2 DEF Early
    <3>7. CASE ~(rdr.at < rdr.initial)
      <4>1. p = [type |-> f.type, payload |-> PayloadOf(f), at |-> End(f), report |-> FALSE]
        BY <1>4, <3>1, <3>4, <3>7
      <4>2. p \in PhysicalType
        <5>1. f.type \in 1 .. 6 /\ FALSE \in BOOLEAN
          BY <1>4
        <5> QED BY <1>3, <3>5, <4>1, <5>1, IsPhysical
      <4>3. rdr.initial <= rdr.at
        BY <1>2, <1>5, <3>7
      <4> QED BY <1>1, <3>2, <3>3, <4>1, <4>2, <4>3 DEF Good
    <3> QED BY <3>6, <3>7
  <2> QED BY <2>3, <2>4, <2>5
<1> QED BY <1>6, <1>10, <1>11


-----------------------------------------------------------------------------
(* ReadRecord's handling of what ReadPhysicalRecord returns *)

\* The reader after it, case by case.
Applied(p) ==
  /\ rdr' \in ReaderType
  /\ rdr'.at = p.at /\ rdr'.end = rdr.end /\ rdr'.eof = rdr.eof /\ rdr'.initial = rdr.initial
  /\ rdr'.resyncing => rdr.resyncing /\ p.type = kMiddleType
  /\ rdr'.pc = IF p.type = kEof THEN "done" ELSE "read"
  /\ p.type = kFullType => rdr'.out = Append(rdr.out, p.payload) /\ ~rdr'.in_fragment
  /\ p.type = kFirstType => rdr'.out = rdr.out /\ rdr'.in_fragment /\ rdr'.scratch = p.payload
  /\ p.type = kMiddleType /\ rdr.in_fragment =>
       rdr'.out = rdr.out /\ rdr'.in_fragment /\ rdr'.scratch = rdr.scratch \o p.payload
  /\ p.type = kLastType /\ rdr.in_fragment =>
       rdr'.out = Append(rdr.out, rdr.scratch \o p.payload) /\ ~rdr'.in_fragment
  /\ p.type \in {kMiddleType, kLastType} /\ ~rdr.in_fragment =>
       rdr'.out = rdr.out /\ ~rdr'.in_fragment
  /\ p.type = kEof => rdr'.out = rdr.out
  /\ p.type = kBadRecord => rdr'.out = rdr.out /\ ~rdr'.in_fragment
  \* nothing is reported when nothing is dropped
  /\ ~p.report /\ rdr.in_fragment /\ p.type \in {kMiddleType, kLastType}
       => rdr'.reports = rdr.reports
  /\ ~p.report /\ ~rdr.in_fragment /\ p.type \in {kFullType, kFirstType}
       => rdr'.reports = rdr.reports
  /\ ~p.report /\ p.type = kEof => rdr'.reports = rdr.reports

\* A reader with other values in these fields.
LEMMA ReaderFields ==
  ASSUME NEW r \in ReaderType, NEW at \in Nat, NEW reports \in Nat, NEW resyncing \in BOOLEAN,
         NEW in_fragment \in BOOLEAN, NEW scratch \in Seq(CellType), NEW out \in Seq(Seq(CellType)),
         NEW pc \in {"read", "done"}, NEW s,
         s = [pc |-> pc, initial |-> r.initial, at |-> at, end |-> r.end, eof |-> r.eof,
              resyncing |-> resyncing, in_fragment |-> in_fragment, scratch |-> scratch,
              out |-> out, reports |-> reports]
  PROVE  /\ s \in ReaderType
         /\ s.pc = pc /\ s.initial = r.initial /\ s.at = at /\ s.end = r.end /\ s.eof = r.eof
         /\ s.resyncing = resyncing /\ s.in_fragment = in_fragment /\ s.scratch = scratch
         /\ s.out = out /\ s.reports = reports
  BY DEF ReaderType

\* What the reader becomes, without EXCEPT.
LEMMA FragmentedFields ==
  ASSUME rdr \in ReaderType, NEW p \in PhysicalType, NEW r \in ReaderType
  PROVE  LET lost == rdr.in_fragment /\ rdr.scratch # << >>
             Become(pc, in_fragment, scratch, out, alarms) ==
               [pc |-> pc, initial |-> r.initial, at |-> r.at, end |-> r.end, eof |-> r.eof,
                resyncing |-> r.resyncing, in_fragment |-> in_fragment, scratch |-> scratch,
                out |-> out, reports |-> r.reports + alarms]
         IN
         /\ p.type = kFullType =>
              Fragmented(p, r) = Become(r.pc, FALSE, << >>, Append(r.out, p.payload),
                                        Reported(lost, p.at, Len(rdr.scratch)))
         /\ p.type = kFirstType =>
              Fragmented(p, r) = Become(r.pc, TRUE, p.payload, r.out,
                                        Reported(lost, p.at, Len(rdr.scratch)))
         /\ p.type = kMiddleType /\ rdr.in_fragment =>
              Fragmented(p, r) = Become(r.pc, r.in_fragment, r.scratch \o p.payload, r.out, 0)
         /\ p.type = kLastType /\ rdr.in_fragment =>
              Fragmented(p, r) = Become(r.pc, FALSE, << >>, Append(r.out, rdr.scratch \o p.payload), 0)
         /\ p.type \in {kMiddleType, kLastType} /\ ~rdr.in_fragment =>
              Fragmented(p, r) = Become(r.pc, r.in_fragment, r.scratch, r.out,
                                        Reported(TRUE, p.at, Len(p.payload)))
         /\ p.type = kEof =>
              Fragmented(p, r) = Become("done", r.in_fragment, r.scratch, r.out, 0)
         /\ p.type = kBadRecord =>
              Fragmented(p, r) = Become(r.pc, FALSE, << >>, r.out,
                                        Reported(rdr.in_fragment, p.at, Len(rdr.scratch)))
<1>1. r.reports \in Nat /\ r.reports + 0 = r.reports
  BY DEF ReaderType
<1>2. r = [pc |-> r.pc, initial |-> r.initial, at |-> r.at, end |-> r.end, eof |-> r.eof,
           resyncing |-> r.resyncing, in_fragment |-> r.in_fragment, scratch |-> r.scratch,
           out |-> r.out, reports |-> r.reports]
  BY DEF ReaderType
<1> USE DEF kFullType, kFirstType, kMiddleType, kLastType, kEof, kBadRecord
<1> DEFINE lost == rdr.in_fragment /\ rdr.scratch # << >>
<1>3. CASE p.type = kFullType
  <2>1. Fragmented(p, r)
          = [[r EXCEPT !.out = Append(@, p.payload), !.in_fragment = FALSE, !.scratch = << >>]
               EXCEPT !.reports = @ + Reported(lost, p.at, Len(rdr.scratch))]
    BY <1>3 DEF Fragmented
  <2>2. p.type # kFirstType /\ p.type # kMiddleType /\ p.type # kLastType /\ p.type # kEof
          /\ p.type # kBadRecord
    BY <1>3
  <2> QED BY <1>2, <1>3, <2>1, <2>2
<1>4. CASE p.type = kFirstType
  <2>1. Fragmented(p, r)
          = [[r EXCEPT !.in_fragment = TRUE, !.scratch = p.payload]
               EXCEPT !.reports = @ + Reported(lost, p.at, Len(rdr.scratch))]
    BY <1>4 DEF Fragmented
  <2>2. p.type # kFullType /\ p.type # kMiddleType /\ p.type # kLastType /\ p.type # kEof
          /\ p.type # kBadRecord
    BY <1>4
  <2> QED BY <1>2, <1>4, <2>1, <2>2
<1>5. CASE p.type = kMiddleType
  <2>1. rdr.in_fragment => Fragmented(p, r) = [r EXCEPT !.scratch = @ \o p.payload]
    BY <1>5 DEF Fragmented
  <2>2. ~rdr.in_fragment
          => Fragmented(p, r) = [r EXCEPT !.reports = @ + Reported(TRUE, p.at, Len(p.payload))]
    BY <1>5 DEF Fragmented
  <2>3. p.type # kFullType /\ p.type # kFirstType /\ p.type # kLastType /\ p.type # kEof
          /\ p.type # kBadRecord
    BY <1>5
  <2> QED BY <1>1, <1>2, <1>5, <2>1, <2>2, <2>3
<1>6. CASE p.type = kLastType
  <2>1. rdr.in_fragment =>
          Fragmented(p, r) = [r EXCEPT !.out = Append(@, rdr.scratch \o p.payload),
                                       !.in_fragment = FALSE, !.scratch = << >>]
    BY <1>6 DEF Fragmented
  <2>2. ~rdr.in_fragment
          => Fragmented(p, r) = [r EXCEPT !.reports = @ + Reported(TRUE, p.at, Len(p.payload))]
    BY <1>6 DEF Fragmented
  <2>3. p.type # kFullType /\ p.type # kFirstType /\ p.type # kMiddleType /\ p.type # kEof
          /\ p.type # kBadRecord
    BY <1>6
  <2> QED BY <1>1, <1>2, <1>6, <2>1, <2>2, <2>3
<1>7. CASE p.type = kEof
  BY <1>1, <1>2, <1>7 DEF Fragmented
<1>8. CASE p.type = kBadRecord
  <2>1. Fragmented(p, r)
          = [[r EXCEPT !.in_fragment = FALSE, !.scratch = << >>]
               EXCEPT !.reports = @ + Reported(rdr.in_fragment, p.at, Len(rdr.scratch))]
    BY <1>8 DEF Fragmented
  <2>2. p.type # kFullType /\ p.type # kFirstType /\ p.type # kMiddleType /\ p.type # kLastType
          /\ p.type # kEof
    BY <1>8
  <2> QED BY <1>2, <1>8, <2>1, <2>2
<1>9. p.type \in 1 .. 6
  BY DEF PhysicalType
<1> QED BY <1>3, <1>4, <1>5, <1>6, <1>7, <1>8, <1>9


\* The reader past a physical record, before the record is looked at.
Passed(p) == [rdr EXCEPT !.at = p.at,
                         !.reports = @ + Reported(p.report, p.at, rdr.end - rdr.at),
                         !.resyncing = @ /\ p.type = kMiddleType]

\* A report counts once, or not at all.
LEMMA ReportedOnce ==
  ASSUME NEW yes, NEW at, NEW bytes
  PROVE  Reported(yes, at, bytes) \in {0, 1} /\ (~yes => Reported(yes, at, bytes) = 0)
  BY DEF Reported

\* The reader after ReadRecord handled it.
Handled(p) == rdr' = IF rdr.resyncing /\ p.type \in {kMiddleType, kLastType} THEN Passed(p)
                     ELSE Fragmented(p, Passed(p))

\* The fields of a reader that passed a physical record.
LEMMA PassedFields ==
  ASSUME rdr \in ReaderType, NEW p \in PhysicalType
  PROVE  /\ Passed(p) \in ReaderType
         /\ Passed(p).pc = rdr.pc /\ Passed(p).initial = rdr.initial /\ Passed(p).at = p.at
         /\ Passed(p).end = rdr.end /\ Passed(p).eof = rdr.eof
         /\ (Passed(p).resyncing => rdr.resyncing /\ p.type = kMiddleType)
         /\ Passed(p).in_fragment = rdr.in_fragment /\ Passed(p).scratch = rdr.scratch
         /\ Passed(p).out = rdr.out
         /\ Passed(p).reports \in Nat /\ (~p.report => Passed(p).reports = rdr.reports)
<1> DEFINE reports == rdr.reports + Reported(p.report, p.at, rdr.end - rdr.at)
           resyncing == rdr.resyncing /\ p.type = kMiddleType
<1>1. reports \in Nat /\ (~p.report => reports = rdr.reports)
  <2>1. rdr.reports \in Nat
    BY DEF ReaderType
  <2> QED BY <2>1, ReportedOnce
<1>2. resyncing \in BOOLEAN /\ p.at \in Nat
  BY DEF PhysicalType
<1>3. Passed(p) = [pc |-> rdr.pc, initial |-> rdr.initial, at |-> p.at, end |-> rdr.end, eof |-> rdr.eof,
                   resyncing |-> resyncing, in_fragment |-> rdr.in_fragment, scratch |-> rdr.scratch,
                   out |-> rdr.out, reports |-> reports]
  <2>1. Passed(p) = [rdr EXCEPT !.at = p.at, !.reports = reports, !.resyncing = resyncing]
    BY DEF Passed
  <2> HIDE DEF reports, resyncing
  <2> QED BY <2>1 DEF ReaderType
<1>4. /\ rdr.in_fragment \in BOOLEAN /\ rdr.scratch \in Seq(CellType) /\ rdr.out \in Seq(Seq(CellType))
      /\ rdr.pc \in {"read", "done"}
  BY DEF ReaderType
<1> HIDE DEF reports, resyncing
<1>5. /\ Passed(p) \in ReaderType
      /\ Passed(p).pc = rdr.pc /\ Passed(p).initial = rdr.initial /\ Passed(p).at = p.at
      /\ Passed(p).end = rdr.end /\ Passed(p).eof = rdr.eof
      /\ Passed(p).resyncing = resyncing
      /\ Passed(p).in_fragment = rdr.in_fragment /\ Passed(p).scratch = rdr.scratch
      /\ Passed(p).out = rdr.out /\ Passed(p).reports = reports
  BY <1>1, <1>2, <1>3, <1>4, ReaderFields
<1> QED BY <1>1, <1>5 DEF resyncing

\* A middle or last fragment without a first one changes nothing but the position.
LEMMA UnmatchedApplied ==
  ASSUME NEW p, p.type \in {kMiddleType, kLastType}, ~rdr.in_fragment, rdr' \in ReaderType,
         rdr'.pc = "read", rdr'.initial = rdr.initial, rdr'.at = p.at, rdr'.end = rdr.end,
         rdr'.eof = rdr.eof, rdr'.resyncing => rdr.resyncing /\ p.type = kMiddleType,
         ~rdr'.in_fragment, rdr'.out = rdr.out
  PROVE  Applied(p)
<1> USE DEF kFullType, kFirstType, kMiddleType, kLastType, kEof, kBadRecord
<1>1. rdr'.pc = IF p.type = kEof THEN "done" ELSE "read"
  OBVIOUS
<1>2. /\ p.type # kFullType /\ p.type # kFirstType /\ p.type # kEof /\ p.type # kBadRecord
      /\ ~(p.type \in {kFullType, kFirstType})
  OBVIOUS
<1>3. /\ ~(p.type = kMiddleType /\ rdr.in_fragment) /\ ~(p.type = kLastType /\ rdr.in_fragment)
      /\ ~(~p.report /\ rdr.in_fragment /\ p.type \in {kMiddleType, kLastType})
  OBVIOUS
<1> HIDE DEF kFullType, kFirstType, kMiddleType, kLastType, kEof, kBadRecord
<1> QED BY <1>1, <1>2, <1>3 DEF Applied

\* ReadRecord's handling of a physical record has the outcome Applied says.
LEMMA AppliedSound ==
  ASSUME rdr \in ReaderType, rdr.pc = "read", rdr.resyncing => ~rdr.in_fragment,
         NEW p \in PhysicalType, Handled(p)
  PROVE  Applied(p)
<1> DEFINE r == Passed(p)
<1>1. /\ r \in ReaderType
      /\ r.pc = "read" /\ r.initial = rdr.initial /\ r.at = p.at
      /\ r.end = rdr.end /\ r.eof = rdr.eof
      /\ (r.resyncing => rdr.resyncing /\ p.type = kMiddleType)
      /\ r.in_fragment = rdr.in_fragment /\ r.scratch = rdr.scratch
      /\ r.out = rdr.out
      /\ r.reports \in Nat /\ (~p.report => r.reports = rdr.reports)
  BY PassedFields
<1>2. /\ p.payload \in Seq(CellType) /\ p.type \in 1 .. 6 /\ p.at \in Nat
      /\ rdr.in_fragment \in BOOLEAN /\ rdr.scratch \in Seq(CellType) /\ rdr.out \in Seq(Seq(CellType))
      /\ rdr.scratch \o p.payload \in Seq(CellType)
  <2>1. /\ p.payload \in Seq(CellType) /\ p.type \in 1 .. 6 /\ p.at \in Nat
        /\ rdr.in_fragment \in BOOLEAN /\ rdr.scratch \in Seq(CellType) /\ rdr.out \in Seq(Seq(CellType))
    BY DEF ReaderType, PhysicalType
  <2>2. rdr.scratch \o p.payload \in Seq(CellType)
    BY <2>1
  <2> QED BY <2>1, <2>2
<1>3. /\ Append(rdr.out, p.payload) \in Seq(Seq(CellType))
      /\ Append(rdr.out, rdr.scratch \o p.payload) \in Seq(Seq(CellType))
  <2> DEFINE s == rdr.scratch \o p.payload
             A == Seq(CellType)
  <2>1. s \in A /\ p.payload \in A /\ rdr.out \in Seq(A)
    BY <1>2
  <2> HIDE DEF s, A
  <2>2. Append(rdr.out, p.payload) \in Seq(A) /\ Append(rdr.out, s) \in Seq(A)
    BY <2>1
  <2> QED BY <2>2 DEF s, A
<1>4. << >> \in Seq(CellType) /\ r.pc \in {"read", "done"} /\ "done" \in {"read", "done"}
        /\ r.resyncing \in BOOLEAN /\ TRUE \in BOOLEAN /\ FALSE \in BOOLEAN /\ r.at \in Nat
  <2> HIDE DEF r
  <2>1. r.resyncing \in BOOLEAN
    BY <1>1 DEF ReaderType
  <2> QED BY <1>1, <1>2, <2>1
<1> DEFINE lost == rdr.in_fragment /\ rdr.scratch # << >>
           alarm == Reported(lost, p.at, Len(rdr.scratch))
           missing == Reported(TRUE, p.at, Len(p.payload))
           cut == Reported(rdr.in_fragment, p.at, Len(rdr.scratch))
<1>5. /\ r.reports + alarm \in Nat /\ r.reports + missing \in Nat /\ r.reports + cut \in Nat
      /\ r.reports + 0 = r.reports /\ r.reports + 0 \in Nat
      /\ ~rdr.in_fragment => r.reports + alarm = r.reports
  <2>1. alarm \in {0, 1} /\ missing \in {0, 1} /\ cut \in {0, 1}
    BY ReportedOnce
  <2>2. ~rdr.in_fragment => alarm = 0
    BY ReportedOnce
  <2> HIDE DEF alarm, missing, cut, r
  <2> QED BY <1>1, <2>1, <2>2
<1> DEFINE Become(pc, in_fragment, scratch, out, alarms) ==
             [pc |-> pc, initial |-> r.initial, at |-> r.at, end |-> r.end, eof |-> r.eof,
              resyncing |-> r.resyncing, in_fragment |-> in_fragment, scratch |-> scratch,
              out |-> out, reports |-> r.reports + alarms]
<1>6. CASE rdr.resyncing /\ p.type \in {kMiddleType, kLastType}
  <2>1. rdr' = r
    BY <1>6 DEF Handled
  <2>2. ~rdr.in_fragment
    BY <1>6
  <2> HIDE DEF r
  <2>3. /\ rdr' \in ReaderType
        /\ rdr'.pc = "read" /\ rdr'.initial = rdr.initial /\ rdr'.at = p.at /\ rdr'.end = rdr.end
        /\ rdr'.eof = rdr.eof /\ (rdr'.resyncing => rdr.resyncing /\ p.type = kMiddleType)
        /\ ~rdr'.in_fragment /\ rdr'.out = rdr.out
    BY <1>1, <2>1, <2>2
  <2> QED BY <1>6, <2>2, <2>3, UnmatchedApplied
<1>7. CASE ~(rdr.resyncing /\ p.type \in {kMiddleType, kLastType})
  <2>1. rdr' = Fragmented(p, r)
    BY <1>7 DEF Handled
  <2>2. /\ p.type = kFullType =>
             rdr' = Become(r.pc, FALSE, << >>, Append(r.out, p.payload), alarm)
        /\ p.type = kFirstType => rdr' = Become(r.pc, TRUE, p.payload, r.out, alarm)
        /\ p.type = kMiddleType /\ rdr.in_fragment =>
             rdr' = Become(r.pc, r.in_fragment, r.scratch \o p.payload, r.out, 0)
        /\ p.type = kLastType /\ rdr.in_fragment =>
             rdr' = Become(r.pc, FALSE, << >>, Append(r.out, rdr.scratch \o p.payload), 0)
        /\ p.type \in {kMiddleType, kLastType} /\ ~rdr.in_fragment =>
             rdr' = Become(r.pc, r.in_fragment, r.scratch, r.out, missing)
        /\ p.type = kEof => rdr' = Become("done", r.in_fragment, r.scratch, r.out, 0)
        /\ p.type = kBadRecord => rdr' = Become(r.pc, FALSE, << >>, r.out, cut)
    BY <1>1, <2>1, FragmentedFields
  <2> HIDE DEF r, alarm, missing, cut
  <2>3. ASSUME NEW pc \in {"read", "done"}, NEW in_fragment \in BOOLEAN, NEW scratch \in Seq(CellType),
               NEW out \in Seq(Seq(CellType)), NEW alarms, r.reports + alarms \in Nat,
               rdr' = Become(pc, in_fragment, scratch, out, alarms)
        PROVE  /\ rdr' \in ReaderType
               /\ rdr'.pc = pc /\ rdr'.initial = rdr.initial /\ rdr'.at = p.at /\ rdr'.end = rdr.end
               /\ rdr'.eof = rdr.eof /\ (rdr'.resyncing => rdr.resyncing /\ p.type = kMiddleType)
               /\ rdr'.in_fragment = in_fragment /\ rdr'.scratch = scratch
               /\ rdr'.out = out /\ rdr'.reports = r.reports + alarms
    <3> DEFINE reports == r.reports + alarms
    <3>1. reports \in Nat /\ rdr' = [pc |-> pc, initial |-> r.initial, at |-> r.at, end |-> r.end,
              eof |-> r.eof, resyncing |-> r.resyncing, in_fragment |-> in_fragment,
              scratch |-> scratch, out |-> out, reports |-> reports]
      BY <2>3
    <3> HIDE DEF reports
    <3>2. /\ rdr' \in ReaderType
          /\ rdr'.pc = pc /\ rdr'.initial = r.initial /\ rdr'.at = r.at /\ rdr'.end = r.end
          /\ rdr'.eof = r.eof /\ rdr'.resyncing = r.resyncing /\ rdr'.in_fragment = in_fragment
          /\ rdr'.scratch = scratch /\ rdr'.out = out /\ rdr'.reports = reports
      BY <1>1, <1>4, <3>1, ReaderFields
    <3> QED BY <1>1, <3>2 DEF reports
  <2> HIDE DEF Become
  <2>4. CASE p.type = kFullType
    <3>1. rdr' = Become("read", FALSE, << >>, Append(rdr.out, p.payload), alarm)
      BY <1>1, <2>2, <2>4
    <3>2. /\ rdr' \in ReaderType
          /\ rdr'.pc = "read" /\ rdr'.initial = rdr.initial /\ rdr'.at = p.at /\ rdr'.end = rdr.end
          /\ rdr'.eof = rdr.eof /\ (rdr'.resyncing => rdr.resyncing /\ p.type = kMiddleType)
          /\ ~rdr'.in_fragment
          /\ rdr'.out = Append(rdr.out, p.payload) /\ rdr'.reports = r.reports + alarm
      BY <1>3, <1>4, <1>5, <2>3, <3>1
    <3>3. p.type = 1
      BY <2>4 DEF kFullType
    <3> QED BY <1>1, <1>5, <3>2, <3>3
         DEF Applied, kFullType, kFirstType, kMiddleType, kLastType, kEof, kBadRecord
  <2>5. CASE p.type = kFirstType
    <3>1. rdr' = Become("read", TRUE, p.payload, rdr.out, alarm)
      BY <1>1, <2>2, <2>5
    <3>2. /\ rdr' \in ReaderType
          /\ rdr'.pc = "read" /\ rdr'.initial = rdr.initial /\ rdr'.at = p.at /\ rdr'.end = rdr.end
          /\ rdr'.eof = rdr.eof /\ (rdr'.resyncing => rdr.resyncing /\ p.type = kMiddleType)
          /\ rdr'.in_fragment /\ rdr'.scratch = p.payload
          /\ rdr'.out = rdr.out /\ rdr'.reports = r.reports + alarm
      BY <1>2, <1>4, <1>5, <2>3, <3>1
    <3>3. p.type = 2
      BY <2>5 DEF kFirstType
    <3> QED BY <1>1, <1>5, <3>2, <3>3
         DEF Applied, kFullType, kFirstType, kMiddleType, kLastType, kEof, kBadRecord
  <2>6. CASE p.type = kMiddleType /\ rdr.in_fragment
    <3>1. rdr' = Become("read", TRUE, rdr.scratch \o p.payload, rdr.out, 0)
      BY <1>1, <1>2, <2>2, <2>6
    <3>2. /\ rdr' \in ReaderType
          /\ rdr'.pc = "read" /\ rdr'.initial = rdr.initial /\ rdr'.at = p.at /\ rdr'.end = rdr.end
          /\ rdr'.eof = rdr.eof /\ (rdr'.resyncing => rdr.resyncing /\ p.type = kMiddleType)
          /\ rdr'.in_fragment /\ rdr'.scratch = rdr.scratch \o p.payload
          /\ rdr'.out = rdr.out /\ rdr'.reports = r.reports + 0
      BY <1>2, <1>4, <1>5, <2>3, <3>1
    <3>3. p.type = 3
      BY <2>6 DEF kMiddleType
    <3> QED BY <1>1, <1>5, <2>6, <3>2, <3>3
         DEF Applied, kFullType, kFirstType, kMiddleType, kLastType, kEof, kBadRecord
  <2>7. CASE p.type = kLastType /\ rdr.in_fragment
    <3>1. rdr' = Become("read", FALSE, << >>, Append(rdr.out, rdr.scratch \o p.payload), 0)
      BY <1>1, <2>2, <2>7
    <3>2. /\ rdr' \in ReaderType
          /\ rdr'.pc = "read" /\ rdr'.initial = rdr.initial /\ rdr'.at = p.at /\ rdr'.end = rdr.end
          /\ rdr'.eof = rdr.eof /\ (rdr'.resyncing => rdr.resyncing /\ p.type = kMiddleType)
          /\ ~rdr'.in_fragment /\ rdr'.out = Append(rdr.out, rdr.scratch \o p.payload)
          /\ rdr'.reports = r.reports + 0
      BY <1>3, <1>4, <1>5, <2>3, <3>1
    <3>3. p.type = 4
      BY <2>7 DEF kLastType
    <3> QED BY <1>1, <1>5, <2>7, <3>2, <3>3
         DEF Applied, kFullType, kFirstType, kMiddleType, kLastType, kEof, kBadRecord
  <2>8. CASE p.type \in {kMiddleType, kLastType} /\ ~rdr.in_fragment
    <3>1. rdr' = Become("read", FALSE, rdr.scratch, rdr.out, missing)
      BY <1>1, <1>2, <2>2, <2>8
    <3>2. /\ rdr' \in ReaderType
          /\ rdr'.pc = "read" /\ rdr'.initial = rdr.initial /\ rdr'.at = p.at /\ rdr'.end = rdr.end
          /\ rdr'.eof = rdr.eof /\ (rdr'.resyncing => rdr.resyncing /\ p.type = kMiddleType)
          /\ ~rdr'.in_fragment /\ rdr'.out = rdr.out
      BY <1>2, <1>4, <1>5, <2>3, <3>1
    <3> QED BY <2>8, <3>2, UnmatchedApplied
  <2>9. CASE p.type = kEof
    <3>1. rdr' = Become("done", rdr.in_fragment, rdr.scratch, rdr.out, 0)
      BY <1>1, <2>2, <2>9
    <3>2. /\ rdr' \in ReaderType
          /\ rdr'.pc = "done" /\ rdr'.initial = rdr.initial /\ rdr'.at = p.at /\ rdr'.end = rdr.end
          /\ rdr'.eof = rdr.eof /\ (rdr'.resyncing => rdr.resyncing /\ p.type = kMiddleType)
          /\ rdr'.in_fragment = rdr.in_fragment /\ rdr'.out = rdr.out
          /\ rdr'.reports = r.reports + 0
      BY <1>2, <1>4, <1>5, <2>3, <3>1
    <3>3. p.type = 5
      BY <2>9 DEF kEof
    <3> QED BY <1>1, <1>5, <3>2, <3>3
         DEF Applied, kFullType, kFirstType, kMiddleType, kLastType, kEof, kBadRecord
  <2>10. CASE p.type = kBadRecord
    <3>1. rdr' = Become("read", FALSE, << >>, rdr.out, cut)
      BY <1>1, <2>2, <2>10
    <3>2. /\ rdr' \in ReaderType
          /\ rdr'.pc = "read" /\ rdr'.initial = rdr.initial /\ rdr'.at = p.at /\ rdr'.end = rdr.end
          /\ rdr'.eof = rdr.eof /\ (rdr'.resyncing => rdr.resyncing /\ p.type = kMiddleType)
          /\ ~rdr'.in_fragment /\ rdr'.out = rdr.out
      BY <1>2, <1>4, <1>5, <2>3, <3>1
    <3>3. p.type = 6
      BY <2>10 DEF kBadRecord
    <3> QED BY <3>2, <3>3
         DEF Applied, kFullType, kFirstType, kMiddleType, kLastType, kEof, kBadRecord
  <2> QED BY <1>2, <2>4, <2>5, <2>6, <2>7, <2>8, <2>9, <2>10
       DEF kFullType, kFirstType, kMiddleType, kLastType, kEof, kBadRecord
<1> QED BY <1>6, <1>7


\* Sequences with the same elements are the same.
LEMMA SameSequence ==
  ASSUME NEW S, NEW s \in Seq(S), NEW t \in Seq(S), Len(s) = Len(t),
         \A i \in 1 .. Len(s) : s[i] = t[i]
  PROVE  s = t
  OBVIOUS

\* The cells before a fragment, and its own, are the beginning of its record.
LEMMA PrefixExtended ==
  ASSUME NEW f \in FragmentType
  PROVE  Prefix(f.rec, f.pos) \o PayloadOf(f) = Prefix(f.rec, f.pos + f.n)
<1> DEFINE a == Prefix(f.rec, f.pos)
           b == PayloadOf(f)
           d == Prefix(f.rec, f.pos + f.n)
<1>1. f.rec \in Nat /\ f.pos \in Nat /\ f.n \in Nat
  BY DEF FragmentType
<1>2. ASSUME NEW q \in Nat
      PROVE  Prefix(f.rec, q) \in Seq(CellType) /\ Len(Prefix(f.rec, q)) = q
  <2>1. \A i \in 1 .. q : PayloadCell(f.rec, i - 1) \in CellType
    <3> SUFFICES ASSUME NEW i \in 1 .. q PROVE PayloadCell(f.rec, i - 1) \in CellType
      OBVIOUS
    <3>1. i - 1 \in Nat
      OBVIOUS
    <3> QED BY <1>1, <3>1 DEF PayloadCell, CellType
  <2> QED BY <2>1 DEF Prefix
<1>3. a \in Seq(CellType) /\ Len(a) = f.pos
  BY <1>1, <1>2
<1>4. b \in Seq(CellType) /\ Len(b) = f.n
  BY PayloadCells DEF PayloadOf
<1>5. d \in Seq(CellType) /\ Len(d) = f.pos + f.n
  BY <1>1, <1>2
<1>6. \A i \in 1 .. f.pos : a[i] = PayloadCell(f.rec, i - 1)
  BY DEF Prefix
<1>7. \A i \in 1 .. f.n : b[i] = PayloadCell(f.rec, f.pos + i - 1)
  BY DEF PayloadOf
<1>8. \A i \in 1 .. f.pos + f.n : d[i] = PayloadCell(f.rec, i - 1)
  BY DEF Prefix
<1> HIDE DEF a, b, d
<1>9. /\ a \o b \in Seq(CellType) /\ Len(a \o b) = f.pos + f.n
      /\ \A i \in 1 .. f.pos : (a \o b)[i] = a[i]
      /\ \A i \in 1 .. f.n : (a \o b)[f.pos + i] = b[i]
  <2>1. a \in Seq(CellType) /\ b \in Seq(CellType)
    BY <1>3, <1>4
  <2>2. /\ a \o b \in Seq(CellType) /\ Len(a \o b) = Len(a) + Len(b)
        /\ \A i \in 1 .. Len(a) : (a \o b)[i] = a[i]
        /\ \A i \in 1 .. Len(b) : (a \o b)[Len(a) + i] = b[i]
    BY <2>1, Concatenated
  <2> QED BY <1>3, <1>4, <2>2
<1> DEFINE ab == a \o b
<1>10. ab \in Seq(CellType) /\ Len(ab) = f.pos + f.n
  BY <1>9
<1>11. ASSUME NEW i \in 1 .. f.pos + f.n PROVE ab[i] = d[i]
  <2>1. CASE i <= f.pos
    <3>1. i \in 1 .. f.pos
      BY <1>1, <2>1
    <3> QED BY <1>6, <1>8, <1>9, <3>1
  <2>2. CASE i > f.pos
    <3>1. i - f.pos \in 1 .. f.n /\ f.pos + (i - f.pos) = i
      BY <1>1, <2>2
    <3>2. ab[f.pos + (i - f.pos)] = b[i - f.pos]
      BY <1>9, <3>1
    <3>3. b[i - f.pos] = PayloadCell(f.rec, f.pos + (i - f.pos) - 1)
      BY <1>7, <3>1
    <3>4. f.pos + (i - f.pos) - 1 = i - 1
      BY <1>1
    <3> HIDE DEF ab
    <3>5. d[i] = PayloadCell(f.rec, i - 1)
      BY <1>8
    <3>6. ab[i] = b[i - f.pos]
      BY <3>1, <3>2
    <3> QED BY <3>3, <3>4, <3>5, <3>6
  <2>3. i <= f.pos \/ i > f.pos
    BY <1>1
  <2> HIDE DEF ab
  <2> QED BY <2>1, <2>2, <2>3
<1> HIDE DEF ab
<1>12. ab = d
  BY <1>5, <1>10, <1>11, SameSequence
<1> QED BY <1>12 DEF a, b, d, ab

\* A fragment has a place, an end after it, and a record.
LEMMA PlacesOf ==
  ASSUME NEW L, NEW c, FileInv(L, c), NEW f \in L
  PROVE  /\ f.at \in Nat /\ End(f) \in Nat /\ f.at < End(f) /\ f.rec \in Nat
         /\ f.rec \in DOMAIN sizes
<1>1. /\ f.at \in Nat /\ End(f) \in Nat /\ f.rec \in Nat /\ f.rec \in DOMAIN sizes
      /\ f.at + kHeaderSize <= End(f)
  BY RecordTypes
<1> QED BY <1>1, LogAssumption

\* Another fragment is before a whole one or after it, and so is its record.
LEMMA BeforeOrAfter ==
  ASSUME NEW L, NEW c, FileInv(L, c), NEW f \in L, Stop(f, c) = End(f), NEW h \in L
  PROVE  \/ h = f
         \/ /\ h.at < f.at /\ Stop(h, c) <= f.at /\ h.rec <= f.rec
            /\ Finishes(h) \/ Begins(f) => h.rec < f.rec
         \/ /\ f.at < h.at /\ End(f) <= h.at /\ f.rec <= h.rec
            /\ Finishes(f) \/ Begins(h) => f.rec < h.rec
<1>1. f.at \in Nat /\ h.at \in Nat
  BY RecordTypes
<1>2. CASE h.at = f.at
  BY <1>2 DEF FileInv, InOrder
<1>3. CASE h.at < f.at
  BY <1>3 DEF FileInv, InOrder
<1>4. CASE f.at < h.at
  <2>1. /\ Stop(f, c) <= h.at /\ f.rec <= h.rec
        /\ Finishes(f) \/ Begins(h) => f.rec < h.rec
    BY <1>4 DEF FileInv, InOrder
  <2> QED BY <1>4, <2>1
<1> QED BY <1>1, <1>2, <1>3, <1>4

\* The fragment that ends where the reader is, is the last before it.
LEMMA LastIsIt ==
  ASSUME NEW L, NEW c, FileInv(L, c), NEW f \in L, Stop(f, c) = End(f), NEW x \in L
  PROVE  LastBefore(L, x, End(f)) <=> x = f
<1>1. f.at \in Nat /\ x.at \in Nat /\ End(f) \in Nat /\ f.at < End(f)
  BY RecordTypes
<1>2. LastBefore(L, f, End(f))
  <2> SUFFICES ASSUME NEW h \in L, h.at > f.at PROVE h.at >= End(f)
    BY <1>1 DEF LastBefore
  <2>1. h.at \in Nat
    BY RecordTypes
  <2> QED BY <1>1, <2>1, BeforeOrAfter
<1>3. LastBefore(L, x, End(f)) => x = f
  <2> SUFFICES ASSUME LastBefore(L, x, End(f)), x # f PROVE FALSE
    OBVIOUS
  <2>1. x.at < End(f) /\ (f.at > x.at => f.at >= End(f))
    BY DEF LastBefore
  <2> QED BY <1>1, <2>1, BeforeOrAfter
<1> QED BY <1>2, <1>3

\* The reader past a whole fragment is between fragments.
LEMMA PastFragment ==
  ASSUME NEW L, NEW c, FileInv(L, c), ReaderInv(L, c), rdr.end - rdr.at >= kHeaderSize,
         NEW f \in L, f.at = rdr.at, Stop(f, c) = End(f), End(f) <= rdr.end,
         rdr'.at = End(f), rdr'.end = rdr.end, rdr'.eof = rdr.eof, file' = file
  PROVE  BufferSound' /\ BetweenFragments(L, c)'
<1>1. /\ rdr.at \in Nat /\ rdr.end \in Nat /\ rdr.at < rdr.end /\ rdr.end <= Base(rdr.at) + kBlock
      /\ Base(rdr.at) \in Nat /\ Base(rdr.at) <= rdr.at
  BY FragmentHere
<1>2. f.at \in Nat /\ End(f) \in Nat /\ f.at < End(f)
  BY RecordTypes
<1>3. BufferSound'
  <2>1. /\ rdr.end = (IF Base(rdr.at) + kBlock <= Len(file) THEN Base(rdr.at) + kBlock ELSE Len(file))
        /\ ~rdr.eof => Base(rdr.end) = rdr.end
        /\ rdr.eof => Len(file) <= rdr.end
    BY <1>1 DEF ReaderInv, BufferSound
  <2>2. End(f) < rdr.end => Base(End(f)) = Base(rdr.at)
    <3> SUFFICES ASSUME End(f) < rdr.end PROVE Base(End(f)) = Base(rdr.at)
      OBVIOUS
    <3>1. Base(rdr.at) <= End(f) /\ End(f) < Base(rdr.at) + kBlock
      BY <1>1, <1>2, LogAssumption
    <3> QED BY <1>1, <1>2, <3>1, SameBlock
  <2> QED BY <1>2, <2>1, <2>2 DEF BufferSound
<1>4. BetweenFragments(L, c)'
  <2> SUFFICES ASSUME NEW h \in L PROVE Stop(h, c) <= End(f) \/ End(f) <= h.at
    BY DEF BetweenFragments
  <2>1. Stop(h, c) \in Nat /\ h.at \in Nat
    BY RecordTypes
  <2> QED BY <1>2, <2>1, BeforeOrAfter
<1> QED BY <1>3, <1>4

\* The reader at the end of its buffer is between fragments.
LEMMA PastBuffer ==
  ASSUME NEW L, NEW c, FileInv(L, c), ReaderInv(L, c),
         rdr'.at = rdr.end, rdr'.end = rdr.end, rdr'.eof = rdr.eof, file' = file
  PROVE  BufferSound' /\ BetweenFragments(L, c)'
<1>1. /\ rdr.end \in Nat /\ Len(file) \in Nat
      /\ ~rdr.eof => Base(rdr.end) = rdr.end
      /\ rdr.eof => Len(file) <= rdr.end
  BY RecordTypes DEF ReaderInv, ReaderType, BufferSound
<1>2. BufferSound'
  BY <1>1 DEF BufferSound
<1>3. BetweenFragments(L, c)'
  <2> SUFFICES ASSUME NEW h \in L PROVE Stop(h, c) <= rdr.end \/ rdr.end <= h.at
    BY DEF BetweenFragments
  <2>1. Stop(h, c) \in Nat /\ h.at \in Nat /\ End(h) \in Nat /\ Stop(h, c) <= End(h)
    BY RecordTypes
  <2>2. CASE rdr.eof
    <3>1. Stop(h, c) <= Len(file)
      BY DEF FileInv, Placed
    <3> QED BY <1>1, <2>1, <2>2, <3>1
  <2>3. CASE ~rdr.eof
    <3>1. End(h) <= rdr.end \/ rdr.end <= h.at
      BY <1>1, <2>3, FragmentsInBlocks
    <3> QED BY <1>1, <2>1, <3>1
  <2> QED BY <2>2, <2>3
<1> QED BY <1>2, <1>3

\* What was gathered before a fragment that goes on, with it, is the beginning of its record.
LEMMA Gathered ==
  ASSUME NEW L, NEW c, FileInv(L, c), ReaderInv(L, c), rdr.pc = "read", rdr.in_fragment,
         NEW f \in L, f.at = rdr.at, ~Begins(f)
  PROVE  rdr.scratch \o PayloadOf(f) = Prefix(f.rec, f.pos + f.n)
<1>1. PICK g \in L : /\ LastBefore(L, g, rdr.at) /\ rdr.scratch = Prefix(g.rec, g.pos + g.n)
  BY DEF ReaderInv, ScratchSound
<1>2. PICK x \in L : LastBefore(L, x, f.at) /\ x.rec = f.rec /\ x.pos + x.n = f.pos
  BY DEF FileInv, Chained
<1>3. g = x
  <2>1. g.at \in Nat /\ x.at \in Nat /\ f.at \in Nat
    BY RecordTypes
  <2>2. g.at = x.at
    BY <1>1, <1>2, <2>1 DEF LastBefore
  <2> QED BY <2>2 DEF FileInv, InOrder
<1>4. f \in FragmentType
  BY RecordTypes
<1> QED BY <1>1, <1>2, <1>3, <1>4, PrefixExtended


-----------------------------------------------------------------------------
(* What ReadRecord's handling of a physical record preserves *)

\* Nothing is returned and the reader moves on.
LEMMA OutKept ==
  ASSUME NEW L, NEW c, FileInv(L, c), ReaderInv(L, c), rdr'.out = rdr.out, rdr'.at \in Nat,
         rdr.at <= rdr'.at, sizes' = sizes
  PROVE  OutSound(L)'
<1>1. PICK pick \in [DOMAIN rdr.out -> DOMAIN sizes] :
        /\ \A i \in DOMAIN rdr.out : rdr.out[i] = Contents2(pick[i])
        /\ \A i, j \in DOMAIN rdr.out : i < j => pick[i] < pick[j]
        /\ \A i \in DOMAIN rdr.out : \A g \in L : rdr.at <= g.at => pick[i] < g.rec
  BY DEF ReaderInv, OutSound
<1>2. \A i \in DOMAIN rdr.out : Contents2(pick[i])' = Contents2(pick[i])
  BY DEF Contents2
<1>3. \A g \in L : rdr'.at <= g.at => rdr.at <= g.at
  <2>1. rdr.at \in Nat /\ \A g \in L : g.at \in Nat
    BY RecordTypes DEF ReaderInv, ReaderType
  <2> QED BY <2>1
<1> QED BY <1>1, <1>2, <1>3 DEF OutSound

\* The record that ends here is returned.
LEMMA OutGrown ==
  ASSUME NEW L, NEW c, FileInv(L, c), ReaderInv(L, c), NEW f \in L, f.at = rdr.at,
         Stop(f, c) = End(f), Finishes(f), rdr'.out = Append(rdr.out, Contents2(f.rec)),
         rdr'.at = End(f), sizes' = sizes
  PROVE  OutSound(L)'
<1> DEFINE new == Contents2(f.rec)
<1>1. PICK pick \in [DOMAIN rdr.out -> DOMAIN sizes] :
        /\ \A i \in DOMAIN rdr.out : rdr.out[i] = Contents2(pick[i])
        /\ \A i, j \in DOMAIN rdr.out : i < j => pick[i] < pick[j]
        /\ \A i \in DOMAIN rdr.out : \A g \in L : rdr.at <= g.at => pick[i] < g.rec
  BY DEF ReaderInv, OutSound
<1>2. /\ f.rec \in DOMAIN sizes /\ f.rec \in Nat /\ f.at \in Nat /\ End(f) \in Nat /\ f.at < End(f)
      /\ DOMAIN sizes \subseteq Nat
  BY RecordTypes
<1>3. PICK m \in Nat : m = Len(rdr.out) /\ DOMAIN rdr.out = 1 .. m
  <2>1. rdr.out \in Seq(Seq(CellType))
    BY DEF ReaderInv, ReaderType
  <2>2. Len(rdr.out) \in Nat /\ DOMAIN rdr.out = 1 .. Len(rdr.out)
    BY <2>1
  <2> QED BY <2>2
<1>4. /\ DOMAIN rdr'.out = 1 .. m + 1
      /\ \A i \in 1 .. m : rdr'.out[i] = rdr.out[i]
      /\ rdr'.out[m + 1] = new
  <2>1. rdr.out \in Seq(Seq(CellType))
    BY DEF ReaderInv, ReaderType
  <2> HIDE DEF new
  <2>2. rdr'.out = Append(rdr.out, new)
    BY DEF new
  <2> QED BY <1>3, <2>1, <2>2
<1>5. PICK pick2 \in [1 .. m + 1 -> DOMAIN sizes] :
        pick2[m + 1] = f.rec /\ \A i \in 1 .. m : pick2[i] = pick[i] /\ pick[i] \in DOMAIN sizes
  <2> DEFINE q == [i \in 1 .. m + 1 |-> IF i = m + 1 THEN f.rec ELSE pick[i]]
  <2>1. \A i \in 1 .. m : pick[i] \in DOMAIN sizes
    BY <1>3
  <2>2. \A i \in 1 .. m + 1 : i = m + 1 \/ i \in 1 .. m
    BY <1>3
  <2>3. q \in [1 .. m + 1 -> DOMAIN sizes]
    BY <1>2, <2>1, <2>2
  <2>4. q[m + 1] = f.rec
    BY <1>3
  <2>5. \A i \in 1 .. m : q[i] = pick[i]
    BY <1>3
  <2> HIDE DEF q
  <2> QED BY <2>1, <2>3, <2>4, <2>5
<1>6. ASSUME NEW i \in 1 .. m + 1
      PROVE  rdr'.out[i] = Contents2(pick2[i])
  <2>1. CASE i = m + 1
    <3> QED BY <1>4, <1>5, <2>1
  <2>2. CASE i # m + 1
    <3>1. i \in 1 .. m
      BY <1>3, <2>2
    <3> QED BY <1>1, <1>3, <1>4, <1>5, <3>1
  <2> QED BY <2>1, <2>2
<1>7. ASSUME NEW i \in 1 .. m + 1, NEW j \in 1 .. m + 1, i < j
      PROVE  pick2[i] < pick2[j]
  <2>1. i \in 1 .. m
    BY <1>3, <1>7
  <2>2. CASE j = m + 1
    <3>1. pick[i] < f.rec
      BY <1>1, <1>2, <1>3, <2>1
    <3> QED BY <1>5, <2>1, <2>2, <3>1
  <2>3. CASE j # m + 1
    <3>1. j \in 1 .. m
      BY <1>3, <2>3
    <3>2. pick[i] < pick[j]
      BY <1>1, <1>3, <1>7, <2>1, <3>1
    <3> QED BY <1>5, <2>1, <3>1, <3>2
  <2> QED BY <2>2, <2>3
<1>8. ASSUME NEW i \in 1 .. m + 1, NEW g \in L, End(f) <= g.at
      PROVE  pick2[i] < g.rec
  <2>1. g.at \in Nat /\ g.rec \in Nat
    BY RecordTypes
  <2>2. f.rec < g.rec
    <3>1. f # g /\ ~(g.at < f.at)
      BY <1>2, <1>8, <2>1
    <3> QED BY <3>1, BeforeOrAfter
  <2>3. CASE i = m + 1
    BY <1>5, <2>2, <2>3
  <2>4. CASE i # m + 1
    <3>1. i \in 1 .. m
      BY <1>3, <2>4
    <3>2. pick[i] < g.rec
      BY <1>1, <1>2, <1>3, <1>8, <2>1, <3>1
    <3> QED BY <1>5, <3>1, <3>2
  <2> QED BY <2>3, <2>4
<1> HIDE DEF new
<1>9. \A i \in 1 .. m + 1 : Contents2(pick2[i])' = Contents2(pick2[i])
  BY DEF Contents2
<1>10. /\ pick2 \in [DOMAIN rdr'.out -> DOMAIN sizes']
       /\ \A i \in DOMAIN rdr'.out : rdr'.out[i] = Contents2(pick2[i])'
       /\ \A i, j \in DOMAIN rdr'.out : i < j => pick2[i] < pick2[j]
       /\ \A i \in DOMAIN rdr'.out : \A g \in L : rdr'.at <= g.at => pick2[i] < g.rec
  BY <1>4, <1>5, <1>6, <1>7, <1>8, <1>9
<1> QED BY <1>10 DEF OutSound

\* What LossConfined speaks of is about the file.
LEMMA ScopeFrozen ==
  ASSUME UNCHANGED <<file, writer, sizes, starts, ends, damaged, torn>>, rdr'.initial = rdr.initial
  PROVE  /\ \A r \in DOMAIN sizes : InScope(r)' <=> InScope(r)
         /\ \A r \in DOMAIN sizes : Contents2(r)' = Contents2(r)
<1>1. \A r \in DOMAIN sizes : InScope(r)' <=> InScope(r)
  BY DEF InScope, Complete, Touched
<1>2. \A r \in DOMAIN sizes : Contents2(r)' = Contents2(r)
  BY DEF Contents2
<1> QED BY <1>1, <1>2

\* A fragment is passed: the record that ends here was returned, and of the one
\* that goes on the beginning is kept.
LEMMA FragmentLosesNothing ==
  ASSUME NEW L, NEW c, FileInv(L, c), ReaderInv(L, c), NEW f \in L, f.at = rdr.at,
         Stop(f, c) = End(f), UNCHANGED <<file, writer, sizes, starts, ends, damaged, torn>>,
         rdr'.pc = "read", rdr'.initial = rdr.initial, rdr'.at = End(f),
         \A i \in DOMAIN rdr.out : i \in DOMAIN rdr'.out /\ rdr'.out[i] = rdr.out[i],
         rdr.initial <= rdr.at =>
           /\ Finishes(f) /\ (Begins(f) \/ rdr.in_fragment)
                => \E i \in DOMAIN rdr'.out : rdr'.out[i] = Contents2(f.rec)
           /\ Begins(f) /\ ~Finishes(f) => rdr'.in_fragment
           /\ ~Begins(f) /\ ~Finishes(f) /\ rdr.in_fragment => rdr'.in_fragment
  PROVE  NothingLost'
<1> SUFFICES ASSUME torn # "reused", NEW r \in DOMAIN sizes, InScope(r)
             PROVE  /\ ends[r] <= End(f) => \E i \in DOMAIN rdr'.out : rdr'.out[i] = Contents2(r)
                    /\ starts[r] - 1 < End(f) /\ End(f) < ends[r] => rdr'.in_fragment
  BY ScopeFrozen DEF NothingLost
<1>1. PICK a \in L, e \in L :
        /\ a.rec = r /\ Begins(a) /\ a.at = starts[r] - 1
        /\ e.rec = r /\ Finishes(e) /\ Stop(e, c) = End(e) /\ End(e) = ends[r]
        /\ a.at <= e.at
  BY WholeRecord DEF InScope
<1>2. /\ a.at \in Nat /\ e.at \in Nat /\ f.at \in Nat /\ End(f) \in Nat /\ End(e) \in Nat
      /\ f.at < End(f) /\ e.at < End(e) /\ a.rec \in Nat /\ e.rec \in Nat /\ f.rec \in Nat
      /\ rdr.initial \in Nat /\ rdr.at \in Nat
  <2>1. rdr.initial \in Nat /\ rdr.at \in Nat
    BY DEF ReaderInv, ReaderType
  <2>2. /\ f.at \in Nat /\ f.rec \in Nat /\ End(f) \in Nat /\ f.at < End(f)
        /\ e.at \in Nat /\ e.rec \in Nat /\ End(e) \in Nat /\ e.at < End(e)
    <3>1. \A h \in L : h.at \in Nat /\ h.rec \in Nat /\ End(h) \in Nat /\ h.at < End(h)
      BY PlacesOf
    <3> QED BY <3>1
  <2>3. a.at \in Nat /\ a.rec \in Nat
    BY PlacesOf
  <2> QED BY <2>1, <2>2, <2>3
<1>3. /\ ends[r] <= rdr.at => \E i \in DOMAIN rdr.out : rdr.out[i] = Contents2(r)
      /\ starts[r] - 1 < rdr.at /\ rdr.at < ends[r] => rdr.in_fragment
  BY DEF ReaderInv, NothingLost
<1>4. starts[r] - 1 >= rdr.initial
  BY DEF InScope
<1>5. Stop(e, c) <= rdr.at \/ rdr.at <= e.at
  BY DEF ReaderInv, BetweenFragments
<1>6. ASSUME ends[r] <= End(f)
      PROVE  \E i \in DOMAIN rdr'.out : rdr'.out[i] = Contents2(r)
  <2>1. CASE ends[r] <= rdr.at
    BY <1>3, <2>1
  <2>2. CASE ~(ends[r] <= rdr.at)
    <3>1. e = f
      BY <1>1, <1>2, <1>5, <1>6, <2>2, BeforeOrAfter
    <3>2. rdr.initial <= rdr.at
      BY <1>1, <1>2, <1>4, <3>1
    <3>3. Begins(f) \/ rdr.in_fragment
      <4> SUFFICES ASSUME ~Begins(f) PROVE rdr.in_fragment
        OBVIOUS
      <4>1. a # f
        BY <1>1
      <4>2. a.at # f.at
        BY <4>1 DEF FileInv, InOrder
      <4> QED BY <1>1, <1>2, <1>3, <2>2, <3>1, <4>2
    <3> QED BY <1>1, <3>1, <3>2, <3>3
  <2> QED BY <2>1, <2>2
<1>7. ASSUME starts[r] - 1 < End(f), End(f) < ends[r]
      PROVE  rdr'.in_fragment
  <2>1. End(f) <= e.at /\ f.rec <= e.rec /\ (Finishes(f) => f.rec < e.rec)
    <3>1. e # f
      BY <1>1, <1>2, <1>7
    <3>2. ~(e.at < f.at /\ Stop(e, c) <= f.at)
      BY <1>1, <1>2, <1>7
    <3> QED BY <3>1, <3>2, BeforeOrAfter
  <2>2. \/ a = f
        \/ a.at < f.at /\ a.rec <= f.rec /\ (Begins(f) => a.rec < f.rec)
    BY <1>1, <1>2, <1>7, BeforeOrAfter
  <2>3. rdr.initial <= rdr.at
    BY <1>1, <1>2, <1>4, <2>2
  <2>4. ~Finishes(f)
    BY <1>1, <1>2, <2>1, <2>2
  <2>5. CASE a = f
    BY <1>1, <2>3, <2>4, <2>5
  <2>6. CASE a.at < f.at /\ a.rec <= f.rec /\ (Begins(f) => a.rec < f.rec)
    <3>1. ~Begins(f)
      BY <1>1, <1>2, <2>1, <2>6
    <3>2. rdr.in_fragment
      BY <1>1, <1>2, <1>3, <1>7, <2>6
    <3> QED BY <2>3, <2>4, <3>1, <3>2
  <2> QED BY <2>2, <2>5, <2>6
<1> QED BY <1>6, <1>7


\* A record with cells in the rest of a block is in the block.
LEMMA TouchedHere ==
  ASSUME NEW L, NEW c, FileInv(L, c), ReaderInv(L, c), rdr.end - rdr.at >= kHeaderSize,
         NEW d \in damaged, d \in Nat \ {0}, Base(d - 1) = Base(rdr.at),
         NEW r \in DOMAIN sizes, Complete(r), rdr.at < ends[r], starts[r] - 1 < rdr.end
  PROVE  Touched(r)
<1>1. /\ rdr.at \in Nat /\ rdr.end \in Nat /\ rdr.at < rdr.end /\ rdr.end <= Base(rdr.at) + kBlock
      /\ Base(rdr.at) \in Nat /\ Base(rdr.at) <= rdr.at
  BY FragmentHere
<1>2. starts[r] \in Nat /\ ends[r] \in Nat /\ starts[r] - 1 \in Nat /\ starts[r] - 1 < ends[r]
  <2>1. PICK a \in L, e \in L : /\ a.at = starts[r] - 1 /\ a.at <= e.at /\ e.at + kHeaderSize <= ends[r]
    BY WholeRecord
  <2>2. a.at \in Nat /\ e.at \in Nat
    BY PlacesOf
  <2>3. starts[r] \in Nat /\ ends[r] \in Nat
    BY RecordTypes
  <2> QED BY <2>1, <2>2, <2>3, LogAssumption
<1>3. PICK i \in Nat \ {0} : i \in starts[r] .. ends[r] /\ rdr.at < i /\ i <= rdr.end
  <2>1. CASE starts[r] <= rdr.at
    <3>1. rdr.at + 1 \in Nat \ {0} /\ rdr.at + 1 \in starts[r] .. ends[r]
            /\ rdr.at < rdr.at + 1 /\ rdr.at + 1 <= rdr.end
      BY <1>1, <1>2, <2>1
    <3> QED BY <3>1
  <2>2. CASE ~(starts[r] <= rdr.at)
    <3>1. starts[r] \in Nat \ {0} /\ starts[r] \in starts[r] .. ends[r]
            /\ rdr.at < starts[r] /\ starts[r] <= rdr.end
      BY <1>1, <1>2, <2>2
    <3> QED BY <3>1
  <2> QED BY <2>1, <2>2
<1>4. Base(i - 1) = Base(rdr.at)
  <2> DEFINE x == i - 1
  <2>1. x \in Nat /\ Base(rdr.at) <= x /\ x < Base(rdr.at) + kBlock
    BY <1>1, <1>3, LogAssumption
  <2> HIDE DEF x
  <2>2. Base(x) = Base(rdr.at)
    BY <1>1, <2>1, SameBlock
  <2> QED BY <2>2 DEF x
<1>5. Base(i - 1) = Base(d - 1)
  BY <1>4
<1>6. BlockOf(i) = BlockOf(d)
  BY <1>5, SameBlockOf
<1> QED BY <1>3, <1>6 DEF Touched

\* The rest of a block is dropped: every record with a part in it is touched,
\* or cut by the end of the file.
LEMMA DropLosesNothing ==
  ASSUME NEW L, NEW c, FileInv(L, c), ReaderInv(L, c), rdr.end - rdr.at >= kHeaderSize,
         NEW f \in L, f.at = rdr.at, NEW p, Dropped(p) \/ CutOff(f, c, p),
         UNCHANGED <<file, writer, sizes, starts, ends, damaged, torn>>,
         rdr'.pc = "done" => rdr.eof, rdr'.initial = rdr.initial, rdr'.at = rdr.end,
         rdr'.out = rdr.out
  PROVE  NothingLost'
<1> SUFFICES ASSUME torn # "reused", NEW r \in DOMAIN sizes, InScope(r)
             PROVE  /\ ends[r] <= rdr.end => \E i \in DOMAIN rdr.out : rdr.out[i] = Contents2(r)
                    /\ ~(starts[r] - 1 < rdr.end /\ rdr.end < ends[r])
                    /\ rdr.eof => ends[r] <= rdr.end
  BY ScopeFrozen DEF NothingLost
<1>1. PICK a \in L, e \in L :
        /\ a.at = starts[r] - 1 /\ Stop(e, c) = End(e) /\ End(e) = ends[r]
        /\ a.at <= e.at /\ ends[r] <= Len(file)
  BY WholeRecord DEF InScope
<1>2. /\ a.at \in Nat /\ e.at \in Nat /\ End(e) \in Nat /\ e.at < End(e)
      /\ rdr.at \in Nat /\ rdr.end \in Nat /\ Len(file) \in Nat /\ rdr.at < rdr.end
  <2>1. rdr.at \in Nat /\ rdr.end \in Nat /\ rdr.at < rdr.end
    BY FragmentHere
  <2>2. Len(file) \in Nat
    BY RecordTypes
  <2>3. a.at \in Nat /\ e.at \in Nat /\ End(e) \in Nat /\ e.at < End(e)
    BY PlacesOf
  <2> QED BY <2>1, <2>2, <2>3
<1>3. ends[r] <= rdr.at => \E i \in DOMAIN rdr.out : rdr.out[i] = Contents2(r)
  BY DEF ReaderInv, NothingLost
<1>4. rdr.eof => Len(file) <= rdr.end
  BY DEF ReaderInv, BufferSound
<1>5. starts[r] - 1 < rdr.end => ends[r] <= rdr.at
  <2> SUFFICES ASSUME starts[r] - 1 < rdr.end, ~(ends[r] <= rdr.at) PROVE FALSE
    OBVIOUS
  <2>1. rdr.at < ends[r]
    BY <1>1, <1>2
  <2>2. CASE Dropped(p)
    <3>1. PICK d \in damaged : d \in Nat \ {0} /\ Base(d - 1) = Base(rdr.at)
      BY <2>2 DEF Dropped
    <3>2. Complete(r) /\ ~Touched(r)
      BY DEF InScope
    <3> QED BY <2>1, <3>1, <3>2, TouchedHere
  <2>3. CASE CutOff(f, c, p)
    <3>1. f.at < c /\ c < End(f) /\ c = Len(file) /\ Stop(f, c) = c
      BY <2>3 DEF CutOff, Stop
    <3>2. e # f
      <4>1. End(f) \in Nat
        BY PlacesOf
      <4> QED BY <1>1, <1>2, <3>1, <4>1
    <3>3. Stop(e, c) <= rdr.at \/ rdr.at <= e.at
      BY DEF ReaderInv, BetweenFragments
    <3>4. f.at < e.at
      <4>1. f.at # e.at
        BY <3>2 DEF FileInv, InOrder
      <4> QED BY <1>1, <1>2, <2>1, <3>3, <4>1
    <3>5. c <= e.at
      BY <3>1, <3>4 DEF FileInv, InOrder
    <3> QED BY <1>1, <1>2, <3>1, <3>5
  <2> QED BY <2>2, <2>3
<1>6. starts[r] - 1 < ends[r] /\ ends[r] \in Nat
  BY <1>1, <1>2
<1>7. ends[r] <= rdr.end => ends[r] <= rdr.at
  BY <1>1, <1>2, <1>5, <1>6
<1>8. ~(starts[r] - 1 < rdr.end /\ rdr.end < ends[r])
  BY <1>1, <1>2, <1>5, <1>6
<1>9. rdr.eof => ends[r] <= rdr.end
  BY <1>1, <1>2, <1>4
<1> QED BY <1>3, <1>7, <1>8, <1>9

\* In an undamaged file read from its start, what the reader gathered is still
\* to be finished, and a fragment that goes on finds its beginning gathered.
LEMMA Expected ==
  ASSUME NEW L, NEW c, FileInv(L, c), ReaderInv(L, c), rdr.pc = "read", torn # "reused", damaged = {},
         rdr.initial = 0, NEW f \in L, f.at = rdr.at, Stop(f, c) = End(f)
  PROVE  Begins(f) <=> ~rdr.in_fragment
<1>1. ASSUME Begins(f), rdr.in_fragment PROVE FALSE
  <2>1. PICK g \in L : ~Finishes(g) /\ LastBefore(L, g, rdr.at)
    BY <1>1 DEF ReaderInv, ScratchSound
  <2>2. g.at < f.at /\ \A h \in L : h.at > g.at => h.at >= f.at
    BY <2>1 DEF LastBefore
  <2>3. g.rec < f.rec
    BY <1>1, <2>2 DEF FileInv, InOrder
  <2>4. PICK h \in L : h.rec = g.rec /\ Finishes(h)
    BY <2>3 DEF FileInv, Followed
  <2>5. /\ h.at \in Nat /\ g.at \in Nat /\ f.at \in Nat /\ h.rec \in Nat /\ g.rec \in Nat /\ f.rec \in Nat
    BY PlacesOf
  <2>6. h.at # g.at
    BY <2>1, <2>4 DEF FileInv, InOrder
  <2>7. h.at < g.at => h.rec < g.rec
    BY <2>4 DEF FileInv, InOrder
  <2>8. h.at >= f.at
    BY <2>2, <2>4, <2>5, <2>6, <2>7
  <2>9. f.rec <= h.rec
    <3>1. ~(h.at < f.at)
      BY <2>5, <2>8
    <3> QED BY <2>5, <3>1, BeforeOrAfter
  <2> QED BY <2>3, <2>4, <2>5, <2>9
<1>2. ASSUME ~Begins(f) PROVE rdr.in_fragment
  <2>1. PICK x \in L : LastBefore(L, x, f.at) /\ ~Finishes(x)
    BY <1>2 DEF FileInv, Chained
  <2> QED BY <2>1 DEF ReaderInv, Quiet
<1> QED BY <1>1, <1>2


\* The payload of a fragment that begins a record is the record's beginning.
LEMMA BeginningOf ==
  ASSUME NEW L, NEW c, FileInv(L, c), NEW f \in L, Begins(f)
  PROVE  PayloadOf(f) = Prefix(f.rec, f.pos + f.n)
<1>1. f.pos = 0 /\ f.n \in Nat
  BY RecordTypes DEF FileInv, Placed
<1>2. f.pos + f.n = f.n /\ \A i \in 1 .. f.n : f.pos + i - 1 = i - 1
  BY <1>1
<1> QED BY <1>2 DEF PayloadOf, Prefix

\* All of a record is its contents.
LEMMA EndOf ==
  ASSUME NEW L, NEW c, FileInv(L, c), NEW f \in L, Finishes(f)
  PROVE  Prefix(f.rec, f.pos + f.n) = Contents2(f.rec)
<1>1. f.pos + f.n = sizes[f.rec]
  BY DEF FileInv, Placed
<1> QED BY <1>1 DEF Prefix, Contents2

\* What becomes of the reader at a whole fragment.
LEMMA GoodFields ==
  ASSUME NEW L, NEW c, FileInv(L, c), ReaderInv(L, c), rdr.pc = "read",
         NEW f \in L, f.at = rdr.at, NEW p \in PhysicalType, Good(f, c, p), Applied(p)
  PROVE  /\ Finishes(f) /\ (Begins(f) \/ rdr.in_fragment) => rdr'.out = Append(rdr.out, Contents2(f.rec))
         /\ ~(Finishes(f) /\ (Begins(f) \/ rdr.in_fragment)) => rdr'.out = rdr.out
         /\ ~Finishes(f) /\ (Begins(f) \/ rdr.in_fragment)
              => rdr'.in_fragment /\ rdr'.scratch = Prefix(f.rec, f.pos + f.n)
         /\ Finishes(f) \/ (~Begins(f) /\ ~rdr.in_fragment) => ~rdr'.in_fragment
         /\ (Begins(f) <=> ~rdr.in_fragment) => rdr'.reports = rdr.reports
         /\ rdr'.pc = "read" /\ rdr'.at = End(f)
<1>1. /\ p.type = f.type /\ p.payload = PayloadOf(f) /\ p.at = End(f) /\ ~p.report
  BY DEF Good
<1>2. f.type \in 1 .. 4
  BY RecordTypes DEF FragmentType
<1>3. Begins(f) => p.payload = Prefix(f.rec, f.pos + f.n)
  BY <1>1, BeginningOf
<1>4. ~Begins(f) /\ rdr.in_fragment => rdr.scratch \o p.payload = Prefix(f.rec, f.pos + f.n)
  BY <1>1, Gathered
<1>5. Finishes(f) => Prefix(f.rec, f.pos + f.n) = Contents2(f.rec)
  BY EndOf
<1>6. rdr'.pc = "read" /\ rdr'.at = End(f)
  BY <1>1, <1>2 DEF Applied, kEof
<1>7. CASE f.type = kFullType
  <2>1. Begins(f) /\ Finishes(f)
    BY <1>7 DEF Begins, Finishes
  <2>2. rdr'.out = Append(rdr.out, p.payload) /\ ~rdr'.in_fragment
    BY <1>1, <1>7 DEF Applied
  <2>3. ~rdr.in_fragment => rdr'.reports = rdr.reports
    BY <1>1, <1>7 DEF Applied
  <2> QED BY <1>3, <1>5, <1>6, <2>1, <2>2, <2>3
<1>8. CASE f.type = kFirstType
  <2>1. Begins(f) /\ ~Finishes(f)
    BY <1>8 DEF Begins, Finishes, kFullType, kFirstType, kLastType
  <2>2. rdr'.out = rdr.out /\ rdr'.in_fragment /\ rdr'.scratch = p.payload
    BY <1>1, <1>8 DEF Applied
  <2>3. ~rdr.in_fragment => rdr'.reports = rdr.reports
    BY <1>1, <1>8 DEF Applied
  <2> QED BY <1>3, <1>6, <2>1, <2>2, <2>3
<1>9. CASE f.type = kMiddleType
  <2>1. ~Begins(f) /\ ~Finishes(f)
    BY <1>9 DEF Begins, Finishes, kFullType, kFirstType, kLastType, kMiddleType
  <2>2. CASE rdr.in_fragment
    <3>1. /\ rdr'.out = rdr.out /\ rdr'.in_fragment /\ rdr'.scratch = rdr.scratch \o p.payload
          /\ rdr'.reports = rdr.reports
      BY <1>1, <1>9, <2>2 DEF Applied
    <3> QED BY <1>4, <1>6, <2>1, <2>2, <3>1
  <2>3. CASE ~rdr.in_fragment
    <3>1. rdr'.out = rdr.out /\ ~rdr'.in_fragment
      BY <1>1, <1>9, <2>3 DEF Applied
    <3> QED BY <1>6, <2>1, <2>3, <3>1
  <2> QED BY <2>2, <2>3
<1>10. CASE f.type = kLastType
  <2>1. ~Begins(f) /\ Finishes(f)
    BY <1>10 DEF Begins, Finishes, kFullType, kFirstType, kLastType, kMiddleType
  <2>2. CASE rdr.in_fragment
    <3>1. /\ rdr'.out = Append(rdr.out, rdr.scratch \o p.payload) /\ ~rdr'.in_fragment
          /\ rdr'.reports = rdr.reports
      BY <1>1, <1>10, <2>2 DEF Applied
    <3> QED BY <1>4, <1>5, <1>6, <2>1, <2>2, <3>1
  <2>3. CASE ~rdr.in_fragment
    <3>1. rdr'.out = rdr.out /\ ~rdr'.in_fragment
      BY <1>1, <1>10, <2>3 DEF Applied
    <3> QED BY <1>6, <2>1, <2>3, <3>1
  <2> QED BY <2>2, <2>3
<1> QED BY <1>2, <1>7, <1>8, <1>9, <1>10 DEF kFullType, kFirstType, kMiddleType, kLastType

\* A whole fragment is read.
LEMMA GoodSound ==
  ASSUME NEW L, NEW c, FileInv(L, c), ReaderInv(L, c), rdr.pc = "read",
         rdr.end - rdr.at >= kHeaderSize, NEW f \in L, f.at = rdr.at,
         NEW p \in PhysicalType, Good(f, c, p), Applied(p),
         UNCHANGED <<file, writer, sizes, starts, ends, damaged, torn>>
  PROVE  ReaderInv(L, c)'
<1>1. Stop(f, c) = End(f) /\ End(f) <= rdr.end /\ rdr.initial <= rdr.at
  BY DEF Good
<1>2. /\ rdr' \in ReaderType /\ rdr'.end = rdr.end /\ rdr'.eof = rdr.eof /\ rdr'.initial = rdr.initial
      /\ rdr'.resyncing => rdr.resyncing /\ p.type = kMiddleType
  BY DEF Applied
<1>3. /\ Finishes(f) /\ (Begins(f) \/ rdr.in_fragment) => rdr'.out = Append(rdr.out, Contents2(f.rec))
      /\ ~(Finishes(f) /\ (Begins(f) \/ rdr.in_fragment)) => rdr'.out = rdr.out
      /\ ~Finishes(f) /\ (Begins(f) \/ rdr.in_fragment)
           => rdr'.in_fragment /\ rdr'.scratch = Prefix(f.rec, f.pos + f.n)
      /\ Finishes(f) \/ (~Begins(f) /\ ~rdr.in_fragment) => ~rdr'.in_fragment
      /\ (Begins(f) <=> ~rdr.in_fragment) => rdr'.reports = rdr.reports
      /\ rdr'.pc = "read" /\ rdr'.at = End(f)
  BY GoodFields
<1>4. BufferSound' /\ BetweenFragments(L, c)'
  BY <1>1, <1>2, <1>3, PastFragment
<1>5. /\ End(f) \in Nat /\ rdr.at < End(f) /\ rdr.at \in Nat
  <2>1. f.at \in Nat /\ End(f) \in Nat /\ f.at < End(f)
    BY PlacesOf
  <2> QED BY <2>1
<1>6. ScratchSound(L)'
  <2> SUFFICES ASSUME rdr'.in_fragment
               PROVE  \E g \in L : /\ ~Finishes(g) /\ LastBefore(L, g, End(f))
                                   /\ rdr'.scratch = Prefix(g.rec, g.pos + g.n)
    BY <1>3 DEF ScratchSound
  <2>1. ~Finishes(f) /\ rdr'.scratch = Prefix(f.rec, f.pos + f.n)
    BY <1>3
  <2>2. LastBefore(L, f, End(f))
    BY <1>1, LastIsIt
  <2> QED BY <2>1, <2>2
<1>7. OutSound(L)'
  <2>1. CASE Finishes(f) /\ (Begins(f) \/ rdr.in_fragment)
    <3>1. Finishes(f) /\ rdr'.out = Append(rdr.out, Contents2(f.rec)) /\ rdr'.at = End(f) /\ sizes' = sizes
      BY <1>3, <2>1
    <3> QED BY <1>1, <3>1, OutGrown
  <2>2. CASE ~(Finishes(f) /\ (Begins(f) \/ rdr.in_fragment))
    <3>1. rdr'.out = rdr.out /\ rdr'.at \in Nat /\ rdr.at <= rdr'.at /\ sizes' = sizes
      BY <1>3, <1>5, <2>2
    <3> QED BY <3>1, OutKept
  <2> QED BY <2>1, <2>2
<1>8. NothingLost'
  <2>1. /\ \A i \in DOMAIN rdr.out : i \in DOMAIN rdr'.out /\ rdr'.out[i] = rdr.out[i]
        /\ Finishes(f) /\ (Begins(f) \/ rdr.in_fragment)
             => \E i \in DOMAIN rdr'.out : rdr'.out[i] = Contents2(f.rec)
    <3> DEFINE new == Contents2(f.rec)
    <3>1. rdr.out \in Seq(Seq(CellType))
      BY DEF ReaderInv, ReaderType
    <3>2. CASE Finishes(f) /\ (Begins(f) \/ rdr.in_fragment)
      <4>1. rdr'.out = Append(rdr.out, new)
        BY <1>3, <3>2
      <4> HIDE DEF new
      <4>2. /\ \A i \in DOMAIN rdr.out : i \in DOMAIN rdr'.out /\ rdr'.out[i] = rdr.out[i]
            /\ Len(rdr.out) + 1 \in DOMAIN rdr'.out /\ rdr'.out[Len(rdr.out) + 1] = new
        BY <3>1, <4>1
      <4> QED BY <4>2 DEF new
    <3>3. CASE ~(Finishes(f) /\ (Begins(f) \/ rdr.in_fragment))
      BY <1>3, <3>3
    <3> QED BY <3>2, <3>3
  <2>2. /\ Begins(f) /\ ~Finishes(f) => rdr'.in_fragment
        /\ ~Begins(f) /\ ~Finishes(f) /\ rdr.in_fragment => rdr'.in_fragment
    BY <1>3
  <2>3. rdr'.pc = "read" /\ rdr'.initial = rdr.initial /\ rdr'.at = End(f)
    BY <1>2, <1>3
  <2> QED BY <1>1, <2>1, <2>2, <2>3, FragmentLosesNothing
<1>9. Quiet(L)'
  <2> SUFFICES ASSUME torn # "reused", damaged = {}, rdr.initial = 0
               PROVE  /\ rdr'.reports = 0
                      /\ \A x \in L : LastBefore(L, x, End(f)) /\ ~Finishes(x) => rdr'.in_fragment
    BY <1>2, <1>3 DEF Quiet
  <2>1. Begins(f) <=> ~rdr.in_fragment
    BY <1>1, Expected
  <2>2. rdr'.reports = 0
    BY <1>3, <2>1 DEF ReaderInv, Quiet
  <2>3. ASSUME NEW x \in L, LastBefore(L, x, End(f)), ~Finishes(x) PROVE rdr'.in_fragment
    <3>1. x = f
      BY <1>1, <2>3, LastIsIt
    <3> QED BY <1>3, <2>1, <2>3, <3>1
  <2> QED BY <2>2, <2>3
<1>10. rdr'.resyncing => ~rdr'.in_fragment /\ rdr'.initial > 0
  <2> SUFFICES ASSUME rdr'.resyncing PROVE ~rdr'.in_fragment /\ rdr.initial > 0
    BY <1>2
  <2>1. ~rdr.in_fragment /\ rdr.initial > 0 /\ p.type = kMiddleType
    BY <1>2 DEF ReaderInv
  <2>2. f.type = kMiddleType
    BY <2>1 DEF Good
  <2>3. ~Begins(f)
    BY <2>2 DEF Begins, kFullType, kFirstType, kMiddleType
  <2> QED BY <1>3, <2>1, <2>3
<1>11. writer'.rec = 0
  BY DEF ReaderInv
<1> QED BY <1>2, <1>4, <1>6, <1>7, <1>8, <1>9, <1>10, <1>11 DEF ReaderInv

\* A fragment before the initial offset is skipped.
LEMMA EarlySound ==
  ASSUME NEW L, NEW c, FileInv(L, c), ReaderInv(L, c), rdr.pc = "read",
         rdr.end - rdr.at >= kHeaderSize, NEW f \in L, f.at = rdr.at,
         NEW p \in PhysicalType, Early(f, c, p), Applied(p),
         UNCHANGED <<file, writer, sizes, starts, ends, damaged, torn>>
  PROVE  ReaderInv(L, c)'
<1>1. /\ Stop(f, c) = End(f) /\ End(f) <= rdr.end /\ rdr.at < rdr.initial
      /\ p.type = kBadRecord /\ p.at = End(f)
  BY DEF Early
<1>2. /\ rdr' \in ReaderType /\ rdr'.end = rdr.end /\ rdr'.eof = rdr.eof /\ rdr'.initial = rdr.initial
      /\ ~rdr'.resyncing /\ rdr'.pc = "read" /\ rdr'.at = End(f)
      /\ rdr'.out = rdr.out /\ ~rdr'.in_fragment
  BY <1>1 DEF Applied, kBadRecord, kEof, kMiddleType
<1>3. BufferSound' /\ BetweenFragments(L, c)'
  BY <1>1, <1>2, PastFragment
<1>4. /\ End(f) \in Nat /\ rdr.at < End(f) /\ rdr.at \in Nat /\ rdr.initial \in Nat
  <2>1. f.at \in Nat /\ End(f) \in Nat /\ f.at < End(f)
    BY PlacesOf
  <2>2. rdr.initial \in Nat
    BY DEF ReaderInv, ReaderType
  <2> QED BY <2>1, <2>2
<1>5. ScratchSound(L)'
  BY <1>2 DEF ScratchSound
<1>6. OutSound(L)'
  <2>1. rdr'.out = rdr.out /\ rdr'.at \in Nat /\ rdr.at <= rdr'.at /\ sizes' = sizes
    BY <1>2, <1>4
  <2> QED BY <2>1, OutKept
<1>7. NothingLost'
  <2>1. ~(rdr.initial <= rdr.at)
    BY <1>1, <1>4
  <2>2. \A i \in DOMAIN rdr.out : i \in DOMAIN rdr'.out /\ rdr'.out[i] = rdr.out[i]
    BY <1>2
  <2> QED BY <1>1, <1>2, <2>1, <2>2, FragmentLosesNothing
<1>8. Quiet(L)'
  <2>1. rdr.initial # 0
    BY <1>1, <1>4
  <2> QED BY <1>2, <2>1 DEF Quiet
<1>9. writer'.rec = 0
  BY DEF ReaderInv
<1> QED BY <1>2, <1>3, <1>5, <1>6, <1>7, <1>8, <1>9 DEF ReaderInv

\* The rest of the block is dropped.
LEMMA DroppedSound ==
  ASSUME NEW L, NEW c, FileInv(L, c), ReaderInv(L, c), rdr.pc = "read",
         rdr.end - rdr.at >= kHeaderSize, NEW f \in L, f.at = rdr.at,
         NEW p \in PhysicalType, Dropped(p) \/ CutOff(f, c, p), Applied(p),
         UNCHANGED <<file, writer, sizes, starts, ends, damaged, torn>>
  PROVE  ReaderInv(L, c)'
<1>1. p.at = rdr.end /\ p.type \in {kEof, kBadRecord} /\ (p.type = kEof => rdr.eof)
  BY DEF Dropped, CutOff
<1>2. /\ rdr' \in ReaderType /\ rdr'.end = rdr.end /\ rdr'.eof = rdr.eof /\ rdr'.initial = rdr.initial
      /\ ~rdr'.resyncing /\ rdr'.at = rdr.end
  BY <1>1 DEF Applied, kBadRecord, kEof, kMiddleType
<1>3. /\ rdr'.out = rdr.out /\ (rdr'.pc = "done" => rdr.eof) /\ (rdr'.pc = "read" => ~rdr'.in_fragment)
  <2>1. CASE p.type = kEof
    BY <1>1, <2>1 DEF Applied, kEof
  <2>2. CASE p.type = kBadRecord
    BY <1>1, <2>2 DEF Applied, kEof, kBadRecord
  <2> QED BY <1>1, <2>1, <2>2
<1>4. BufferSound' /\ BetweenFragments(L, c)'
  BY <1>2, PastBuffer
<1>5. ScratchSound(L)'
  BY <1>3 DEF ScratchSound
<1>6. OutSound(L)'
  <2>1. rdr.end \in Nat /\ rdr.at <= rdr.end
    BY DEF ReaderInv, ReaderType, BufferSound
  <2>2. rdr'.out = rdr.out /\ rdr'.at \in Nat /\ rdr.at <= rdr'.at /\ sizes' = sizes
    BY <1>2, <1>3, <2>1
  <2> QED BY <2>2, OutKept
<1>7. NothingLost'
  BY <1>2, <1>3, DropLosesNothing
<1>8. Quiet(L)'
  <2> SUFFICES ASSUME torn # "reused", damaged = {}, rdr.initial = 0
               PROVE  rdr'.reports = 0 /\ rdr'.pc # "read"
    BY <1>2 DEF Quiet
  <2>1. CutOff(f, c, p)
    BY DEF Dropped
  <2>2. p.type = kEof /\ ~p.report
    BY <2>1 DEF CutOff
  <2>3. rdr'.reports = rdr.reports /\ rdr'.pc = "done"
    BY <2>2 DEF Applied
  <2> QED BY <2>3 DEF ReaderInv, Quiet
<1>9. writer'.rec = 0
  BY DEF ReaderInv
<1> QED BY <1>2, <1>4, <1>5, <1>6, <1>7, <1>8, <1>9 DEF ReaderInv

\* A fragment is read.
LEMMA FragmentSound ==
  ASSUME NEW L, NEW c, FileInv(L, c), ReaderInv(L, c), ReadFragment
  PROVE  ReaderInv(L, c)'
<1>1. /\ rdr.pc = "read" /\ rdr.end - rdr.at >= kHeaderSize
      /\ UNCHANGED <<file, writer, sizes, starts, ends, damaged, torn>>
  BY DEF ReadFragment
<1>2. PICK p \in Physical : Handled(p)
  BY DEF ReadFragment, Handled, Passed
<1>3. /\ p \in PhysicalType
      /\ \E f \in L : f.at = rdr.at /\ (Good(f, c, p) \/ Early(f, c, p) \/ Dropped(p) \/ CutOff(f, c, p))
  BY <1>1, HeadSound
<1>4. Applied(p)
  <2>1. rdr \in ReaderType /\ (rdr.resyncing => ~rdr.in_fragment)
    BY DEF ReaderInv
  <2> QED BY <1>1, <1>2, <1>3, <2>1, AppliedSound
<1>5. PICK f \in L : f.at = rdr.at /\ (Good(f, c, p) \/ Early(f, c, p) \/ Dropped(p) \/ CutOff(f, c, p))
  BY <1>3
<1>6. CASE Good(f, c, p)
  BY <1>1, <1>3, <1>4, <1>5, <1>6, GoodSound
<1>7. CASE Early(f, c, p)
  BY <1>1, <1>3, <1>4, <1>5, <1>7, EarlySound
<1>8. CASE Dropped(p) \/ CutOff(f, c, p)
  BY <1>1, <1>3, <1>4, <1>5, <1>8, DroppedSound
<1> QED BY <1>5, <1>6, <1>7, <1>8


-----------------------------------------------------------------------------
(* The log *)

\* The file has a layout, and the reader, if there is one, is at home in it.
LogInv == \E L, c : FileInv(L, c) /\ (rdr = [pc |-> "none"] \/ ReaderInv(L, c))

\* A reader has one of the two places.
LEMMA ReaderPlaces ==
  ASSUME NEW L, NEW c, ReaderInv(L, c)
  PROVE  rdr.pc # "none" /\ writer.rec = 0 /\ rdr # [pc |-> "none"]
<1>1. rdr.pc \in {"read", "done"} /\ writer.rec = 0
  BY DEF ReaderInv, ReaderType
<1> QED BY <1>1

\* Without a reader, every step of the writer, a crash or damage keeps a layout.
LEMMA WriterStep ==
  ASSUME NEW L, NEW c, FileInv(L, c), rdr = [pc |-> "none"], LogNext
  PROVE  LogInv'
<1>1. rdr.pc = "none"
  OBVIOUS
<1>2. CASE \E n \in RecordSizes : AddRecord(n)
  <2>1. PICK n \in RecordSizes : AddRecord(n)
    BY <1>2
  <2>2. FileInv(L, c)'
    BY <2>1, AddRecordFile
  <2>3. rdr' = rdr
    BY <2>1 DEF AddRecord
  <2> QED BY <2>2, <2>3 DEF LogInv
<1>3. CASE EmitFragment
  <2>1. \E M : FileInv(M, c)'
    BY <1>3, EmitFile
  <2>2. rdr' = rdr
    BY <1>3 DEF EmitFragment
  <2> QED BY <2>1, <2>2 DEF LogInv
<1>4. CASE \E n \in 0 .. Len(file) : LogCrash(n)
  <2>1. PICK n \in 0 .. Len(file) : LogCrash(n)
    BY <1>4
  <2>2. \E M : FileInv(M, n)'
    BY <2>1, CrashFile
  <2>3. rdr' = rdr
    BY <2>1 DEF LogCrash
  <2> QED BY <2>2, <2>3 DEF LogInv
<1>5. CASE Reuse
  <2>1. FileInv(L, c)'
    BY <1>5, ReuseFile
  <2>2. rdr' = rdr
    BY <1>5 DEF Reuse
  <2> QED BY <2>1, <2>2 DEF LogInv
<1>6. CASE \E i \in DOMAIN file : DamageCell(i)
  <2>1. PICK i \in DOMAIN file : DamageCell(i)
    BY <1>6
  <2>2. FileInv(L, c)'
    BY <2>1, DamageFile
  <2>3. rdr' = rdr
    BY <2>1 DEF DamageCell
  <2> QED BY <2>2, <2>3 DEF LogInv
<1>7. CASE \E n \in 0 .. Len(file) : OpenReader(n)
  <2>1. PICK n \in 0 .. Len(file) : OpenReader(n)
    BY <1>7
  <2>2. FileInv(L, c)' /\ ReaderInv(L, c)'
    BY <2>1, OpenSound
  <2> QED BY <2>2 DEF LogInv
<1>8. CASE ReadBlock \/ ReadFragment \/ ReadEnd
  BY <1>1, <1>8 DEF ReadBlock, ReadFragment, ReadEnd
<1> QED BY <1>2, <1>3, <1>4, <1>5, <1>6, <1>7, <1>8 DEF LogNext

\* With a reader, only the reader moves.
LEMMA ReaderStep ==
  ASSUME NEW L, NEW c, FileInv(L, c), ReaderInv(L, c), LogNext
  PROVE  LogInv'
<1>1. rdr.pc # "none" /\ writer.rec = 0
  BY ReaderPlaces
<1>2. ReadBlock \/ ReadFragment \/ ReadEnd
  BY <1>1 DEF LogNext, AddRecord, EmitFragment, LogCrash, Reuse, DamageCell, OpenReader
<1>3. UNCHANGED <<file, writer, sizes, starts, ends, damaged, torn>>
  BY <1>2 DEF ReadBlock, ReadFragment, ReadEnd
<1>4. FileInv(L, c)'
  BY <1>3, FileFrozen
<1>5. ReaderInv(L, c)'
  BY <1>2, BlockSound, FragmentSound, EndSound
<1> QED BY <1>4, <1>5 DEF LogInv

\* Nothing changes.
LEMMA LogStutters ==
  ASSUME LogInv, UNCHANGED logVars
  PROVE  LogInv'
<1>1. PICK L, c : FileInv(L, c) /\ (rdr = [pc |-> "none"] \/ ReaderInv(L, c))
  BY DEF LogInv
<1>2. UNCHANGED <<file, writer, sizes, starts, ends, damaged, torn>> /\ rdr' = rdr
  BY DEF logVars
<1>3. FileInv(L, c)'
  BY <1>1, <1>2, FileFrozen
<1>4. ReaderInv(L, c) => ReaderInv(L, c)'
  BY <1>2 DEF ReaderInv, ReaderType, BufferSound, BetweenFragments, ScratchSound, OutSound,
             NothingLost, Quiet, InScope, Complete, Touched, Contents2
<1> QED BY <1>1, <1>2, <1>3, <1>4 DEF LogInv

\* With a layout, a reader returned what it should.
LEMMA LayoutGivesExact ==
  ASSUME LogInv
  PROVE  LogExact
<1>1. PICK L, c : FileInv(L, c) /\ (rdr = [pc |-> "none"] \/ ReaderInv(L, c))
  BY DEF LogInv
<1>2. CASE rdr = [pc |-> "none"]
  BY <1>2 DEF LogExact, OnlyWritten, LossConfined, NoFalseAlarm
<1>3. CASE ReaderInv(L, c)
  <2>1. OnlyWritten
    BY <1>3 DEF ReaderInv, OutSound, OnlyWritten
  <2>2. LossConfined
    BY <1>3 DEF ReaderInv, NothingLost, InScope, LossConfined
  <2>3. NoFalseAlarm
    BY <1>3 DEF ReaderInv, Quiet, NoFalseAlarm
  <2> QED BY <2>1, <2>2, <2>3 DEF LogExact
<1> QED BY <1>1, <1>2, <1>3

\* A reader of a log returns records that were written, whole and in order
\* (log_reader.cc ReadRecord), all of them that lie at or after its initial
\* offset outside of damaged blocks unless a writer went on after a torn record,
\* and reports nothing for a file that merely ends early.  For every block
\* and header size, record sizes, and number of records and damaged cells.
THEOREM LogTheorem == LogSpec => []LogExact
<1>1. LogInit => LogInv
  <2> SUFFICES ASSUME LogInit PROVE LogInv
    OBVIOUS
  <2>1. FileInv({}, 0) /\ rdr = [pc |-> "none"]
    BY InitFile DEF LogInit
  <2> QED BY <2>1 DEF LogInv
<1>2. LogInv /\ [LogNext]_logVars => LogInv'
  <2> SUFFICES ASSUME LogInv, [LogNext]_logVars PROVE LogInv'
    OBVIOUS
  <2>1. CASE UNCHANGED logVars
    BY <2>1, LogStutters
  <2>2. CASE LogNext
    <3>1. PICK L, c : FileInv(L, c) /\ (rdr = [pc |-> "none"] \/ ReaderInv(L, c))
      BY DEF LogInv
    <3> QED BY <2>2, <3>1, WriterStep, ReaderStep
  <2> QED BY <2>1, <2>2
<1>3. LogInv => LogExact
  BY LayoutGivesExact
<1> QED BY <1>1, <1>2, <1>3, PTL DEF LogSpec
=============================================================================
