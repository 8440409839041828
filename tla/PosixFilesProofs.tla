-------------------------- MODULE PosixFilesProofs --------------------------
(***************************************************************************)
(* What a power loss leaves of leveldb's files, for any number of tables,  *)
(* descriptors, failed calls and power losses.                             *)
(*                                                                         *)
(* The argument: a table that an edit names is on the disk in full before  *)
(* the edit is written, in every directory that has it; the edit itself is *)
(* put on the disk when no directory but the latest may survive; and       *)
(* CURRENT only ever changes to the name of a descriptor that is there and *)
(* was synced.  The rest of the invariant says how far the job under way   *)
(* has come with this, call by call.                                       *)
(***************************************************************************)
EXTENDS PosixFiles, SequenceTheorems, TLAPS

-----------------------------------------------------------------------------
(* The files.  D is the set of the directories that may survive, c, f and s  *)
(* are content, flushed and synced, num is the next file number.             *)

Names == {Table(n) : n \in Nat} \cup {Manifest(n) : n \in Nat}
            \cup {Temp(n) : n \in Nat} \cup {Current}
Items == {EditItem(a, b) : a \in SUBSET Nat, b \in SUBSET Nat}
            \cup {<< "table", n >> : n \in Nat} \cup {<< "current", n >> : n \in Nat}
Directories == UNION {[N -> Nat] : N \in SUBSET Names}

DirSet(ds) == {ds[i] : i \in 1 .. Len(ds)}

FileTypes(c, f, s, num) ==
    /\ num \in Nat /\ num >= 2
    /\ c \in Seq(Seq(Items)) /\ f \in Seq(Nat) /\ s \in Seq(Nat)
    /\ Len(f) = Len(c) /\ Len(s) = Len(c)
    /\ \A i \in 1 .. Len(c) : s[i] <= f[i] /\ f[i] <= Len(c[i])

\* The file holds edits only, that add tables with numbers below num.
Edits(items, num) ==
    \A i \in 1 .. Len(items) : \E a \in SUBSET Nat, b \in SUBSET Nat :
        items[i] = EditItem(a, b) /\ \A n \in a : n < num

\* The directory has the descriptor m, some of which is on the disk, and the
\* tables of what is.
NamedSound(d, m, c, s) ==
    /\ Manifest(m) \in DOMAIN d
    /\ s[d[Manifest(m)]] > 0
    /\ \A n \in Tables(SubSeq(c[d[Manifest(m)]], 1, s[d[Manifest(m)]])) : Table(n) \in DOMAIN d

\* CURRENT is on the disk and names a descriptor; one that is not the first
\* is sound.
CurrentSound(d, c, s, num) ==
    Current \in DOMAIN d =>
        /\ s[d[Current]] = 1
        /\ \E m \in 1 .. num - 1 : /\ c[d[Current]] = << << "current", m >> >>
                                   /\ m # 1 => NamedSound(d, m, c, s)

DirTypes(d, c, num) ==
    /\ d \in Directories
    /\ \A x \in DOMAIN d : d[x] \in 1 .. Len(c)
    /\ \A n \in Nat : /\ Table(n) \in DOMAIN d => n < num
                      /\ Manifest(n) \in DOMAIN d => n < num
DirSound(d, c, s, num) ==
    /\ DirTypes(d, c, num)
    /\ CurrentSound(d, c, s, num)
    /\ \A n \in Nat : Manifest(n) \in DOMAIN d => Edits(c[d[Manifest(n)]], num)

\* Two names of one file: only a temporary file changes its name, to CURRENT.
Movable(x) == x = Current \/ \E n \in Nat : x = Temp(n)
Apart(d, e) ==
    \A x \in DOMAIN d, y \in DOMAIN e : d[x] = e[y] => x = y \/ (Movable(x) /\ Movable(y))

\* The tables that the items add are on the disk in full where they are.
OnDisk(n, e, s) == Table(n) \in DOMAIN e => s[e[Table(n)]] = 1
ItemsBacked(items, e, s) ==
    \A i \in 1 .. Len(items) : \A n \in items[i][2] : OnDisk(n, e, s)
Backed(d, e, c, s) ==
    \A n \in Nat : Manifest(n) \in DOMAIN d => ItemsBacked(c[d[Manifest(n)]], e, s)

FilesSound(D, c, f, s, num) ==
    /\ FileTypes(c, f, s, num)
    /\ \A d \in D : DirSound(d, c, s, num)
    /\ \A d, e \in D : Apart(d, e) /\ Backed(d, e, c, s)

-----------------------------------------------------------------------------
(* The jobs.  d is the latest directory.  A job is a script of calls, of     *)
(* which the ones from the k-th are left.                                    *)

Rest(script, k) == SubSeq(script, k, Len(script))

\* The descriptor m in use: CURRENT names it, all of it is on the disk, and it
\* leaves the tables v.
CurrentNames(d, m, c) == Current \in DOMAIN d /\ c[d[Current]] = << << "current", m >> >>
InUse(m, v, d, c, s) ==
    /\ m \in Nat /\ m >= 2 /\ CurrentNames(d, m, c)
    /\ s[d[Manifest(m)]] = Len(c[d[Manifest(m)]])
    /\ Tables(c[d[Manifest(m)]]) = v

\* SetCurrentFile before its j-th call.
SettingCurrent(j, n, D, d, c, s) ==
    j > 1 => /\ Temp(n) \in DOMAIN d
             /\ \A e \in D : Current \in DOMAIN e => e[Current] # d[Temp(n)]
             /\ c[d[Temp(n)]] = IF j = 2 THEN << >> ELSE << << "current", n >> >>
             /\ j > 3 => s[d[Temp(n)]] = 1

\* NewDB before its k-th call.
Creating(k, D, d, c, s) ==
    /\ Current \notin DOMAIN d
    /\ k \in 2 .. 4 => Manifest(1) \in DOMAIN d
    /\ k > 4 => SettingCurrent(k - 4, 1, D, d, c, s)

\* The opening with the tables T and the descriptor n before its k-th call.
OpenScript(n, T) == OpenCalls(n, T) \o << Done(T, n) >>
Opening(k, n, T, D, d, c, s) ==
    /\ \A t \in T : Table(t) \in DOMAIN d /\ \A e \in D : OnDisk(t, e, s)
    /\ k <= 12 => \A e \in D : ~CurrentNames(e, n, c)
    /\ k > 1 => /\ Manifest(n) \in DOMAIN d
                /\ c[d[Manifest(n)]] =
                     IF k = 2 THEN << >>
                     ELSE IF k <= 4 THEN << EditItem(T, {}) >>
                     ELSE << EditItem(T, {}), EditItem({}, {}) >>
    /\ k > 7 => s[d[Manifest(n)]] = 2
    /\ k \in 8 .. 12 => SettingCurrent(k - 7, n, D, d, c, s)
    /\ k = 13 => CurrentNames(d, n, c)

\* A flush or compaction that adds the table n to the version v in the
\* descriptor m, before its k-th call.
AddScript(n, m, v, gone) ==
    BuildTableCalls(n) \o LogCalls(m, {n}, gone) \o << Done((v \ gone) \cup {n}, m) >>
Adding(k, n, m, v, gone, D, d, c, s) ==
    /\ m \in Nat /\ m >= 2 /\ CurrentNames(d, m, c)
    /\ \A t \in v : t < n /\ Table(t) \in DOMAIN d
    /\ k <= 5 => InUse(m, v, d, c, s)
    /\ k = 1 => \A e \in D : Table(n) \notin DOMAIN e
    /\ k <= 3 => \A e \in D, i \in Nat : Manifest(i) \in DOMAIN e => Edits(c[e[Manifest(i)]], n)
    /\ k > 1 => Table(n) \in DOMAIN d
    /\ k \in {2, 3} => /\ c[d[Table(n)]] = IF k = 2 THEN << >> ELSE << << "table", n >> >>
                       /\ \A e \in D : Table(n) \in DOMAIN e => e[Table(n)] = d[Table(n)]
    /\ k > 3 => \A e \in D : OnDisk(n, e, s)
    /\ k > 5 => Tables(c[d[Manifest(m)]]) = (v \ gone) \cup {n}
    /\ k = 8 => D = {d}
    /\ k = 9 => s[d[Manifest(m)]] = Len(c[d[Manifest(m)]])

JobSound(td, v, m, D, d, c, s, num) ==
    \/ td = << >> /\ (m # 0 => InUse(m, v, d, c, s))
    \/ m = 0 /\ \E k \in 1 .. 9 : td = Rest(NewDBCalls, k) /\ Creating(k, D, d, c, s)
    \/ m = 0 /\ num > 2 /\ \E k \in 1 .. 13, T \in SUBSET (0 .. num - 1) :
                    td = Rest(OpenScript(num - 1, T), k) /\ Opening(k, num - 1, T, D, d, c, s)
    \/ num > 2 /\ \E k \in 1 .. 9, gone \in {{}, v} :
         td = Rest(AddScript(num - 1, m, v, gone), k) /\ Adding(k, num - 1, m, v, gone, D, d, c, s)

FilesInv ==
    /\ dirs \in Seq(Directories) /\ Len(dirs) >= 1
    /\ FilesSound(DirSet(dirs), content, flushed, synced, number)
    /\ JobSound(todo, version, manifest, DirSet(dirs), Dir, content, synced, number)


-----------------------------------------------------------------------------
(* Names, and what the operators on directories and descriptors return. *)

\* Names of different kinds are different, and carry their number.
LEMMA NamesDiffer ==
  ASSUME NEW n \in Nat, NEW k \in Nat
  PROVE  /\ Table(n) # Manifest(k) /\ Table(n) # Temp(k) /\ Table(n) # Current
         /\ Manifest(n) # Temp(k) /\ Manifest(n) # Current /\ Temp(n) # Current
         /\ Table(n) = Table(k) => n = k
         /\ Manifest(n) = Manifest(k) => n = k
         /\ Temp(n) = Temp(k) => n = k
         /\ ~Movable(Table(n)) /\ ~Movable(Manifest(n)) /\ Movable(Temp(n)) /\ Movable(Current)
         /\ Table(n) \in Names /\ Manifest(n) \in Names /\ Temp(n) \in Names /\ Current \in Names
  BY DEF Table, Manifest, Temp, Current, Movable, Names

\* A directory with one name more.
LEMMA WithName ==
  ASSUME NEW d, d \in Directories, NEW x, x \in Names, NEW i, i \in Nat,
         NEW e, e = With(d, x, i)
  PROVE  /\ e \in Directories /\ DOMAIN e = DOMAIN d \cup {x} /\ e[x] = i
         /\ \A y \in DOMAIN d : y # x => e[y] = d[y]
<1>1. PICK N \in SUBSET Names : d \in [N -> Nat]
  BY DEF Directories
<1>2. With(d, x, i) \in [N \cup {x} -> Nat]
  BY <1>1 DEF With
<1>3. N \cup {x} \in SUBSET Names
  OBVIOUS
<1> QED
  BY <1>1, <1>2, <1>3 DEF With, Directories

\* A directory with fewer names.
PartOf(e, d) ==
    /\ e \in Directories /\ DOMAIN e \subseteq DOMAIN d
    /\ \A x \in DOMAIN e : e[x] = d[x]

LEMMA LessNames ==
  ASSUME NEW d \in Directories, NEW N
  PROVE  /\ PartOf([x \in DOMAIN d \ N |-> d[x]], d)
         /\ DOMAIN [x \in DOMAIN d \ N |-> d[x]] = DOMAIN d \ N
<1> DEFINE e == [x \in DOMAIN d \ N |-> d[x]]
<1>1. PICK M \in SUBSET Names : d \in [M -> Nat]
  BY DEF Directories
<1>2. e \in [M \ N -> Nat] /\ M \ N \in SUBSET Names
  BY <1>1
<1> QED
  BY <1>1, <1>2 DEF PartOf, Directories

\* The tables of a descriptor with one edit more.
LEMMA TablesAppend ==
  ASSUME NEW X, NEW items \in Seq(X), NEW a, NEW b, EditItem(a, b) \in X
  PROVE  Tables(Append(items, EditItem(a, b))) = (Tables(items) \ b) \cup a
<1> DEFINE e == EditItem(a, b)
           more == Append(items, e)
<1>1. /\ e[2] = a /\ e[3] = b
  BY DEF EditItem
<1>2. /\ Len(items) \in Nat /\ DOMAIN items = 1 .. Len(items)
      /\ DOMAIN more = 1 .. Len(items) + 1
      /\ more[Len(items) + 1] = e
      /\ \A i \in 1 .. Len(items) : more[i] = items[i]
  OBVIOUS
<1> HIDE DEF e, more
<1>3. ASSUME NEW n
      PROVE  n \in Tables(more) <=> n \in (Tables(items) \ b) \cup a
  <2>1. n \in Tables(more) <=>
          \E i \in DOMAIN more : /\ n \in more[i][2]
                                 /\ \A j \in DOMAIN more : j > i => n \notin more[j][3]
    BY DEF Tables
  <2>2. n \in Tables(items) <=>
          \E i \in DOMAIN items : /\ n \in items[i][2]
                                  /\ \A j \in DOMAIN items : j > i => n \notin items[j][3]
    BY DEF Tables
  <2>3. CASE n \in a
    <3>1. n \in more[Len(items) + 1][2] /\ \A j \in DOMAIN more : ~(j > Len(items) + 1)
      BY <1>1, <1>2, <2>3
    <3> QED
      BY <1>2, <2>1, <2>3, <3>1
  <2>4. CASE n \notin a
    <3>1. ASSUME n \in Tables(more)
          PROVE  n \in Tables(items) /\ n \notin b
      <4>1. PICK i \in DOMAIN more : /\ n \in more[i][2]
                                     /\ \A j \in DOMAIN more : j > i => n \notin more[j][3]
        BY <2>1, <3>1
      <4>2. i \in 1 .. Len(items)
        BY <1>1, <1>2, <2>4, <4>1
      <4>3. n \notin more[Len(items) + 1][3]
        BY <1>2, <4>1, <4>2
      <4>4. \A j \in DOMAIN items : j > i => n \notin items[j][3]
        BY <1>2, <4>1
      <4> QED
        BY <1>1, <1>2, <2>2, <4>1, <4>2, <4>3, <4>4
    <3>2. ASSUME n \in Tables(items), n \notin b
          PROVE  n \in Tables(more)
      <4>1. PICK i \in DOMAIN items : /\ n \in items[i][2]
                                      /\ \A j \in DOMAIN items : j > i => n \notin items[j][3]
        BY <2>2, <3>2
      <4>2. i \in DOMAIN more /\ n \in more[i][2]
        BY <1>2, <4>1
      <4>3. \A j \in DOMAIN more : j > i => n \notin more[j][3]
        BY <1>1, <1>2, <3>2, <4>1
      <4> QED
        BY <2>1, <4>2, <4>3
    <3> QED
      BY <2>4, <3>1, <3>2
  <2> QED
    BY <2>3, <2>4
<1> QED
  BY <1>3 DEF more, e

\* A descriptor without items has no tables, and tables are what items add.
LEMMA TablesAdded ==
  ASSUME NEW items, NEW n \in Tables(items)
  PROVE  \E i \in DOMAIN items : n \in items[i][2]
  BY DEF Tables

LEMMA TablesEmpty == Tables(<< >>) = {}
  BY DEF Tables

\* The numbers that edits add.
LEMMA EditAdds ==
  ASSUME NEW items, NEW num, Edits(items, num), NEW k \in 1 .. Len(items), NEW t \in items[k][2]
  PROVE  t \in Nat /\ t < num
<1>1. PICK a \in SUBSET Nat, b \in SUBSET Nat : items[k] = EditItem(a, b) /\ \A n \in a : n < num
  BY DEF Edits
<1>2. EditItem(a, b)[2] = a
  BY DEF EditItem
<1> QED
  BY <1>1, <1>2


-----------------------------------------------------------------------------
(* What the calls do to sound files. *)

\* One file changes: not CURRENT; a descriptor stays sound, and a table that
\* was on the disk in full stays there.
Touched(i, c, f, s, c2, f2, s2) ==
    /\ i \in 1 .. Len(c)
    /\ c2 \in Seq(Seq(Items)) /\ f2 \in Seq(Nat) /\ s2 \in Seq(Nat)
    /\ Len(c2) = Len(c) /\ Len(f2) = Len(c) /\ Len(s2) = Len(c)
    /\ \A j \in 1 .. Len(c) : j # i => c2[j] = c[j] /\ f2[j] = f[j] /\ s2[j] = s[j]
    /\ s2[i] <= f2[i] /\ f2[i] <= Len(c2[i])

LEMMA FileChanges ==
  ASSUME NEW D, NEW c, NEW f, NEW s, NEW num, NEW i, NEW c2, NEW f2, NEW s2,
         FilesSound(D, c, f, s, num), Touched(i, c, f, s, c2, f2, s2),
         \A d \in D : Current \in DOMAIN d => d[Current] # i,
         \A d \in D, n \in Nat : Manifest(n) \in DOMAIN d /\ d[Manifest(n)] = i =>
             /\ Edits(c2[i], num)
             /\ \A e \in D : ItemsBacked(c2[i], e, s2)
             /\ CurrentNames(d, n, c) /\ n # 1 => NamedSound(d, n, c2, s2),
         \A d \in D, n \in Nat : Table(n) \in DOMAIN d /\ d[Table(n)] = i /\ s[i] = 1 => s2[i] = 1
  PROVE  FilesSound(D, c2, f2, s2, num)
<1>1. /\ FileTypes(c, f, s, num)
      /\ \A d \in D : DirSound(d, c, s, num)
      /\ \A d, e \in D : Apart(d, e) /\ Backed(d, e, c, s)
  BY DEF FilesSound
<1>2. FileTypes(c2, f2, s2, num)
  BY <1>1 DEF FileTypes, Touched
<1>3. ASSUME NEW d \in D
      PROVE  DirSound(d, c2, s2, num)
  <2>1. DirTypes(d, c, num) /\ CurrentSound(d, c, s, num)
    BY <1>1 DEF DirSound
  <2>2. DirTypes(d, c2, num)
    BY <2>1 DEF DirTypes, Touched
  <2>3. ASSUME NEW n \in Nat, Manifest(n) \in DOMAIN d
        PROVE  Edits(c2[d[Manifest(n)]], num)
    <3>1. CASE d[Manifest(n)] = i
      BY <2>3, <3>1
    <3>2. CASE d[Manifest(n)] # i
      <4>1. d[Manifest(n)] \in 1 .. Len(c)
        BY <2>1, <2>3 DEF DirTypes
      <4>2. c2[d[Manifest(n)]] = c[d[Manifest(n)]]
        BY <3>2, <4>1 DEF Touched
      <4> QED
        BY <1>1, <2>3, <4>2 DEF DirSound
    <3> QED
      BY <3>1, <3>2
  <2>4. CurrentSound(d, c2, s2, num)
    <3> SUFFICES ASSUME Current \in DOMAIN d
                 PROVE  /\ s2[d[Current]] = 1
                        /\ \E m \in 1 .. num - 1 : /\ c2[d[Current]] = << << "current", m >> >>
                                                   /\ m # 1 => NamedSound(d, m, c2, s2)
      BY DEF CurrentSound
    <3>1. d[Current] \in 1 .. Len(c) /\ d[Current] # i
      BY <2>1 DEF DirTypes
    <3>2. c2[d[Current]] = c[d[Current]] /\ s2[d[Current]] = s[d[Current]]
      BY <3>1 DEF Touched
    <3>3. PICK m \in 1 .. num - 1 : /\ c[d[Current]] = << << "current", m >> >>
                                    /\ m # 1 => NamedSound(d, m, c, s)
      BY <2>1 DEF CurrentSound
    <3>4. m \in Nat /\ CurrentNames(d, m, c)
      BY <1>1, <3>3 DEF CurrentNames, FileTypes
    <3>5. ASSUME m # 1
          PROVE  NamedSound(d, m, c2, s2)
      <4>1. NamedSound(d, m, c, s) /\ Manifest(m) \in DOMAIN d
        BY <3>3, <3>5 DEF NamedSound
      <4>2. CASE d[Manifest(m)] = i
        BY <3>4, <3>5, <4>1, <4>2
      <4>3. CASE d[Manifest(m)] # i
        <5>1. d[Manifest(m)] \in 1 .. Len(c)
          BY <2>1, <4>1 DEF DirTypes
        <5>2. c2[d[Manifest(m)]] = c[d[Manifest(m)]] /\ s2[d[Manifest(m)]] = s[d[Manifest(m)]]
          BY <4>3, <5>1 DEF Touched
        <5> QED
          BY <4>1, <5>2 DEF NamedSound
      <4> QED
        BY <4>2, <4>3
    <3>6. s[d[Current]] = 1
      BY <2>1 DEF CurrentSound
    <3> QED
      BY <3>2, <3>3, <3>5, <3>6
  <2> QED
    BY <2>2, <2>3, <2>4 DEF DirSound
<1>4. ASSUME NEW d \in D, NEW e \in D
      PROVE  Backed(d, e, c2, s2)
  <2> SUFFICES ASSUME NEW n \in Nat, Manifest(n) \in DOMAIN d
               PROVE  ItemsBacked(c2[d[Manifest(n)]], e, s2)
    BY DEF Backed
  <2>1. CASE d[Manifest(n)] = i
    BY <2>1
  <2>2. CASE d[Manifest(n)] # i
    <3>1. d[Manifest(n)] \in 1 .. Len(c)
      BY <1>1 DEF DirSound, DirTypes
    <3>2. c2[d[Manifest(n)]] = c[d[Manifest(n)]]
      BY <2>2, <3>1 DEF Touched
    <3>3. ItemsBacked(c[d[Manifest(n)]], e, s)
      BY <1>1 DEF Backed
    <3>4. ASSUME NEW k \in 1 .. Len(c[d[Manifest(n)]]), NEW t \in c[d[Manifest(n)]][k][2],
                 Table(t) \in DOMAIN e
          PROVE  s2[e[Table(t)]] = 1
      <4>1. s[e[Table(t)]] = 1
        BY <3>3, <3>4 DEF ItemsBacked, OnDisk
      <4>2. t \in Nat
        <5>1. Edits(c[d[Manifest(n)]], num)
          BY <1>1 DEF DirSound
        <5> QED
          BY <5>1, EditAdds
      <4>3. e[Table(t)] \in 1 .. Len(c)
        BY <1>1, <3>4 DEF DirSound, DirTypes
      <4> QED
        BY <3>4, <4>1, <4>2, <4>3 DEF Touched
    <3> QED
      BY <3>2, <3>4 DEF ItemsBacked, OnDisk
  <2> QED
    BY <2>1, <2>2
<1> QED
  BY <1>1, <1>2, <1>3, <1>4 DEF FilesSound

\* A directory more.
LEMMA DirAdded ==
  ASSUME NEW D, NEW c, NEW f, NEW s, NEW num, FilesSound(D, c, f, s, num),
         NEW e, DirSound(e, c, s, num), Apart(e, e), Backed(e, e, c, s),
         \A d \in D : /\ Apart(d, e) /\ Apart(e, d)
                      /\ Backed(d, e, c, s) /\ Backed(e, d, c, s)
  PROVE  FilesSound(D \cup {e}, c, f, s, num)
  BY DEF FilesSound

\* A directory with fewer names than one of them.
LEMMA DirReduced ==
  ASSUME NEW D, NEW c, NEW f, NEW s, NEW num, FilesSound(D, c, f, s, num),
         NEW d \in D, NEW e, PartOf(e, d), CurrentSound(e, c, s, num)
  PROVE  FilesSound(D \cup {e}, c, f, s, num)
<1>1. /\ DirSound(d, c, s, num)
      /\ \A g, h \in D : Apart(g, h) /\ Backed(g, h, c, s)
  BY DEF FilesSound
<1>2. DirSound(e, c, s, num)
  BY <1>1 DEF DirSound, DirTypes, PartOf
<1>3. Apart(e, e) /\ Backed(e, e, c, s)
  <2>1. Apart(d, d) /\ Backed(d, d, c, s)
    BY <1>1
  <2>2. Apart(e, e)
    BY <2>1 DEF Apart, PartOf
  <2> QED
    BY <2>1, <2>2 DEF Backed, ItemsBacked, OnDisk, PartOf
<1>4. ASSUME NEW g \in D
      PROVE  Apart(g, e) /\ Apart(e, g) /\ Backed(g, e, c, s) /\ Backed(e, g, c, s)
  <2>1. Apart(g, d) /\ Apart(d, g) /\ Backed(g, d, c, s) /\ Backed(d, g, c, s)
    BY <1>1
  <2>2. Apart(g, e) /\ Apart(e, g)
    BY <2>1 DEF Apart, PartOf
  <2>3. Backed(g, e, c, s)
    BY <2>1 DEF Backed, ItemsBacked, OnDisk, PartOf
  <2>4. Backed(e, g, c, s)
    BY <2>1 DEF Backed, PartOf
  <2> QED
    BY <2>2, <2>3, <2>4
<1> QED
  BY <1>2, <1>3, <1>4, DirAdded

\* Fewer directories.
LEMMA FewerDirs ==
  ASSUME NEW D, NEW E \in SUBSET D, NEW c, NEW f, NEW s, NEW num, FilesSound(D, c, f, s, num)
  PROVE  FilesSound(E, c, f, s, num)
  BY DEF FilesSound

\* More file numbers.
LEMMA NumberTaken ==
  ASSUME NEW D, NEW c, NEW f, NEW s, NEW num, FilesSound(D, c, f, s, num),
         NEW next \in Nat, next >= num
  PROVE  FilesSound(D, c, f, s, next)
<1>1. FileTypes(c, f, s, num) /\ FileTypes(c, f, s, next) /\ num \in Nat
  BY DEF FilesSound, FileTypes
<1>2. ASSUME NEW d \in D
      PROVE  DirSound(d, c, s, next)
  <2>1. DirSound(d, c, s, num)
    BY DEF FilesSound
  <2>2. DirTypes(d, c, next)
    BY <1>1, <2>1 DEF DirSound, DirTypes
  <2>3. CurrentSound(d, c, s, next)
    <3>1. CASE Current \notin DOMAIN d
      BY <3>1 DEF CurrentSound
    <3>2. CASE Current \in DOMAIN d
      <4>1. /\ s[d[Current]] = 1
            /\ \E m \in 1 .. num - 1 : /\ c[d[Current]] = << << "current", m >> >>
                                       /\ m # 1 => NamedSound(d, m, c, s)
        BY <2>1, <3>2 DEF DirSound, CurrentSound
      <4>2. PICK m \in 1 .. num - 1 : /\ c[d[Current]] = << << "current", m >> >>
                                      /\ m # 1 => NamedSound(d, m, c, s)
        BY <4>1
      <4>3. m \in 1 .. next - 1
        BY <1>1
      <4> QED
        BY <3>2, <4>1, <4>2, <4>3 DEF CurrentSound
    <3> QED
      BY <3>1, <3>2
  <2>4. ASSUME NEW items, Edits(items, num)
        PROVE  Edits(items, next)
    <3>1. \A a \in SUBSET Nat : (\A n \in a : n < num) => \A n \in a : n < next
      BY <1>1
    <3> QED
      BY <2>4, <3>1 DEF Edits
  <2> QED
    BY <2>1, <2>2, <2>3, <2>4 DEF DirSound
<1> QED
  BY <1>1, <1>2 DEF FilesSound


\* Files that no directory has do not matter.
LEMMA SameFiles ==
  ASSUME NEW D, NEW c, NEW f, NEW s, NEW num, FilesSound(D, c, f, s, num),
         NEW c2, NEW f2, NEW s2, FileTypes(c2, f2, s2, num), Len(c2) >= Len(c),
         \A i \in 1 .. Len(c) : c2[i] = c[i] /\ s2[i] = s[i]
  PROVE  FilesSound(D, c2, f2, s2, num)
<1>1. Len(c) \in Nat /\ Len(c2) \in Nat /\ num \in Nat
  BY DEF FilesSound, FileTypes
<1>2. ASSUME NEW d \in D, NEW x \in DOMAIN d
      PROVE  d[x] \in 1 .. Len(c) /\ c2[d[x]] = c[d[x]] /\ s2[d[x]] = s[d[x]]
  BY DEF FilesSound, DirSound, DirTypes
<1>3. ASSUME NEW d \in D
      PROVE  DirSound(d, c2, s2, num)
  <2>1. DirSound(d, c, s, num)
    BY DEF FilesSound
  <2>2. DirTypes(d, c2, num)
    BY <1>1, <1>2, <2>1 DEF DirSound, DirTypes
  <2>3. \A n \in Nat : Manifest(n) \in DOMAIN d => Edits(c2[d[Manifest(n)]], num)
    BY <1>2, <2>1 DEF DirSound
  <2>4. ASSUME NEW m, NamedSound(d, m, c, s)
        PROVE  NamedSound(d, m, c2, s2)
    BY <1>2, <2>4 DEF NamedSound
  <2>5. CurrentSound(d, c2, s2, num)
    BY <1>2, <2>1, <2>4 DEF DirSound, CurrentSound
  <2> QED
    BY <2>2, <2>3, <2>5 DEF DirSound
<1>4. ASSUME NEW d \in D, NEW e \in D
      PROVE  Apart(d, e) /\ Backed(d, e, c2, s2)
  <2>1. Apart(d, e) /\ Backed(d, e, c, s)
    BY DEF FilesSound
  <2>2. ASSUME NEW items, ItemsBacked(items, e, s)
        PROVE  ItemsBacked(items, e, s2)
    BY <1>2, <2>2 DEF ItemsBacked, OnDisk
  <2> QED
    BY <1>2, <2>1, <2>2 DEF Backed
<1> QED
  BY <1>3, <1>4 DEF FilesSound

\* Creating a file: a table that no edit has named, or a descriptor that
\* CURRENT does not name.
LEMMA FileCreated ==
  ASSUME NEW D, NEW c, NEW f, NEW s, NEW num, FilesSound(D, c, f, s, num),
         NEW d \in D, NEW x \in Names, x # Current,
         \A n \in Nat : x = Table(n) =>
             /\ n < num
             /\ \A e \in D, m \in Nat : Manifest(m) \in DOMAIN e => Edits(c[e[Manifest(m)]], n),
         \A n \in Nat : x = Manifest(n) => n < num /\ (n = 1 \/ ~CurrentNames(d, n, c))
  PROVE  FilesSound(D \cup {With(d, x, Len(c) + 1)},
                    Append(c, << >>), Append(f, 0), Append(s, 0), num)
<1>1. PICK c2, f2, s2, e, i : /\ c2 = Append(c, << >>) /\ f2 = Append(f, 0) /\ s2 = Append(s, 0)
                              /\ e = With(d, x, Len(c) + 1) /\ i = Len(c) + 1
  OBVIOUS
<1>2. /\ FileTypes(c, f, s, num) /\ DirSound(d, c, s, num)
      /\ DirTypes(d, c, num) /\ d \in Directories
  BY DEF FilesSound, DirSound, DirTypes
<1>3. /\ Len(c) \in Nat /\ Len(c2) = i /\ i = Len(c) + 1
      /\ c2[i] = << >> /\ s2[i] = 0
      /\ \A j \in 1 .. Len(c) : c2[j] = c[j] /\ s2[j] = s[j]
  BY <1>1, <1>2 DEF FileTypes
<1>4. FileTypes(c2, f2, s2, num)
  <2>1. /\ c2 \in Seq(Seq(Items)) /\ f2 \in Seq(Nat) /\ s2 \in Seq(Nat)
        /\ Len(f2) = Len(c2) /\ Len(s2) = Len(c2)
        /\ f2[i] = 0 /\ \A j \in 1 .. Len(c) : f2[j] = f[j]
    BY <1>1, <1>2 DEF FileTypes
  <2>2. \A j \in 1 .. Len(c2) : s2[j] <= f2[j] /\ f2[j] <= Len(c2[j])
    <3>1. s2[i] <= f2[i] /\ f2[i] <= Len(c2[i])
      BY <1>3, <2>1
    <3>2. \A j \in 1 .. Len(c) : s2[j] <= f2[j] /\ f2[j] <= Len(c2[j])
      BY <1>2, <1>3, <2>1 DEF FileTypes
    <3>3. \A j \in 1 .. Len(c2) : j = i \/ j \in 1 .. Len(c)
      BY <1>3
    <3> QED
      BY <3>1, <3>2, <3>3
  <2> QED
    BY <1>2, <2>1, <2>2 DEF FileTypes
<1>5. FilesSound(D, c2, f2, s2, num)
  BY <1>3, <1>4, SameFiles
<1>6. /\ e \in Directories /\ DOMAIN e = DOMAIN d \cup {x} /\ e[x] = i
      /\ \A y \in DOMAIN d : y # x => e[y] = d[y]
  <2>1. i \in Nat
    BY <1>3
  <2>2. e = With(d, x, i)
    BY <1>1
  <2>3. d \in Directories
    BY <1>2
  <2>4. x \in Names
    OBVIOUS
  <2>5. e \in Directories /\ DOMAIN e = DOMAIN d \cup {x}
    BY ONLY <2>1, <2>2, <2>3, <2>4, WithName, Zenon
  <2>6. e[x] = i
    BY ONLY <2>2 DEF With
  <2>7. \A y \in DOMAIN d : y # x => e[y] = d[y]
    BY ONLY <2>2 DEF With
  <2> QED
    BY <2>5, <2>6, <2>7
<1>7. DirSound(e, c2, s2, num)
  <2>1. DirSound(d, c2, s2, num) /\ num \in Nat
    BY <1>5, <1>2 DEF FilesSound, FileTypes
  <2>2. DirTypes(e, c2, num)
    BY <1>3, <1>6, <2>1 DEF DirSound, DirTypes
  <2>3. ASSUME NEW n \in Nat, Manifest(n) \in DOMAIN e
        PROVE  Edits(c2[e[Manifest(n)]], num)
    <3>1. CASE Manifest(n) = x
      BY <1>3, <1>6, <3>1 DEF Edits
    <3>2. CASE Manifest(n) # x
      BY <1>6, <2>1, <2>3, <3>2 DEF DirSound
    <3> QED
      BY <3>1, <3>2
  <2>4. CurrentSound(e, c2, s2, num)
    <3> SUFFICES ASSUME Current \in DOMAIN e
                 PROVE  /\ s2[e[Current]] = 1
                        /\ \E m \in 1 .. num - 1 : /\ c2[e[Current]] = << << "current", m >> >>
                                                   /\ m # 1 => NamedSound(e, m, c2, s2)
      BY DEF CurrentSound
    <3>1. Current \in DOMAIN d /\ e[Current] = d[Current]
      BY <1>6
    <3>2. PICK m \in 1 .. num - 1 : /\ c2[d[Current]] = << << "current", m >> >>
                                    /\ m # 1 => NamedSound(d, m, c2, s2)
      BY <2>1, <3>1 DEF DirSound, CurrentSound
    <3>3. s2[d[Current]] = 1
      BY <2>1, <3>1 DEF DirSound, CurrentSound
    <3>4. ASSUME m # 1
          PROVE  NamedSound(e, m, c2, s2)
      <4>1. CurrentNames(d, m, c) /\ m \in Nat
        BY <1>2, <1>3, <2>1, <3>1, <3>2 DEF CurrentNames, DirTypes
      <4>2. Manifest(m) # x
        BY <3>4, <4>1
      <4> QED
        BY <1>6, <3>2, <3>4, <4>2 DEF NamedSound
    <3> QED
      BY <3>1, <3>2, <3>3, <3>4
  <2> QED
    BY <2>2, <2>3, <2>4 DEF DirSound
<1>8. ASSUME NEW g \in D
      PROVE  /\ Apart(g, e) /\ Apart(e, g)
             /\ \A y \in DOMAIN g : g[y] # i
  <2>1. Apart(g, d) /\ Apart(d, g)
    BY DEF FilesSound
  <2>2. \A y \in DOMAIN g : g[y] # i
    BY <1>3 DEF FilesSound, DirSound, DirTypes
  <2> QED
    BY <1>6, <2>1, <2>2 DEF Apart
<1>9. Apart(e, e)
  BY <1>6, <1>8 DEF Apart
<1>10. ASSUME NEW g \in D
       PROVE  Backed(g, e, c2, s2)
  <2> SUFFICES ASSUME NEW m \in Nat, Manifest(m) \in DOMAIN g
               PROVE  ItemsBacked(c2[g[Manifest(m)]], e, s2)
    BY DEF Backed
  <2>1. ItemsBacked(c2[g[Manifest(m)]], d, s2)
    BY <1>5 DEF FilesSound, Backed
  <2>2. c2[g[Manifest(m)]] = c[g[Manifest(m)]]
    BY <1>3 DEF FilesSound, DirSound, DirTypes
  <2>3. Edits(c[g[Manifest(m)]], num)
    BY DEF FilesSound, DirSound
  <2>4. ASSUME NEW k \in 1 .. Len(c[g[Manifest(m)]]), NEW t \in c[g[Manifest(m)]][k][2]
        PROVE  Table(t) # x
    <3>1. t \in Nat
      BY <2>3, EditAdds
    <3>2. SUFFICES ASSUME Table(t) = x
                   PROVE  FALSE
      OBVIOUS
    <3>3. Edits(c[g[Manifest(m)]], t)
      BY <3>1, <3>2
    <3>4. t < t
      BY <3>3, EditAdds
    <3> QED
      BY <3>1, <3>4
  <2> QED
    BY <1>6, <2>1, <2>2, <2>4 DEF ItemsBacked, OnDisk
<1>11. ASSUME NEW g, \A m \in Nat : Manifest(m) \in DOMAIN d => ItemsBacked(c2[d[Manifest(m)]], g, s2)
       PROVE  Backed(e, g, c2, s2)
  <2>1. ItemsBacked(<< >>, g, s2)
    BY DEF ItemsBacked
  <2> QED
    BY <1>3, <1>6, <1>11, <2>1 DEF Backed
<1>12. \A g \in D : Backed(e, g, c2, s2)
  BY <1>5, <1>11 DEF FilesSound, Backed
<1>13. Backed(e, e, c2, s2)
  BY <1>10, <1>11 DEF Backed
<1>14. FilesSound(D \cup {e}, c2, f2, s2, num)
  BY <1>5, <1>7, <1>8, <1>9, <1>10, <1>12, <1>13, DirAdded
<1> QED
  BY <1>1, <1>14


\* The types of one file.
LEMMA OneFile ==
  ASSUME NEW D, NEW c, NEW f, NEW s, NEW num, FilesSound(D, c, f, s, num), NEW i \in 1 .. Len(c)
  PROVE  /\ c[i] \in Seq(Items) /\ Len(c[i]) \in Nat
         /\ f[i] \in 0 .. Len(c[i]) /\ s[i] \in 0 .. f[i] /\ s[i] \in 0 .. Len(c[i])
<1>1. FileTypes(c, f, s, num)
  BY DEF FilesSound
<1>2. c[i] \in Seq(Items) /\ f[i] \in Nat /\ s[i] \in Nat /\ s[i] <= f[i] /\ f[i] <= Len(c[i])
  BY <1>1 DEF FileTypes
<1>3. Len(c[i]) \in Nat
  BY <1>2
<1> QED
  BY <1>2, <1>3

\* What is left of a sequence.
LEMMA Prefix ==
  ASSUME NEW X, NEW q \in Seq(X), NEW k \in 0 .. Len(q)
  PROVE  /\ SubSeq(q, 1, k) \in Seq(X) /\ Len(SubSeq(q, 1, k)) = k
         /\ \A i \in 1 .. k : SubSeq(q, 1, k)[i] = q[i]
         /\ \A j \in 0 .. k : SubSeq(SubSeq(q, 1, k), 1, j) = SubSeq(q, 1, j)
<1>1. \A i \in 1 .. k : q[i] \in X
  OBVIOUS
<1>2. /\ SubSeq(q, 1, k) \in Seq(X)
      /\ Len(SubSeq(q, 1, k)) = IF 1 <= k THEN k - 1 + 1 ELSE 0
      /\ \A i \in 1 .. k - 1 + 1 : SubSeq(q, 1, k)[i] = q[1 + i - 1]
  BY <1>1, SubSeqProperties
<1>3. ASSUME NEW j \in 0 .. k
      PROVE  SubSeq(SubSeq(q, 1, k), 1, j) = SubSeq(q, 1, j)
  <2>1. CASE j = 0
    BY <2>1, SubSeqEmpty
  <2>2. CASE j # 0
    <3>1. /\ 1 \in 1 .. Len(q) /\ k \in 1 .. Len(q)
          /\ 1 \in 1 .. k - 1 + 1 /\ j \in 1 .. k - 1 + 1
      BY <2>2
    <3>2. SubSeq(SubSeq(q, 1, k), 1, j) = SubSeq(q, 1 + 1 - 1, 1 + j - 1)
      BY ONLY <3>1, SubSeqOfSubSeq, q \in Seq(X), SMTT(30)
    <3> QED
      BY <3>2
  <2> QED
    BY <2>1, <2>2
<1> QED
  BY <1>2, <1>3

\* The tables of the first items are added by one of them.
LEMMA PrefixTables ==
  ASSUME NEW q \in Seq(Items), NEW k \in 0 .. Len(q), NEW t \in Tables(SubSeq(q, 1, k))
  PROVE  \E j \in 1 .. k : j \in 1 .. Len(q) /\ t \in q[j][2]
<1>1. /\ SubSeq(q, 1, k) \in Seq(Items) /\ Len(SubSeq(q, 1, k)) = k
      /\ \A j \in 1 .. k : SubSeq(q, 1, k)[j] = q[j]
  BY Prefix
<1>2. PICK j \in DOMAIN SubSeq(q, 1, k) : t \in SubSeq(q, 1, k)[j][2]
  BY TablesAdded
<1> QED
  BY <1>1, <1>2

\* The buffers are lost, or the machine stops: the files keep what was flushed
\* or synced.
LEMMA FilesTruncated ==
  ASSUME NEW D, NEW c, NEW f, NEW s, NEW num, FilesSound(D, c, f, s, num),
         NEW f2 \in Seq(Nat), Len(f2) = Len(c),
         \A i \in 1 .. Len(c) : s[i] <= f2[i] /\ f2[i] <= Len(c[i]),
         NEW c2, c2 = [i \in DOMAIN c |-> SubSeq(c[i], 1, f2[i])]
  PROVE  FilesSound(D, c2, f2, s, num)
<1>1. FileTypes(c, f, s, num) /\ DOMAIN c = 1 .. Len(c) /\ Len(c) \in Nat
  BY DEF FilesSound, FileTypes
<1>2. ASSUME NEW i \in 1 .. Len(c)
      PROVE  /\ c[i] \in Seq(Items) /\ c2[i] = SubSeq(c[i], 1, f2[i])
             /\ f2[i] \in 0 .. Len(c[i]) /\ s[i] \in 0 .. f2[i] /\ s[i] \in Nat
  BY <1>1 DEF FileTypes
<1>3. ASSUME NEW i \in 1 .. Len(c)
      PROVE  /\ c2[i] \in Seq(Items) /\ Len(c2[i]) = f2[i]
             /\ \A j \in 1 .. f2[i] : c2[i][j] = c[i][j]
             /\ SubSeq(c2[i], 1, s[i]) = SubSeq(c[i], 1, s[i])
  <2>1. PICK q : q = c[i]
    OBVIOUS
  <2>2. PICK k : k = f2[i]
    OBVIOUS
  <2>3. q \in Seq(Items) /\ k \in 0 .. Len(q) /\ s[i] \in 0 .. k
    BY <1>2, <2>1, <2>2
  <2>4. /\ SubSeq(q, 1, k) \in Seq(Items) /\ Len(SubSeq(q, 1, k)) = k
        /\ \A j \in 1 .. k : SubSeq(q, 1, k)[j] = q[j]
        /\ \A j \in 0 .. k : SubSeq(SubSeq(q, 1, k), 1, j) = SubSeq(q, 1, j)
    BY <2>3, Prefix
  <2>5. c2[i] = SubSeq(q, 1, k)
    BY <1>2, <2>1, <2>2
  <2> QED
    BY <2>1, <2>2, <2>3, <2>4, <2>5
<1>4. c2 \in Seq(Seq(Items)) /\ Len(c2) = Len(c)
  BY <1>1, <1>3
<1>5. FileTypes(c2, f2, s, num)
  BY <1>1, <1>2, <1>3, <1>4 DEF FileTypes
<1>6. ASSUME NEW d \in D, NEW x \in DOMAIN d
      PROVE  d[x] \in 1 .. Len(c)
  BY DEF FilesSound, DirSound, DirTypes
<1>7. ASSUME NEW i \in 1 .. Len(c), Edits(c[i], num)
      PROVE  Edits(c2[i], num)
  <2>1. \A j \in 1 .. Len(c2[i]) : j \in 1 .. Len(c[i]) /\ c2[i][j] = c[i][j]
    BY <1>2, <1>3
  <2> QED
    BY <1>7, <2>1 DEF Edits
<1>8. ASSUME NEW i \in 1 .. Len(c), NEW e, ItemsBacked(c[i], e, s)
      PROVE  ItemsBacked(c2[i], e, s)
  <2>1. \A j \in 1 .. Len(c2[i]) : j \in 1 .. Len(c[i]) /\ c2[i][j] = c[i][j]
    BY <1>2, <1>3
  <2> QED
    BY <1>8, <2>1 DEF ItemsBacked
<1>9. ASSUME NEW d \in D
      PROVE  DirSound(d, c2, s, num)
  <2>1. DirSound(d, c, s, num)
    BY DEF FilesSound
  <2>2. DirTypes(d, c2, num)
    BY <1>4, <2>1 DEF DirSound, DirTypes
  <2>3. \A n \in Nat : Manifest(n) \in DOMAIN d => Edits(c2[d[Manifest(n)]], num)
    BY <1>6, <1>7, <2>1 DEF DirSound
  <2>4. ASSUME NEW m, NamedSound(d, m, c, s)
        PROVE  NamedSound(d, m, c2, s)
    BY <1>3, <1>6, <2>4 DEF NamedSound
  <2>5. ASSUME Current \in DOMAIN d
        PROVE  c2[d[Current]] = c[d[Current]]
    <3>1. PICK i : i = d[Current]
      OBVIOUS
    <3>2. i \in 1 .. Len(c) /\ s[i] = 1 /\ Len(c[i]) = 1
      BY <1>6, <2>1, <2>5, <3>1 DEF DirSound, CurrentSound
    <3>3. f2[i] = Len(c[i])
      <4>1. f2[i] \in 0 .. Len(c[i]) /\ s[i] \in 0 .. f2[i]
        BY <1>2, <3>2
      <4> QED
        BY <3>2, <4>1
    <3> QED
      BY <1>2, <3>1, <3>2, <3>3, SubSeqFull
  <2>6. CurrentSound(d, c2, s, num)
    BY <2>1, <2>4, <2>5 DEF DirSound, CurrentSound
  <2> QED
    BY <2>2, <2>3, <2>6 DEF DirSound
<1>10. ASSUME NEW d \in D, NEW e \in D
       PROVE  Apart(d, e) /\ Backed(d, e, c2, s)
  BY <1>6, <1>8 DEF FilesSound, Backed
<1> QED
  BY <1>5, <1>9, <1>10 DEF FilesSound

\* The buffers are written: only the system knows more.
LEMMA FilesFlushed ==
  ASSUME NEW D, NEW c, NEW f, NEW s, NEW num, FilesSound(D, c, f, s, num),
         NEW f2 \in Seq(Nat), Len(f2) = Len(c),
         \A i \in 1 .. Len(c) : s[i] <= f2[i] /\ f2[i] <= Len(c[i])
  PROVE  FilesSound(D, c, f2, s, num)
  BY DEF FilesSound, FileTypes

\* CURRENT is replaced by a file that names a sound descriptor.
Replacing(n, d, c, s, e) ==
    /\ Temp(n) \in DOMAIN d /\ c[d[Temp(n)]] = << << "current", n >> >> /\ s[d[Temp(n)]] = 1
    /\ n # 1 => NamedSound(d, n, c, s)
    /\ e = With(Without(d, Temp(n)), Current, d[Temp(n)])

LEMMA TempRenamed ==
  ASSUME NEW D, NEW c, NEW f, NEW s, NEW num, FilesSound(D, c, f, s, num),
         NEW d \in D, NEW n \in 1 .. num - 1, NEW e, Replacing(n, d, c, s, e)
  PROVE  FilesSound(D \cup {e}, c, f, s, num) /\ e \in Directories
<1> USE DEF Replacing
<1>1. PICK i, w : i = d[Temp(n)] /\ w = Without(d, Temp(n))
  OBVIOUS
<1>2. /\ DirSound(d, c, s, num) /\ d \in Directories /\ i \in 1 .. Len(c)
      /\ n \in Nat /\ num \in Nat /\ Len(c) \in Nat
  BY <1>1 DEF FilesSound, FileTypes, DirSound, DirTypes
<1>3. PartOf(w, d) /\ DOMAIN w = DOMAIN d \ {Temp(n)}
  BY <1>1, <1>2, LessNames DEF Without
<1>4. w \in Directories /\ Current \in Names /\ i \in Nat /\ e = With(w, Current, i)
  BY <1>1, <1>2, <1>3, NamesDiffer DEF PartOf
<1>5. e \in Directories /\ DOMAIN e = DOMAIN w \cup {Current}
  BY ONLY <1>4, WithName, Zenon
<1>6. e[Current] = i
  BY ONLY <1>4 DEF With
<1>7. \A y \in DOMAIN w : y # Current => e[y] = w[y]
  BY ONLY <1>4 DEF With
<1>8. \A x \in DOMAIN d : x # Temp(n) /\ x # Current => e[x] = d[x]
  BY <1>3, <1>7 DEF PartOf
<1>9. ASSUME NEW m \in Nat
      PROVE  /\ Table(m) \in DOMAIN e <=> Table(m) \in DOMAIN d
             /\ Manifest(m) \in DOMAIN e <=> Manifest(m) \in DOMAIN d
             /\ Table(m) \in DOMAIN e => e[Table(m)] = d[Table(m)]
             /\ Manifest(m) \in DOMAIN e => e[Manifest(m)] = d[Manifest(m)]
  BY <1>2, <1>3, <1>5, <1>8, NamesDiffer
<1>10. DirSound(e, c, s, num)
  <2>1. DirTypes(e, c, num)
    BY <1>2, <1>3, <1>5, <1>6, <1>8, <1>9 DEF DirSound, DirTypes
  <2>2. ASSUME n # 1
        PROVE  NamedSound(e, n, c, s)
    <3>1. NamedSound(d, n, c, s)
      BY <2>2
    <3>2. \A t \in DOMAIN d : (\E m \in Nat : t = Table(m)) => t \in DOMAIN e
      BY <1>9
    <3>3. \A t \in Tables(SubSeq(c[d[Manifest(n)]], 1, s[d[Manifest(n)]])) : t \in Nat
      <4>1. PICK q, k : q = c[d[Manifest(n)]] /\ k = s[d[Manifest(n)]]
        OBVIOUS
      <4>2. d[Manifest(n)] \in 1 .. Len(c) /\ Edits(q, num)
        BY <1>2, <3>1, <4>1 DEF NamedSound, DirSound, DirTypes
      <4>3. q \in Seq(Items) /\ k \in 0 .. Len(q)
        BY <4>1, <4>2, OneFile
      <4>4. \A t \in Tables(SubSeq(q, 1, k)) : t \in Nat
        BY <4>2, <4>3, PrefixTables, EditAdds
      <4> QED
        BY <4>1, <4>4
    <3> QED
      BY <1>2, <1>9, <3>1, <3>2, <3>3 DEF NamedSound
  <2>3. CurrentSound(e, c, s, num)
    BY <1>1, <1>6, <2>2 DEF CurrentSound
  <2>4. \A m \in Nat : Manifest(m) \in DOMAIN e => Edits(c[e[Manifest(m)]], num)
    BY <1>2, <1>9 DEF DirSound
  <2> QED
    BY <2>1, <2>3, <2>4 DEF DirSound
<1>11. \A g, h \in D : Apart(g, h) /\ Backed(g, h, c, s)
  BY DEF FilesSound
<1>12. Movable(Temp(n)) /\ Movable(Current)
  BY <1>2, NamesDiffer
<1>13. ASSUME NEW y \in DOMAIN e
       PROVE  \E x \in DOMAIN d : e[y] = d[x] /\ (x = y \/ (Movable(x) /\ Movable(y)))
  <2>1. CASE y = Current
    BY <1>1, <1>6, <1>12, <2>1
  <2>2. CASE y # Current
    BY <1>3, <1>5, <1>8, <2>2
  <2> QED
    BY <2>1, <2>2
<1>14. ASSUME NEW g \in D
       PROVE  Apart(g, e) /\ Apart(e, g)
  <2>1. Apart(g, d) /\ Apart(d, g)
    BY <1>11
  <2> QED
    BY <1>13, <2>1 DEF Apart
<1>15. Apart(e, e)
  <2>1. Apart(d, d)
    BY <1>11
  <2> QED
    BY <1>13, <2>1 DEF Apart
<1>16. ASSUME NEW g, Backed(g, d, c, s), DirSound(g, c, s, num)
       PROVE  Backed(g, e, c, s)
  <2> SUFFICES ASSUME NEW m \in Nat, Manifest(m) \in DOMAIN g,
                      NEW k \in 1 .. Len(c[g[Manifest(m)]]), NEW t \in c[g[Manifest(m)]][k][2]
               PROVE  OnDisk(t, e, s)
    BY DEF Backed, ItemsBacked
  <2>1. t \in Nat
    BY <1>16, EditAdds DEF DirSound
  <2>2. OnDisk(t, d, s)
    BY <1>16 DEF Backed, ItemsBacked
  <2> QED
    BY <1>9, <2>1, <2>2 DEF OnDisk
<1>17. ASSUME NEW g \in D
       PROVE  Backed(g, e, c, s) /\ Backed(e, g, c, s)
  <2>1. Backed(g, d, c, s) /\ Backed(d, g, c, s) /\ DirSound(g, c, s, num)
    BY DEF FilesSound
  <2> QED
    BY <1>9, <1>16, <2>1 DEF Backed
<1>18. Backed(e, e, c, s)
  <2>1. Backed(d, e, c, s)
    BY <1>17
  <2> QED
    BY <1>9, <2>1 DEF Backed
<1>19. FilesSound(D \cup {e}, c, f, s, num)
  BY <1>10, <1>14, <1>15, <1>17, <1>18, DirAdded
<1> QED
  BY <1>1, <1>3, <1>5, <1>6, <1>8, <1>19


-----------------------------------------------------------------------------
(* The scripts, call by call. *)

\* The sequence p has n elements of S.
IsSeq(S, p, n) == p \in Seq(S) /\ Len(p) = n

\* r has the m elements of p, then the n elements of q.
Joined(S, p, m, q, n, r) ==
    /\ IsSeq(S, r, m + n)
    /\ \A k \in 1 .. m : r[k] = p[k]
    /\ \A k \in 1 .. n : r[m + k] = q[k]

LEMMA Join ==
  ASSUME NEW S, NEW p, NEW m, IsSeq(S, p, m), NEW q, NEW n, IsSeq(S, q, n)
  PROVE  Joined(S, p, m, q, n, p \o q)
<1>1. p \in Seq(S) /\ q \in Seq(S) /\ m = Len(p) /\ n = Len(q)
  BY DEF IsSeq
<1>2. PICK r : r = p \o q
  OBVIOUS
<1>3. /\ r \in Seq(S) /\ Len(r) = Len(p) + Len(q)
      /\ \A k \in 1 .. Len(p) : r[k] = p[k]
      /\ \A k \in 1 .. Len(q) : r[Len(p) + k] = q[k]
  BY ONLY <1>1, <1>2
<1> QED
  BY <1>1, <1>2, <1>3 DEF Joined, IsSeq

\* The elements of a sequence.
Four(S, p, c1, c2, c3, c4) ==
    /\ IsSeq(S, p, 4) /\ p[1] = c1 /\ p[2] = c2 /\ p[3] = c3 /\ p[4] = c4
Five(S, p, c1, c2, c3, c4, c5) ==
    /\ IsSeq(S, p, 5) /\ p[1] = c1 /\ p[2] = c2 /\ p[3] = c3 /\ p[4] = c4 /\ p[5] = c5
Nine(S, p, c1, c2, c3, c4, c5, c6, c7, c8, c9) ==
    /\ IsSeq(S, p, 9) /\ p[1] = c1 /\ p[2] = c2 /\ p[3] = c3 /\ p[4] = c4 /\ p[5] = c5
    /\ p[6] = c6 /\ p[7] = c7 /\ p[8] = c8 /\ p[9] = c9
Thirteen(S, p, c1, c2, c3, c4, c5, c6, c7, c8, c9, c10, c11, c12, c13) ==
    /\ IsSeq(S, p, 13) /\ p[1] = c1 /\ p[2] = c2 /\ p[3] = c3 /\ p[4] = c4 /\ p[5] = c5
    /\ p[6] = c6 /\ p[7] = c7 /\ p[8] = c8 /\ p[9] = c9 /\ p[10] = c10 /\ p[11] = c11
    /\ p[12] = c12 /\ p[13] = c13

\* Which files are synced with their directory.
LEMMA SyncWhat ==
  ASSUME NEW n
  PROVE  /\ SyncCalls(Table(n)) = << Call("syncdata", Table(n)) >>
         /\ SyncCalls(Temp(n)) = << Call("syncdata", Temp(n)) >>
         /\ SyncCalls(Manifest(n)) = << Call("syncdir", Manifest(n)), Call("syncdata", Manifest(n)) >>
  BY DEF SyncCalls, IsManifest, Table, Temp, Manifest

\* The shape of SetCurrentFile.
LEMMA ShapeOfSetCurrent ==
  ASSUME NEW S, NEW c1 \in S, NEW c2 \in S, NEW c3 \in S, NEW c4 \in S, NEW c5 \in S,
         NEW s, s = << c1, c2 >> \o << c3 >> \o << c4, c5 >>
  PROVE  Five(S, s, c1, c2, c3, c4, c5)
<1>1. PICK p1, p2, p3 :
        /\ p1 = << c1, c2 >> /\ p2 = << c3 >> /\ p3 = << c4, c5 >>
  OBVIOUS
<1>2. /\ IsSeq(S, p1, 2) /\ p1[1] = c1 /\ p1[2] = c2 /\ IsSeq(S, p2, 1) /\ p2[1] = c3
      /\ IsSeq(S, p3, 2) /\ p3[1] = c4 /\ p3[2] = c5
  BY <1>1 DEF IsSeq
<1>3. PICK r1 : r1 = p1 \o p2
  OBVIOUS
<1>4. s = r1 \o p3
  BY <1>1, <1>3
<1>5. Joined(S, p1, 2, p2, 1, r1)
  BY ONLY <1>2, <1>3, Join, Zenon
<1>6. /\ IsSeq(S, r1, 3) /\ r1[1] = c1 /\ r1[2] = c2 /\ r1[3] = c3
  BY ONLY <1>2, <1>5, 2 + 1 = 3 DEF Joined
<1>7. Joined(S, r1, 3, p3, 2, s)
  BY ONLY <1>2, <1>6, <1>4, Join, Zenon
<1> QED
  BY ONLY <1>2, <1>6, <1>7, 3 + 2 = 5 DEF Joined, Five

\* The shape of NewDB.
LEMMA ShapeOfNewDB ==
  ASSUME NEW S, NEW c1 \in S, NEW c2 \in S, NEW c3 \in S, NEW c4 \in S,
         NEW c5, NEW c6, NEW c7, NEW c8, NEW c9,
         NEW q, Five(S, q, c5, c6, c7, c8, c9),
         NEW s, s = << c1, c2, c3, c4 >> \o q
  PROVE  Nine(S, s, c1, c2, c3, c4, c5, c6, c7, c8, c9)
<1>0. /\ IsSeq(S, q, 5) /\ q[1] = c5 /\ q[2] = c6 /\ q[3] = c7 /\ q[4] = c8 /\ q[5] = c9
  BY DEF Five
<1>1. PICK p1 :
        /\ p1 = << c1, c2, c3, c4 >>
  OBVIOUS
<1>2. /\ IsSeq(S, p1, 4) /\ p1[1] = c1 /\ p1[2] = c2 /\ p1[3] = c3 /\ p1[4] = c4
  BY <1>1 DEF IsSeq
<1>3. s = p1 \o q
  BY <1>1
<1>4. Joined(S, p1, 4, q, 5, s)
  BY ONLY <1>2, <1>3, <1>0, Join, Zenon
<1> QED
  BY ONLY <1>2, <1>4, <1>0, 4 + 5 = 9 DEF Joined, Nine

\* The shape of LogCalls.
LEMMA ShapeOfLog ==
  ASSUME NEW S, NEW c1 \in S, NEW c2 \in S, NEW c3 \in S, NEW c4 \in S,
         NEW s, s = << c1, c2 >> \o << c3, c4 >>
  PROVE  Four(S, s, c1, c2, c3, c4)
<1>1. PICK p1, p2 :
        /\ p1 = << c1, c2 >> /\ p2 = << c3, c4 >>
  OBVIOUS
<1>2. /\ IsSeq(S, p1, 2) /\ p1[1] = c1 /\ p1[2] = c2 /\ IsSeq(S, p2, 2) /\ p2[1] = c3
      /\ p2[2] = c4
  BY <1>1 DEF IsSeq
<1>3. s = p1 \o p2
  BY <1>1
<1>4. Joined(S, p1, 2, p2, 2, s)
  BY ONLY <1>2, <1>3, Join, Zenon
<1> QED
  BY ONLY <1>2, <1>4, 2 + 2 = 4 DEF Joined, Four

\* The shape of the opening.
LEMMA ShapeOfOpen ==
  ASSUME NEW S, NEW c1 \in S, NEW c2 \in S, NEW c3 \in S, NEW c4, NEW c5, NEW c6, NEW c7,
         NEW c8, NEW c9, NEW c10, NEW c11, NEW c12, NEW c13 \in S,
         NEW l, Four(S, l, c4, c5, c6, c7),
         NEW q, Five(S, q, c8, c9, c10, c11, c12),
         NEW s, s = << c1, c2, c3 >> \o l \o q \o << c13 >>
  PROVE  Thirteen(S, s, c1, c2, c3, c4, c5, c6, c7, c8, c9, c10, c11, c12, c13)
<1>0. /\ IsSeq(S, l, 4) /\ l[1] = c4 /\ l[2] = c5 /\ l[3] = c6 /\ l[4] = c7
      /\ IsSeq(S, q, 5) /\ q[1] = c8 /\ q[2] = c9 /\ q[3] = c10 /\ q[4] = c11 /\ q[5] = c12
  BY DEF Four, Five
<1>1. PICK p1, p2 :
        /\ p1 = << c1, c2, c3 >> /\ p2 = << c13 >>
  OBVIOUS
<1>2. /\ IsSeq(S, p1, 3) /\ p1[1] = c1 /\ p1[2] = c2 /\ p1[3] = c3 /\ IsSeq(S, p2, 1)
      /\ p2[1] = c13
  BY <1>1 DEF IsSeq
<1>3. PICK r1, r2 : r1 = p1 \o l /\ r2 = r1 \o q
  OBVIOUS
<1>4. s = r2 \o p2
  BY <1>1, <1>3
<1>5. Joined(S, p1, 3, l, 4, r1)
  BY ONLY <1>2, <1>3, <1>0, Join, Zenon
<1>6. /\ IsSeq(S, r1, 7) /\ r1[1] = c1 /\ r1[2] = c2 /\ r1[3] = c3 /\ r1[4] = c4 /\ r1[5] = c5
      /\ r1[6] = c6 /\ r1[7] = c7
  BY ONLY <1>2, <1>5, <1>0, 3 + 4 = 7 DEF Joined
<1>7. Joined(S, r1, 7, q, 5, r2)
  BY ONLY <1>2, <1>6, <1>3, <1>0, Join, Zenon
<1>8. /\ IsSeq(S, r2, 12) /\ r2[1] = c1 /\ r2[2] = c2 /\ r2[3] = c3 /\ r2[4] = c4 /\ r2[5] = c5
      /\ r2[6] = c6 /\ r2[7] = c7 /\ r2[8] = c8 /\ r2[9] = c9 /\ r2[10] = c10 /\ r2[11] = c11
      /\ r2[12] = c12
  BY ONLY <1>2, <1>6, <1>7, <1>0, 7 + 5 = 12 DEF Joined
<1>9. Joined(S, r2, 12, p2, 1, s)
  BY ONLY <1>2, <1>8, <1>4, Join, Zenon
<1> QED
  BY ONLY <1>2, <1>8, <1>9, 12 + 1 = 13 DEF Joined, Thirteen

\* The shape of adding a table.
LEMMA ShapeOfAdd ==
  ASSUME NEW S, NEW c1 \in S, NEW c2 \in S, NEW c3 \in S, NEW c4 \in S,
         NEW c5, NEW c6, NEW c7, NEW c8, NEW c9 \in S,
         NEW l, Four(S, l, c5, c6, c7, c8),
         NEW s, s = << c1, c2 >> \o << c3 >> \o << c4 >> \o l \o << c9 >>
  PROVE  Nine(S, s, c1, c2, c3, c4, c5, c6, c7, c8, c9)
<1>0. /\ IsSeq(S, l, 4) /\ l[1] = c5 /\ l[2] = c6 /\ l[3] = c7 /\ l[4] = c8
  BY DEF Four
<1>1. PICK p1, p2, p3, p4 :
        /\ p1 = << c1, c2 >> /\ p2 = << c3 >> /\ p3 = << c4 >> /\ p4 = << c9 >>
  OBVIOUS
<1>2. /\ IsSeq(S, p1, 2) /\ p1[1] = c1 /\ p1[2] = c2 /\ IsSeq(S, p2, 1) /\ p2[1] = c3
      /\ IsSeq(S, p3, 1) /\ p3[1] = c4 /\ IsSeq(S, p4, 1) /\ p4[1] = c9
  BY <1>1 DEF IsSeq
<1>3. PICK r1, r2, r3 : r1 = p1 \o p2 /\ r2 = r1 \o p3 /\ r3 = r2 \o l
  OBVIOUS
<1>4. s = r3 \o p4
  BY <1>1, <1>3
<1>5. Joined(S, p1, 2, p2, 1, r1)
  BY ONLY <1>2, <1>3, Join, Zenon
<1>6. /\ IsSeq(S, r1, 3) /\ r1[1] = c1 /\ r1[2] = c2 /\ r1[3] = c3
  BY ONLY <1>2, <1>5, 2 + 1 = 3 DEF Joined
<1>7. Joined(S, r1, 3, p3, 1, r2)
  BY ONLY <1>2, <1>6, <1>3, Join, Zenon
<1>8. /\ IsSeq(S, r2, 4) /\ r2[1] = c1 /\ r2[2] = c2 /\ r2[3] = c3 /\ r2[4] = c4
  BY ONLY <1>2, <1>6, <1>7, 3 + 1 = 4 DEF Joined
<1>9. Joined(S, r2, 4, l, 4, r3)
  BY ONLY <1>2, <1>8, <1>3, <1>0, Join, Zenon
<1>10. /\ IsSeq(S, r3, 8) /\ r3[1] = c1 /\ r3[2] = c2 /\ r3[3] = c3 /\ r3[4] = c4 /\ r3[5] = c5
       /\ r3[6] = c6 /\ r3[7] = c7 /\ r3[8] = c8
  BY ONLY <1>2, <1>8, <1>9, <1>0, 4 + 4 = 8 DEF Joined
<1>11. Joined(S, r3, 8, p4, 1, s)
  BY ONLY <1>2, <1>10, <1>4, Join, Zenon
<1> QED
  BY ONLY <1>2, <1>10, <1>11, 8 + 1 = 9 DEF Joined, Nine


LEMMA SetCurrentSteps ==
  ASSUME NEW S, NEW n,
         Call("create", Temp(n)) \in S, AppendCall(Temp(n), << "current", n >>) \in S,
         Call("syncdata", Temp(n)) \in S, Call("close", Temp(n)) \in S,
         RenameCall(Temp(n), Current) \in S,
         NEW s, s = SetCurrentFile(n)
  PROVE  /\ IsSeq(S, s, 5)
         /\ s[1] = Call("create", Temp(n)) /\ s[2] = AppendCall(Temp(n), << "current", n >>)
         /\ s[3] = Call("syncdata", Temp(n)) /\ s[4] = Call("close", Temp(n))
         /\ s[5] = RenameCall(Temp(n), Current)
<1>1. PICK c1, c2, c3, c4, c5 :
        /\ c1 = Call("create", Temp(n)) /\ c2 = AppendCall(Temp(n), << "current", n >>)
        /\ c3 = Call("syncdata", Temp(n)) /\ c4 = Call("close", Temp(n))
        /\ c5 = RenameCall(Temp(n), Current)
  OBVIOUS
<1>2. s = << c1, c2 >> \o << c3 >> \o << c4, c5 >>
  BY <1>1, SyncWhat DEF SetCurrentFile
<1>3. c1 \in S /\ c2 \in S /\ c3 \in S /\ c4 \in S /\ c5 \in S
  BY <1>1
<1>4. Five(S, s, c1, c2, c3, c4, c5)
  BY ONLY <1>2, <1>3, ShapeOfSetCurrent, Zenon
<1> QED
  BY <1>1, <1>4 DEF Five

LEMMA LogSteps ==
  ASSUME NEW S, NEW n, NEW a, NEW b,
         AppendCall(Manifest(n), EditItem(a, b)) \in S, Call("flush", Manifest(n)) \in S,
         Call("syncdir", Manifest(n)) \in S, Call("syncdata", Manifest(n)) \in S,
         NEW s, s = LogCalls(n, a, b)
  PROVE  /\ IsSeq(S, s, 4)
         /\ s[1] = AppendCall(Manifest(n), EditItem(a, b)) /\ s[2] = Call("flush", Manifest(n))
         /\ s[3] = Call("syncdir", Manifest(n)) /\ s[4] = Call("syncdata", Manifest(n))
<1>1. PICK c1, c2, c3, c4 :
        /\ c1 = AppendCall(Manifest(n), EditItem(a, b)) /\ c2 = Call("flush", Manifest(n))
        /\ c3 = Call("syncdir", Manifest(n)) /\ c4 = Call("syncdata", Manifest(n))
  OBVIOUS
<1>2. s = << c1, c2 >> \o << c3, c4 >>
  BY <1>1, SyncWhat DEF LogCalls
<1>3. c1 \in S /\ c2 \in S /\ c3 \in S /\ c4 \in S
  BY <1>1
<1>4. Four(S, s, c1, c2, c3, c4)
  BY ONLY <1>2, <1>3, ShapeOfLog, Zenon
<1> QED
  BY <1>1, <1>4 DEF Four

\* NewDB.
NewDBIs(s) ==
    /\ s[1] = Call("create", Manifest(1))
    /\ s[2] = AppendCall(Manifest(1), EditItem({}, {}))
    /\ s[3] = Call("flush", Manifest(1)) /\ s[4] = Call("close", Manifest(1))
    /\ s[5] = Call("create", Temp(1)) /\ s[6] = AppendCall(Temp(1), << "current", 1 >>)
    /\ s[7] = Call("syncdata", Temp(1)) /\ s[8] = Call("close", Temp(1))
    /\ s[9] = RenameCall(Temp(1), Current)

LEMMA NewDBSteps ==
  ASSUME NEW s, s = NewDBCalls
  PROVE  (\E S : IsSeq(S, s, 9)) /\ NewDBIs(s)
<1>1. PICK c1, c2, c3, c4, c5, c6, c7, c8, c9 :
        /\ c1 = Call("create", Manifest(1)) /\ c2 = AppendCall(Manifest(1), EditItem({}, {}))
        /\ c3 = Call("flush", Manifest(1)) /\ c4 = Call("close", Manifest(1))
        /\ c5 = Call("create", Temp(1)) /\ c6 = AppendCall(Temp(1), << "current", 1 >>)
        /\ c7 = Call("syncdata", Temp(1)) /\ c8 = Call("close", Temp(1))
        /\ c9 = RenameCall(Temp(1), Current)
  OBVIOUS
<1>2. PICK S : S = {c1, c2, c3, c4, c5, c6, c7, c8, c9}
  OBVIOUS
<1>3. PICK q : q = SetCurrentFile(1)
  OBVIOUS
<1>4. s = << c1, c2, c3, c4 >> \o q
  BY <1>1, <1>3 DEF NewDBCalls
<1>5. /\ c1 \in S /\ c2 \in S /\ c3 \in S /\ c4 \in S /\ c5 \in S
      /\ c6 \in S /\ c7 \in S /\ c8 \in S /\ c9 \in S
  BY <1>2
<1>6. Five(S, q, c5, c6, c7, c8, c9)
  BY ONLY <1>1, <1>3, <1>5, SetCurrentSteps DEF Five
<1>7. Nine(S, s, c1, c2, c3, c4, c5, c6, c7, c8, c9)
  BY ONLY <1>4, <1>5, <1>6, ShapeOfNewDB, Zenon
<1> QED
  BY <1>1, <1>7 DEF Nine, NewDBIs

\* The opening.
OpenIs(s, n, T) ==
    /\ s[1] = Call("create", Manifest(n)) /\ s[2] = AppendCall(Manifest(n), EditItem(T, {}))
    /\ s[3] = Call("flush", Manifest(n)) /\ s[4] = AppendCall(Manifest(n), EditItem({}, {}))
    /\ s[5] = Call("flush", Manifest(n)) /\ s[6] = Call("syncdir", Manifest(n))
    /\ s[7] = Call("syncdata", Manifest(n))
    /\ s[8] = Call("create", Temp(n)) /\ s[9] = AppendCall(Temp(n), << "current", n >>)
    /\ s[10] = Call("syncdata", Temp(n)) /\ s[11] = Call("close", Temp(n))
    /\ s[12] = RenameCall(Temp(n), Current) /\ s[13] = Done(T, n)

LEMMA OpenSteps ==
  ASSUME NEW n, NEW T, NEW s, s = OpenScript(n, T)
  PROVE  (\E S : IsSeq(S, s, 13)) /\ OpenIs(s, n, T)
<1>1. PICK c1, c2, c3, c4, c5, c6, c7, c8, c9, c10, c11, c12, c13 :
        /\ c1 = Call("create", Manifest(n)) /\ c2 = AppendCall(Manifest(n), EditItem(T, {}))
        /\ c3 = Call("flush", Manifest(n)) /\ c4 = AppendCall(Manifest(n), EditItem({}, {}))
        /\ c5 = Call("flush", Manifest(n)) /\ c6 = Call("syncdir", Manifest(n))
        /\ c7 = Call("syncdata", Manifest(n))
        /\ c8 = Call("create", Temp(n)) /\ c9 = AppendCall(Temp(n), << "current", n >>)
        /\ c10 = Call("syncdata", Temp(n)) /\ c11 = Call("close", Temp(n))
        /\ c12 = RenameCall(Temp(n), Current) /\ c13 = Done(T, n)
  OBVIOUS
<1>2. PICK S : S = {c1, c2, c3, c4, c5, c6, c7, c8, c9, c10, c11, c12, c13}
  OBVIOUS
<1>3. PICK l, q : l = LogCalls(n, {}, {}) /\ q = SetCurrentFile(n)
  OBVIOUS
<1>4. s = << c1, c2, c3 >> \o l \o q \o << c13 >>
  BY <1>1, <1>3 DEF OpenScript, OpenCalls
<1>5. /\ c1 \in S /\ c2 \in S /\ c3 \in S /\ c4 \in S /\ c5 \in S /\ c6 \in S /\ c7 \in S
      /\ c8 \in S /\ c9 \in S /\ c10 \in S /\ c11 \in S /\ c12 \in S /\ c13 \in S
  BY <1>2
<1>6. Four(S, l, c4, c5, c6, c7)
  BY ONLY <1>1, <1>3, <1>5, LogSteps DEF Four
<1>7. Five(S, q, c8, c9, c10, c11, c12)
  BY ONLY <1>1, <1>3, <1>5, SetCurrentSteps DEF Five
<1>8. Thirteen(S, s, c1, c2, c3, c4, c5, c6, c7, c8, c9, c10, c11, c12, c13)
  BY ONLY <1>4, <1>5, <1>6, <1>7, ShapeOfOpen, Zenon
<1> QED
  BY <1>1, <1>8 DEF Thirteen, OpenIs

\* The adding of a table.
AddIs(s, n, m, v, gone) ==
    /\ s[1] = Call("create", Table(n)) /\ s[2] = AppendCall(Table(n), << "table", n >>)
    /\ s[3] = Call("syncdata", Table(n)) /\ s[4] = Call("close", Table(n))
    /\ s[5] = AppendCall(Manifest(m), EditItem({n}, gone))
    /\ s[6] = Call("flush", Manifest(m)) /\ s[7] = Call("syncdir", Manifest(m))
    /\ s[8] = Call("syncdata", Manifest(m)) /\ s[9] = Done((v \ gone) \cup {n}, m)

LEMMA AddSteps ==
  ASSUME NEW n, NEW m, NEW v, NEW gone, NEW s, s = AddScript(n, m, v, gone)
  PROVE  (\E S : IsSeq(S, s, 9)) /\ AddIs(s, n, m, v, gone)
<1>1. PICK c1, c2, c3, c4, c5, c6, c7, c8, c9 :
        /\ c1 = Call("create", Table(n)) /\ c2 = AppendCall(Table(n), << "table", n >>)
        /\ c3 = Call("syncdata", Table(n)) /\ c4 = Call("close", Table(n))
        /\ c5 = AppendCall(Manifest(m), EditItem({n}, gone))
        /\ c6 = Call("flush", Manifest(m)) /\ c7 = Call("syncdir", Manifest(m))
        /\ c8 = Call("syncdata", Manifest(m)) /\ c9 = Done((v \ gone) \cup {n}, m)
  OBVIOUS
<1>2. PICK S : S = {c1, c2, c3, c4, c5, c6, c7, c8, c9}
  OBVIOUS
<1>3. PICK l : l = LogCalls(m, {n}, gone)
  OBVIOUS
<1>4. s = << c1, c2 >> \o << c3 >> \o << c4 >> \o l \o << c9 >>
  BY <1>1, <1>3, SyncWhat DEF AddScript, BuildTableCalls
<1>5. /\ c1 \in S /\ c2 \in S /\ c3 \in S /\ c4 \in S /\ c5 \in S
      /\ c6 \in S /\ c7 \in S /\ c8 \in S /\ c9 \in S
  BY <1>2
<1>6. Four(S, l, c5, c6, c7, c8)
  BY ONLY <1>1, <1>3, <1>5, LogSteps DEF Four
<1>7. Nine(S, s, c1, c2, c3, c4, c5, c6, c7, c8, c9)
  BY ONLY <1>4, <1>5, <1>6, ShapeOfAdd, Zenon
<1> QED
  BY <1>1, <1>7 DEF Nine, AddIs

\* A process before the k-th of n calls.
AtCall(script, k, n) ==
    /\ Rest(script, k) # << >>
    /\ Head(Rest(script, k)) = script[k]
    /\ Tail(Rest(script, k)) = Rest(script, k + 1)
    /\ Rest(script, n + 1) = << >>

LEMMA NextCall ==
  ASSUME NEW S, NEW script, NEW n, n \in Nat, IsSeq(S, script, n), NEW k, k \in 1 .. n
  PROVE  AtCall(script, k, n)
<1>1. script \in Seq(S) /\ n = Len(script)
  BY DEF IsSeq
<1>2. k \in 1 .. Len(script) /\ Len(script) \in k .. Len(script)
  BY <1>1
<1>3. /\ Head(SubSeq(script, k, Len(script))) = script[k]
      /\ Tail(SubSeq(script, k, Len(script))) = SubSeq(script, k + 1, Len(script))
  BY ONLY <1>1, <1>2, HeadTailOfSubSeq
<1>4. \A i \in k .. Len(script) : script[i] \in S
  BY ONLY <1>1, <1>2
<1>5. Len(SubSeq(script, k, Len(script))) = Len(script) - k + 1
  BY ONLY <1>1, <1>2, <1>4, SubSeqProperties
<1>6. SubSeq(script, k, Len(script)) # << >>
  <2>1. Len(script) \in Nat /\ k \in Nat /\ k <= Len(script)
    BY ONLY <1>1, <1>2
  <2>2. Len(SubSeq(script, k, Len(script))) # 0
    BY ONLY <1>5, <2>1
  <2>3. Len(<< >>) = 0
    OBVIOUS
  <2> QED
    BY ONLY <2>2, <2>3, Zenon
<1>7. SubSeq(script, Len(script) + 1, Len(script)) = << >>
  BY <1>1, SubSeqEmpty
<1> QED
  BY <1>1, <1>3, <1>6, <1>7 DEF Rest, AtCall


-----------------------------------------------------------------------------
(* The effect of each call. *)

LEMMA CreateEffect ==
  ASSUME NEW x, Effect(Call("create", x))
  PROVE  /\ dirs' = Append(dirs, With(Dir, x, Len(content) + 1))
         /\ content' = Append(content, << >>)
         /\ flushed' = Append(flushed, 0) /\ synced' = Append(synced, 0)
         /\ version' = version /\ manifest' = manifest
  BY DEF Effect, Call, NewInode

LEMMA AppendEffect ==
  ASSUME NEW x, NEW item, Effect(AppendCall(x, item))
  PROVE  /\ content' = [content EXCEPT ![Dir[x]] = Append(@, item)]
         /\ dirs' = dirs /\ flushed' = flushed /\ synced' = synced
         /\ version' = version /\ manifest' = manifest
  BY DEF Effect, AppendCall, FileOf

LEMMA FlushEffect ==
  ASSUME NEW x, NEW op \in {"flush", "close"}, Effect(Call(op, x))
  PROVE  /\ flushed' = [flushed EXCEPT ![Dir[x]] = Len(content[Dir[x]])]
         /\ dirs' = dirs /\ content' = content /\ synced' = synced
         /\ version' = version /\ manifest' = manifest
  BY DEF Effect, Call, FileOf

LEMMA SyncDirEffect ==
  ASSUME NEW x, Effect(Call("syncdir", x))
  PROVE  /\ dirs' = << Dir >>
         /\ content' = content /\ flushed' = flushed /\ synced' = synced
         /\ version' = version /\ manifest' = manifest
  BY DEF Effect, Call

LEMMA SyncDataEffect ==
  ASSUME NEW x, Effect(Call("syncdata", x))
  PROVE  /\ flushed' = [flushed EXCEPT ![Dir[x]] = Len(content[Dir[x]])]
         /\ synced' = [synced EXCEPT ![Dir[x]] = Len(content[Dir[x]])]
         /\ dirs' = dirs /\ content' = content
         /\ version' = version /\ manifest' = manifest
  BY DEF Effect, Call, FileOf

LEMMA RenameEffect ==
  ASSUME NEW x, NEW y, Effect(RenameCall(x, y))
  PROVE  /\ dirs' = Append(dirs, With(Without(Dir, x), y, Dir[x]))
         /\ content' = content /\ flushed' = flushed /\ synced' = synced
         /\ version' = version /\ manifest' = manifest
  BY DEF Effect, RenameCall, FileOf

LEMMA DoneEffect ==
  ASSUME NEW T, NEW n, Effect(Done(T, n))
  PROVE  /\ version' = T /\ manifest' = n
         /\ dirs' = dirs /\ content' = content /\ flushed' = flushed /\ synced' = synced
  BY DEF Effect, Done, Manifest

-----------------------------------------------------------------------------
(* The calls keep the files sound. *)

All == DirSet(dirs)

FilesOK ==
    /\ dirs \in Seq(Directories) /\ Len(dirs) >= 1
    /\ FilesSound(All, content, flushed, synced, number)

\* The latest directory is one of those that may survive.
LEMMA Latest ==
  ASSUME FilesOK
  PROVE  /\ Dir \in All /\ Dir \in Directories /\ DirSound(Dir, content, synced, number)
         /\ \A x \in DOMAIN Dir : Dir[x] \in 1 .. Len(content)
         /\ Len(content) \in Nat /\ number \in Nat /\ number >= 2
<1>1. Dir \in All /\ Dir \in Directories
  BY DEF FilesOK, All, DirSet, Dir
<1> QED
  BY <1>1 DEF FilesOK, FilesSound, FileTypes, DirSound, DirTypes

\* A directory is added, or is the only one left.
LEMMA DirsGrow ==
  ASSUME FilesOK, NEW e \in Directories, dirs' = Append(dirs, e)
  PROVE  /\ dirs' \in Seq(Directories) /\ Len(dirs') >= 1
         /\ All' = All \cup {e} /\ Dir' = e
<1>1. /\ Len(dirs) \in Nat /\ dirs' \in Seq(Directories) /\ Len(dirs') = Len(dirs) + 1
      /\ dirs'[Len(dirs) + 1] = e /\ \A i \in 1 .. Len(dirs) : dirs'[i] = dirs[i]
  BY DEF FilesOK
<1>2. 1 .. Len(dirs') = 1 .. Len(dirs) \cup {Len(dirs) + 1}
  BY <1>1
<1>3. All' = All \cup {e}
  BY <1>1, <1>2 DEF All, DirSet
<1> QED
  BY <1>1, <1>3 DEF Dir

LEMMA DirsShrink ==
  ASSUME NEW e \in Directories, dirs' = << e >>
  PROVE  /\ dirs' \in Seq(Directories) /\ Len(dirs') >= 1
         /\ All' = {e} /\ Dir' = e
  BY DEF All, DirSet, Dir

\* One file changes in one of its three respects.
LEMMA Appended ==
  ASSUME FilesOK, NEW i \in 1 .. Len(content), NEW item \in Items,
         content' = [content EXCEPT ![i] = Append(@, item)],
         flushed' = flushed, synced' = synced
  PROVE  /\ Touched(i, content, flushed, synced, content', flushed', synced')
         /\ content'[i] = Append(content[i], item)
<1>1. FileTypes(content, flushed, synced, number)
  BY DEF FilesOK, FilesSound
<1>2. content[i] \in Seq(Items) /\ Append(content[i], item) \in Seq(Items)
  BY <1>1 DEF FileTypes
<1>3. content' \in Seq(Seq(Items)) /\ Len(content') = Len(content)
  BY <1>1, <1>2 DEF FileTypes
<1>4. content'[i] = Append(content[i], item) /\ \A j \in 1 .. Len(content) : j # i => content'[j] = content[j]
  BY <1>1 DEF FileTypes
<1>5. synced[i] \in Nat /\ flushed[i] \in Nat /\ synced[i] <= flushed[i] /\ flushed[i] <= Len(content'[i])
  <2>1. synced[i] \in Nat /\ flushed[i] \in Nat /\ synced[i] <= flushed[i] /\ flushed[i] <= Len(content[i])
    BY <1>1 DEF FileTypes
  <2>2. Len(content'[i]) = Len(content[i]) + 1 /\ Len(content[i]) \in Nat
    BY <1>2, <1>4
  <2> QED
    BY <2>1, <2>2
<1> QED
  BY <1>1, <1>3, <1>4, <1>5 DEF Touched, FileTypes

LEMMA Synced ==
  ASSUME FilesOK, NEW i \in 1 .. Len(content), content' = content,
         flushed' = [flushed EXCEPT ![i] = Len(content[i])],
         synced' = [synced EXCEPT ![i] = Len(content[i])]
  PROVE  /\ Touched(i, content, flushed, synced, content', flushed', synced')
         /\ synced'[i] = Len(content[i])
<1>1. FileTypes(content, flushed, synced, number)
  BY DEF FilesOK, FilesSound
<1>2. content[i] \in Seq(Items) /\ Len(content[i]) \in Nat
  BY <1>1 DEF FileTypes
<1>3. /\ flushed' \in Seq(Nat) /\ Len(flushed') = Len(content)
      /\ synced' \in Seq(Nat) /\ Len(synced') = Len(content)
  BY <1>1, <1>2 DEF FileTypes
<1>4. /\ flushed'[i] = Len(content[i]) /\ synced'[i] = Len(content[i])
      /\ \A j \in 1 .. Len(content) : j # i => flushed'[j] = flushed[j] /\ synced'[j] = synced[j]
  BY <1>1 DEF FileTypes
<1> QED
  BY <1>1, <1>2, <1>3, <1>4 DEF Touched, FileTypes

\* A flush changes nothing that the disk has.
LEMMA Flushed ==
  ASSUME FilesOK, NEW i \in 1 .. Len(content), number' = number,
         flushed' = [flushed EXCEPT ![i] = Len(content[i])],
         dirs' = dirs, content' = content, synced' = synced
  PROVE  FilesOK' /\ All' = All /\ Dir' = Dir
<1>1. FileTypes(content, flushed, synced, number)
  BY DEF FilesOK, FilesSound
<1>2. content[i] \in Seq(Items) /\ Len(content[i]) \in Nat /\ synced[i] <= Len(content[i])
  <2>1. content[i] \in Seq(Items) /\ synced[i] \in Nat /\ flushed[i] \in Nat
        /\ synced[i] <= flushed[i] /\ flushed[i] <= Len(content[i])
    BY <1>1 DEF FileTypes
  <2>2. Len(content[i]) \in Nat
    BY <2>1
  <2> QED
    BY <2>1, <2>2
<1>3. flushed' \in Seq(Nat) /\ Len(flushed') = Len(content)
  BY <1>1, <1>2 DEF FileTypes
<1>4. \A j \in 1 .. Len(content) : synced[j] <= flushed'[j] /\ flushed'[j] <= Len(content[j])
  BY <1>1, <1>2 DEF FileTypes
<1>5. All' = All /\ Dir' = Dir
  BY DEF All, Dir
<1>6. FilesSound(All, content, flushed, synced, number)
  BY DEF FilesOK
<1>7. FilesSound(All, content, flushed', synced, number)
  BY <1>3, <1>4, <1>6, FilesFlushed
<1> QED
  BY <1>5, <1>7 DEF FilesOK


\* Only the file x of the latest directory, or a temporary file, is changed.
Unaffected(x) ==
    \A e \in All : \A y \in DOMAIN e :
        \/ y = x \/ \E n \in Nat : y = Temp(n)
        \/ content'[e[y]] = content[e[y]] /\ synced'[e[y]] = synced[e[y]]

\* A step that changes files, not directories.
FileStep(x) ==
    /\ dirs' = dirs /\ number' = number
    /\ Touched(Dir[x], content, flushed, synced, content', flushed', synced')

LEMMA SameDirs ==
  ASSUME dirs' = dirs
  PROVE  All' = All /\ Dir' = Dir
  BY DEF All, Dir

\* Another name of the file x.
LEMMA OtherNames ==
  ASSUME FilesOK, NEW x \in DOMAIN Dir, ~Movable(x), NEW e \in All, NEW y \in DOMAIN e, y # x
  PROVE  e[y] # Dir[x] /\ e[y] \in 1 .. Len(content)
<1>1. Dir \in All
  BY Latest
<1> QED
  BY <1>1 DEF FilesOK, FilesSound, Apart, DirSound, DirTypes

LEMMA TempWritten ==
  ASSUME FilesOK, NEW n \in Nat, Temp(n) \in DOMAIN Dir, FileStep(Temp(n)),
         \A e \in All : Current \in DOMAIN e => e[Current] # Dir[Temp(n)]
  PROVE  FilesOK' /\ Unaffected(Temp(n))
<1>1. /\ Dir \in All /\ Dir[Temp(n)] \in 1 .. Len(content)
      /\ FilesSound(All, content, flushed, synced, number)
      /\ Touched(Dir[Temp(n)], content, flushed, synced, content', flushed', synced')
  BY Latest DEF FilesOK, FileStep
<1>2. ASSUME NEW e \in All, NEW y \in DOMAIN e, y # Temp(n), \A k \in Nat : y # Temp(k)
      PROVE  e[y] # Dir[Temp(n)] /\ e[y] \in 1 .. Len(content)
  <2>1. Apart(e, Dir) /\ e[y] \in 1 .. Len(content)
    BY <1>1 DEF FilesSound, DirSound, DirTypes
  <2>2. CASE y = Current
    BY <2>1, <2>2
  <2>3. CASE y # Current
    BY <1>2, <2>1, <2>3 DEF Apart, Movable
  <2> QED
    BY <2>2, <2>3
<1>3. ASSUME NEW e \in All, NEW k \in Nat
      PROVE  /\ Manifest(k) \in DOMAIN e => e[Manifest(k)] # Dir[Temp(n)]
             /\ Table(k) \in DOMAIN e => e[Table(k)] # Dir[Temp(n)]
  BY <1>2, NamesDiffer
<1>4. FilesSound(All, content', flushed', synced', number)
  BY <1>1, <1>3, FileChanges
<1>5. FilesOK'
  BY <1>4, SameDirs DEF FilesOK, FileStep
<1>6. Unaffected(Temp(n))
  BY <1>1, <1>2 DEF Unaffected, Touched
<1> QED
  BY <1>5, <1>6

LEMMA TableWritten ==
  ASSUME FilesOK, NEW n \in Nat, Table(n) \in DOMAIN Dir, FileStep(Table(n)),
         synced[Dir[Table(n)]] = 1 => synced'[Dir[Table(n)]] = 1
  PROVE  FilesOK' /\ Unaffected(Table(n))
<1>1. /\ Dir \in All /\ Dir[Table(n)] \in 1 .. Len(content)
      /\ FilesSound(All, content, flushed, synced, number)
      /\ Touched(Dir[Table(n)], content, flushed, synced, content', flushed', synced')
  BY Latest DEF FilesOK, FileStep
<1>2. ASSUME NEW e \in All, NEW y \in DOMAIN e, y # Table(n)
      PROVE  e[y] # Dir[Table(n)] /\ e[y] \in 1 .. Len(content)
  BY <1>2, OtherNames, NamesDiffer
<1>3. ASSUME NEW e \in All, NEW k \in Nat
      PROVE  /\ Manifest(k) \in DOMAIN e => e[Manifest(k)] # Dir[Table(n)]
             /\ Current \in DOMAIN e => e[Current] # Dir[Table(n)]
  BY <1>2, NamesDiffer
<1>4. \A e \in All : Current \in DOMAIN e => e[Current] # Dir[Table(n)]
  BY <1>3
<1>5. FilesSound(All, content', flushed', synced', number)
  BY <1>1, <1>3, <1>4, FileChanges
<1>6. FilesOK'
  BY <1>5, SameDirs DEF FilesOK, FileStep
<1>7. Unaffected(Table(n))
  BY <1>1, <1>2 DEF Unaffected, Touched
<1> QED
  BY <1>6, <1>7

LEMMA ManifestWritten ==
  ASSUME FilesOK, NEW n \in Nat, Manifest(n) \in DOMAIN Dir, FileStep(Manifest(n)),
         NEW items, items = content'[Dir[Manifest(n)]], Edits(items, number),
         \A e \in All : ItemsBacked(items, e, synced),
         \A e \in All : /\ Manifest(n) \in DOMAIN e /\ e[Manifest(n)] = Dir[Manifest(n)]
                        /\ CurrentNames(e, n, content) /\ n # 1
                        => NamedSound(e, n, content', synced')
  PROVE  FilesOK' /\ Unaffected(Manifest(n))
<1>1. /\ Dir \in All /\ Dir[Manifest(n)] \in 1 .. Len(content)
      /\ FilesSound(All, content, flushed, synced, number)
      /\ Touched(Dir[Manifest(n)], content, flushed, synced, content', flushed', synced')
  BY Latest DEF FilesOK, FileStep
<1>2. ASSUME NEW e \in All, NEW y \in DOMAIN e, y # Manifest(n)
      PROVE  e[y] # Dir[Manifest(n)] /\ e[y] \in 1 .. Len(content)
  BY <1>2, OtherNames, NamesDiffer
<1>3. ASSUME NEW e \in All, NEW k \in Nat
      PROVE  /\ Manifest(k) \in DOMAIN e /\ k # n => e[Manifest(k)] # Dir[Manifest(n)]
             /\ Table(k) \in DOMAIN e => e[Table(k)] # Dir[Manifest(n)]
             /\ Current \in DOMAIN e => e[Current] # Dir[Manifest(n)]
  BY <1>2, NamesDiffer
<1>4. ASSUME NEW e \in All
      PROVE  ItemsBacked(items, e, synced')
  <2> SUFFICES ASSUME NEW i \in 1 .. Len(items), NEW t \in items[i][2], Table(t) \in DOMAIN e
               PROVE  synced'[e[Table(t)]] = 1
    BY DEF ItemsBacked, OnDisk
  <2>1. t \in Nat
    BY EditAdds
  <2>2. e[Table(t)] # Dir[Manifest(n)] /\ e[Table(t)] \in 1 .. Len(content)
    BY <1>2, <2>1, NamesDiffer
  <2>3. synced[e[Table(t)]] = 1
    BY DEF ItemsBacked, OnDisk
  <2> QED
    BY <1>1, <2>2, <2>3 DEF Touched
<1>5. \A e \in All : Current \in DOMAIN e => e[Current] # Dir[Manifest(n)]
  BY <1>3
<1>6. ASSUME NEW d \in All, NEW k \in Nat, Manifest(k) \in DOMAIN d, d[Manifest(k)] = Dir[Manifest(n)]
      PROVE  /\ Edits(content'[Dir[Manifest(n)]], number)
             /\ \A e \in All : ItemsBacked(content'[Dir[Manifest(n)]], e, synced')
             /\ CurrentNames(d, k, content) /\ k # 1 => NamedSound(d, k, content', synced')
  <2>1. k = n
    BY <1>3, <1>6
  <2> QED
    BY <1>4, <1>6, <2>1
<1>7. FilesSound(All, content', flushed', synced', number)
  BY <1>1, <1>3, <1>5, <1>6, FileChanges
<1>8. FilesOK'
  BY <1>7, SameDirs DEF FilesOK, FileStep
<1>9. Unaffected(Manifest(n))
  BY <1>1, <1>2 DEF Unaffected, Touched
<1> QED
  BY <1>8, <1>9

\* What a step that changes another file leaves alone.
LEMMA Preserved ==
  ASSUME NEW x, x # Current, Unaffected(x), NEW e \in All, NEW n \in Nat
  PROVE  /\ CurrentNames(e, n, content') <=> CurrentNames(e, n, content)
         /\ Table(n) # x /\ OnDisk(n, e, synced) => OnDisk(n, e, synced')
         /\ Manifest(n) # x /\ Manifest(n) \in DOMAIN e =>
              /\ content'[e[Manifest(n)]] = content[e[Manifest(n)]]
              /\ synced'[e[Manifest(n)]] = synced[e[Manifest(n)]]
<1>1. \A k \in Nat : Temp(k) # Current /\ Temp(k) # Table(n) /\ Temp(k) # Manifest(n)
  BY NamesDiffer
<1> QED
  BY <1>1 DEF Unaffected, CurrentNames, OnDisk

\* Creating a file.
Fresh(x) ==
    /\ \A n \in Nat : x = Table(n) =>
         /\ n < number
         /\ \A e \in All, m \in Nat : Manifest(m) \in DOMAIN e => Edits(content[e[Manifest(m)]], n)
    /\ \A n \in Nat : x = Manifest(n) => n < number /\ (n = 1 \/ ~CurrentNames(Dir, n, content))

LEMMA Created ==
  ASSUME FilesOK, number' = number, NEW x \in Names, x # Current, Fresh(x),
         Effect(Call("create", x))
  PROVE  /\ FilesOK' /\ All' = All \cup {Dir'} /\ DOMAIN Dir' = DOMAIN Dir \cup {x}
         /\ Dir'[x] = Len(content) + 1
         /\ \A y \in DOMAIN Dir : y # x => Dir'[y] = Dir[y]
         /\ content'[Len(content) + 1] = << >>
         /\ \A e \in All : \A y \in DOMAIN e :
              /\ content'[e[y]] = content[e[y]] /\ synced'[e[y]] = synced[e[y]]
              /\ e[y] # Len(content) + 1
         /\ version' = version /\ manifest' = manifest
<1>1. /\ dirs' = Append(dirs, With(Dir, x, Len(content) + 1))
      /\ content' = Append(content, << >>)
      /\ flushed' = Append(flushed, 0) /\ synced' = Append(synced, 0)
      /\ version' = version /\ manifest' = manifest
  BY CreateEffect
<1>2. PICK d, e, i : d = Dir /\ i = Len(content) + 1 /\ e = With(d, x, i)
  OBVIOUS
<1>3. d \in All /\ d \in Directories /\ i \in Nat
  BY <1>2, Latest
<1>4. e \in Directories /\ DOMAIN e = DOMAIN d \cup {x}
  BY ONLY <1>2, <1>3, x \in Names, WithName, Zenon
<1>5. e[x] = i /\ \A y \in DOMAIN d : y # x => e[y] = d[y]
  BY ONLY <1>2 DEF With
<1>6. dirs' \in Seq(Directories) /\ Len(dirs') >= 1 /\ All' = All \cup {e} /\ Dir' = e
  BY <1>1, <1>2, <1>4, DirsGrow
<1>7. FilesSound(All \cup {e}, content', flushed', synced', number)
  <2>1. FilesSound(All, content, flushed, synced, number)
    BY DEF FilesOK
  <2>2. FilesSound(All \cup {With(d, x, Len(content) + 1)},
                   Append(content, << >>), Append(flushed, 0), Append(synced, 0), number)
    BY <1>2, <1>3, <2>1, FileCreated DEF Fresh
  <2> QED
    BY <1>1, <1>2, <2>2
<1>8. FilesOK'
  BY <1>6, <1>7 DEF FilesOK
<1>9. FileTypes(content, flushed, synced, number)
  BY DEF FilesOK, FilesSound
<1>10. /\ content'[Len(content) + 1] = << >>
       /\ \A j \in 1 .. Len(content) : content'[j] = content[j] /\ synced'[j] = synced[j]
  BY <1>1, <1>9 DEF FileTypes
<1>11. ASSUME NEW g \in All, NEW y \in DOMAIN g
       PROVE  g[y] \in 1 .. Len(content) /\ g[y] # Len(content) + 1
  BY <1>3, <1>2 DEF FilesOK, FilesSound, DirSound, DirTypes, FileTypes
<1>12. \A g \in All : \A y \in DOMAIN g :
         /\ content'[g[y]] = content[g[y]] /\ synced'[g[y]] = synced[g[y]]
         /\ g[y] # Len(content) + 1
  BY <1>10, <1>11
<1>13. Dir'[x] = Len(content) + 1 /\ \A y \in DOMAIN Dir : y # x => Dir'[y] = Dir[y]
  BY <1>2, <1>5, <1>6
<1> QED
  BY <1>1, <1>2, <1>4, <1>6, <1>8, <1>10, <1>12, <1>13


\* A call that concerns the file x leaves the rest of the latest directory as it
\* is, does not change what CURRENT names, and unwrites no table.
Kept(x) ==
    /\ version' = version /\ manifest' = manifest
    /\ Current \in DOMAIN Dir' <=> Current \in DOMAIN Dir
    /\ \A m \in Nat :
         /\ CurrentNames(Dir', m, content') <=> CurrentNames(Dir, m, content)
         /\ (\A e \in All : ~CurrentNames(e, m, content)) =>
                (\A e \in All' : ~CurrentNames(e, m, content'))
         /\ Table(m) \in DOMAIN Dir => Table(m) \in DOMAIN Dir'
         /\ Table(m) # x /\ (\A e \in All : OnDisk(m, e, synced)) =>
                (\A e \in All' : OnDisk(m, e, synced'))
         /\ Manifest(m) # x /\ Manifest(m) \in DOMAIN Dir =>
              /\ Manifest(m) \in DOMAIN Dir'
              /\ content'[Dir'[Manifest(m)]] = content[Dir[Manifest(m)]]
              /\ synced'[Dir'[Manifest(m)]] = synced[Dir[Manifest(m)]]

LEMMA FileStepKeeps ==
  ASSUME FilesOK, NEW x, x # Current, FileStep(x), Unaffected(x),
         version' = version, manifest' = manifest
  PROVE  Kept(x)
<1>1. All' = All /\ Dir' = Dir /\ Dir \in All
  BY SameDirs, Latest DEF FileStep
<1>2. ASSUME NEW m \in Nat
      PROVE  /\ CurrentNames(Dir', m, content') <=> CurrentNames(Dir, m, content)
             /\ (\A e \in All : ~CurrentNames(e, m, content)) =>
                    (\A e \in All' : ~CurrentNames(e, m, content'))
             /\ Table(m) # x /\ (\A e \in All : OnDisk(m, e, synced)) =>
                    (\A e \in All' : OnDisk(m, e, synced'))
             /\ Manifest(m) # x /\ Manifest(m) \in DOMAIN Dir =>
                  /\ content'[Dir'[Manifest(m)]] = content[Dir[Manifest(m)]]
                  /\ synced'[Dir'[Manifest(m)]] = synced[Dir[Manifest(m)]]
  BY <1>1, Preserved
<1> QED
  BY <1>1, <1>2 DEF Kept

LEMMA CreateKeeps ==
  ASSUME FilesOK, number' = number, NEW x \in Names, x # Current, Fresh(x),
         Effect(Call("create", x))
  PROVE  Kept(x)
<1>1. PICK i : i = Len(content) + 1
  OBVIOUS
<1>2. /\ All' = All \cup {Dir'} /\ DOMAIN Dir' = DOMAIN Dir \cup {x}
      /\ Dir'[x] = i
      /\ \A y \in DOMAIN Dir : y # x => Dir'[y] = Dir[y]
      /\ \A e \in All : \A y \in DOMAIN e :
           content'[e[y]] = content[e[y]] /\ synced'[e[y]] = synced[e[y]] /\ e[y] # i
      /\ version' = version /\ manifest' = manifest
  BY <1>1, Created
<1>3. Dir \in All
  BY Latest
<1>4. ASSUME NEW m \in Nat, NEW e \in All
      PROVE  /\ CurrentNames(e, m, content') <=> CurrentNames(e, m, content)
             /\ OnDisk(m, e, synced') <=> OnDisk(m, e, synced)
  BY <1>2 DEF CurrentNames, OnDisk
<1>5. ASSUME NEW m \in Nat
      PROVE  /\ CurrentNames(Dir', m, content') <=> CurrentNames(Dir, m, content)
             /\ Table(m) # x => (OnDisk(m, Dir', synced') <=> OnDisk(m, Dir, synced))
  BY <1>2, <1>3 DEF CurrentNames, OnDisk
<1>6. ASSUME NEW m \in Nat
      PROVE  /\ CurrentNames(Dir', m, content') <=> CurrentNames(Dir, m, content)
             /\ (\A e \in All : ~CurrentNames(e, m, content)) =>
                    (\A e \in All' : ~CurrentNames(e, m, content'))
             /\ Table(m) \in DOMAIN Dir => Table(m) \in DOMAIN Dir'
             /\ Table(m) # x /\ (\A e \in All : OnDisk(m, e, synced)) =>
                    (\A e \in All' : OnDisk(m, e, synced'))
             /\ Manifest(m) # x /\ Manifest(m) \in DOMAIN Dir =>
                  /\ Manifest(m) \in DOMAIN Dir'
                  /\ content'[Dir'[Manifest(m)]] = content[Dir[Manifest(m)]]
                  /\ synced'[Dir'[Manifest(m)]] = synced[Dir[Manifest(m)]]
  BY <1>2, <1>3, <1>4, <1>5
<1> QED
  BY <1>2, <1>6 DEF Kept

\* The directories that may survive become fewer, or nothing but the buffers changes.
LEMMA OthersKeep ==
  ASSUME FilesOK, NEW x, content' = content, synced' = synced, Dir' = Dir,
         All' \subseteq All, version' = version, manifest' = manifest
  PROVE  Kept(x)
  BY Latest DEF Kept

LEMMA FlushCall ==
  ASSUME FilesOK, number' = number, NEW x \in DOMAIN Dir, NEW op \in {"flush", "close"},
         Effect(Call(op, x))
  PROVE  /\ FilesOK' /\ Kept(x) /\ All' = All /\ Dir' = Dir
         /\ content' = content /\ synced' = synced
<1>1. /\ flushed' = [flushed EXCEPT ![Dir[x]] = Len(content[Dir[x]])]
      /\ dirs' = dirs /\ content' = content /\ synced' = synced
      /\ version' = version /\ manifest' = manifest
  BY FlushEffect
<1>2. Dir[x] \in 1 .. Len(content)
  BY Latest
<1>3. FilesOK' /\ All' = All /\ Dir' = Dir
  BY <1>1, <1>2, Flushed
<1> QED
  BY <1>1, <1>3, OthersKeep

LEMMA SyncDirCall ==
  ASSUME FilesOK, number' = number, NEW x, Effect(Call("syncdir", x))
  PROVE  /\ FilesOK' /\ Kept(x) /\ All' = {Dir'} /\ Dir' = Dir
         /\ content' = content /\ synced' = synced
<1>1. /\ dirs' = << Dir >>
      /\ content' = content /\ flushed' = flushed /\ synced' = synced
      /\ version' = version /\ manifest' = manifest
  BY SyncDirEffect
<1>2. Dir \in All /\ Dir \in Directories
  BY Latest
<1>3. dirs' \in Seq(Directories) /\ Len(dirs') >= 1 /\ All' = {Dir} /\ Dir' = Dir
  BY <1>1, <1>2, DirsShrink
<1>4. FilesSound(All, content, flushed, synced, number) /\ {Dir} \in SUBSET All
  BY <1>2 DEF FilesOK
<1>5. FilesSound({Dir}, content, flushed, synced, number)
  BY <1>4, FewerDirs
<1>6. FilesOK'
  BY <1>1, <1>3, <1>5 DEF FilesOK
<1> QED
  BY <1>1, <1>2, <1>3, <1>6, OthersKeep

\* Appending to and syncing a file.
LEMMA AppendStep ==
  ASSUME FilesOK, number' = number, NEW x \in DOMAIN Dir, NEW item \in Items,
         Effect(AppendCall(x, item))
  PROVE  /\ FileStep(x) /\ All' = All /\ Dir' = Dir /\ synced' = synced
         /\ content'[Dir[x]] = Append(content[Dir[x]], item)
         /\ version' = version /\ manifest' = manifest
<1>1. /\ content' = [content EXCEPT ![Dir[x]] = Append(@, item)]
      /\ dirs' = dirs /\ flushed' = flushed /\ synced' = synced
      /\ version' = version /\ manifest' = manifest
  BY AppendEffect
<1>2. Dir[x] \in 1 .. Len(content)
  BY Latest
<1>3. /\ Touched(Dir[x], content, flushed, synced, content', flushed', synced')
      /\ content'[Dir[x]] = Append(content[Dir[x]], item)
  BY <1>1, <1>2, Appended
<1> QED
  BY <1>1, <1>3, SameDirs DEF FileStep

LEMMA SyncStep ==
  ASSUME FilesOK, number' = number, NEW x \in DOMAIN Dir, Effect(Call("syncdata", x))
  PROVE  /\ FileStep(x) /\ All' = All /\ Dir' = Dir /\ content' = content
         /\ synced'[Dir[x]] = Len(content[Dir[x]])
         /\ version' = version /\ manifest' = manifest
<1>1. /\ flushed' = [flushed EXCEPT ![Dir[x]] = Len(content[Dir[x]])]
      /\ synced' = [synced EXCEPT ![Dir[x]] = Len(content[Dir[x]])]
      /\ dirs' = dirs /\ content' = content
      /\ version' = version /\ manifest' = manifest
  BY SyncDataEffect
<1>2. Dir[x] \in 1 .. Len(content)
  BY Latest
<1>3. /\ Touched(Dir[x], content, flushed, synced, content', flushed', synced')
      /\ synced'[Dir[x]] = Len(content[Dir[x]])
  BY <1>1, <1>2, Synced
<1> QED
  BY <1>1, <1>3, SameDirs DEF FileStep

\* The calls of SetCurrentFile before the last.
SetCurrentCall(j, n) ==
    \/ j = 1 /\ Effect(Call("create", Temp(n)))
    \/ j = 2 /\ Effect(AppendCall(Temp(n), << "current", n >>))
    \/ j = 3 /\ Effect(Call("syncdata", Temp(n)))
    \/ j = 4 /\ Effect(Call("close", Temp(n)))

LEMMA SettingKeeps ==
  ASSUME FilesOK, number' = number, NEW n \in Nat, NEW j \in 1 .. 4, SetCurrentCall(j, n),
         SettingCurrent(j, n, All, Dir, content, synced)
  PROVE  /\ FilesOK' /\ Kept(Temp(n))
         /\ SettingCurrent(j + 1, n, All, Dir, content, synced)'
<1> DEFINE x == Temp(n)
<1>1. x \in Names /\ x # Current
  BY NamesDiffer
<1>2. CASE j = 1
  <2>1. Effect(Call("create", x)) /\ Fresh(x)
    BY <1>2, NamesDiffer DEF SetCurrentCall, Fresh
  <2>2. /\ FilesOK' /\ All' = All \cup {Dir'} /\ DOMAIN Dir' = DOMAIN Dir \cup {x}
        /\ Dir'[x] = Len(content) + 1
        /\ \A y \in DOMAIN Dir : y # x => Dir'[y] = Dir[y]
        /\ content'[Len(content) + 1] = << >>
        /\ \A e \in All : \A y \in DOMAIN e : e[y] # Len(content) + 1
    BY <1>1, <2>1, Created
  <2>3. Kept(x)
    BY <1>1, <2>1, CreateKeeps
  <2>4. Dir \in All
    BY Latest
  <2>5. \A e \in All' : Current \in DOMAIN e => e[Current] # Dir'[x]
    BY <1>1, <2>2, <2>4
  <2>6. SettingCurrent(2, n, All', Dir', content', synced')
    BY <2>2, <2>5 DEF SettingCurrent
  <2> QED
    BY <1>2, <2>2, <2>3, <2>6
<1>3. CASE j = 2
  <2>1. /\ Effect(AppendCall(x, << "current", n >>)) /\ << "current", n >> \in Items
        /\ x \in DOMAIN Dir /\ content[Dir[x]] = << >>
        /\ \A e \in All : Current \in DOMAIN e => e[Current] # Dir[x]
    BY <1>3 DEF SetCurrentCall, SettingCurrent, Items
  <2>2. /\ FileStep(x) /\ All' = All /\ Dir' = Dir /\ synced' = synced
        /\ content'[Dir[x]] = Append(content[Dir[x]], << "current", n >>)
        /\ version' = version /\ manifest' = manifest
    BY <2>1, AppendStep
  <2>3. FilesOK' /\ Unaffected(x)
    BY <2>1, <2>2, TempWritten
  <2>4. Kept(x)
    BY <1>1, <2>2, <2>3, FileStepKeeps
  <2>5. content'[Dir'[x]] = << << "current", n >> >>
    BY <2>1, <2>2
  <2>6. SettingCurrent(3, n, All', Dir', content', synced')
    BY <2>1, <2>2, <2>5 DEF SettingCurrent
  <2> QED
    BY <1>3, <2>3, <2>4, <2>6
<1>4. CASE j = 3
  <2>1. /\ Effect(Call("syncdata", x))
        /\ x \in DOMAIN Dir /\ content[Dir[x]] = << << "current", n >> >>
        /\ \A e \in All : Current \in DOMAIN e => e[Current] # Dir[x]
    BY <1>4 DEF SetCurrentCall, SettingCurrent
  <2>2. /\ FileStep(x) /\ All' = All /\ Dir' = Dir /\ content' = content
        /\ synced'[Dir[x]] = Len(content[Dir[x]])
        /\ version' = version /\ manifest' = manifest
    BY <2>1, SyncStep
  <2>3. FilesOK' /\ Unaffected(x)
    BY <2>1, <2>2, TempWritten
  <2>4. Kept(x)
    BY <1>1, <2>2, <2>3, FileStepKeeps
  <2>5. synced'[Dir'[x]] = 1
    BY <2>1, <2>2
  <2>6. SettingCurrent(4, n, All', Dir', content', synced')
    BY <2>1, <2>2, <2>5 DEF SettingCurrent
  <2> QED
    BY <1>4, <2>3, <2>4, <2>6
<1>5. CASE j = 4
  <2>1. Effect(Call("close", x)) /\ x \in DOMAIN Dir
    BY <1>5 DEF SetCurrentCall, SettingCurrent
  <2>2. /\ FilesOK' /\ Kept(x) /\ All' = All /\ Dir' = Dir
        /\ content' = content /\ synced' = synced
    BY <2>1, FlushCall
  <2>3. SettingCurrent(5, n, All, Dir, content, synced)
    BY <1>5 DEF SettingCurrent
  <2> QED
    BY <1>5, <2>2, <2>3
<1> QED
  BY <1>2, <1>3, <1>4, <1>5

-----------------------------------------------------------------------------
(* What the calls do to a descriptor. *)

\* The descriptor that CURRENT names.
LEMMA Named ==
  ASSUME FilesOK, NEW e \in All, NEW n \in Nat, CurrentNames(e, n, content)
  PROVE  /\ n >= 1 /\ n < number /\ synced[e[Current]] = 1
         /\ n # 1 => NamedSound(e, n, content, synced)
<1>1. CurrentSound(e, content, synced, number) /\ number \in Nat
  BY DEF FilesOK, FilesSound, DirSound, FileTypes
<1>2. Current \in DOMAIN e /\ content[e[Current]] = << << "current", n >> >>
  BY DEF CurrentNames
<1>3. PICK m \in 1 .. number - 1 : /\ content[e[Current]] = << << "current", m >> >>
                                   /\ m # 1 => NamedSound(e, m, content, synced)
  BY <1>1, <1>2 DEF CurrentSound
<1>4. m = n
  BY ONLY <1>2, <1>3
<1> QED
  BY <1>1, <1>2, <1>3, <1>4 DEF CurrentSound

\* The items of a descriptor in the latest directory.
LEMMA Descriptor ==
  ASSUME FilesOK, NEW n \in Nat, Manifest(n) \in DOMAIN Dir, NEW q, q = content[Dir[Manifest(n)]]
  PROVE  /\ q \in Seq(Items) /\ Len(q) \in Nat /\ Edits(q, number) /\ n < number
         /\ synced[Dir[Manifest(n)]] \in 0 .. Len(q)
         /\ \A e \in All : ItemsBacked(q, e, synced)
<1>1. /\ Dir \in All /\ Dir[Manifest(n)] \in 1 .. Len(content)
      /\ DirSound(Dir, content, synced, number)
  BY Latest
<1>2. FilesSound(All, content, flushed, synced, number)
  BY DEF FilesOK
<1>3. q \in Seq(Items) /\ Len(q) \in Nat /\ synced[Dir[Manifest(n)]] \in 0 .. Len(q)
  BY <1>1, <1>2, OneFile
<1>4. Edits(q, number) /\ n < number
  BY <1>1 DEF DirSound, DirTypes
<1>5. \A e \in All : ItemsBacked(q, e, synced)
  BY <1>1, <1>2 DEF FilesSound, Backed
<1> QED
  BY <1>3, <1>4, <1>5

\* A descriptor with one edit more.
LEMMA OneEditMore ==
  ASSUME NEW q \in Seq(Items), NEW num, Edits(q, num), NEW a \in SUBSET Nat, NEW b \in SUBSET Nat,
         \A t \in a : t < num, NEW r, r = Append(q, EditItem(a, b))
  PROVE  /\ EditItem(a, b) \in Items /\ Edits(r, num)
         /\ \A e, s : ItemsBacked(q, e, s) /\ (\A t \in a : OnDisk(t, e, s)) => ItemsBacked(r, e, s)
<1>1. EditItem(a, b) \in Items /\ EditItem(a, b)[2] = a
  BY DEF EditItem, Items
<1>2. PICK x : x = EditItem(a, b)
  OBVIOUS
<1>3. /\ Len(q) \in Nat /\ Len(r) = Len(q) + 1 /\ r[Len(q) + 1] = x
      /\ \A i \in 1 .. Len(q) : r[i] = q[i]
  BY ONLY <1>1, <1>2, q \in Seq(Items), r = Append(q, EditItem(a, b))
<1>4. \A i \in 1 .. Len(r) : i = Len(q) + 1 \/ i \in 1 .. Len(q)
  BY ONLY <1>3
<1>5. Edits(r, num)
  <2> SUFFICES ASSUME NEW i \in 1 .. Len(r)
               PROVE  \E a1 \in SUBSET Nat, b1 \in SUBSET Nat :
                        r[i] = EditItem(a1, b1) /\ \A n \in a1 : n < num
    BY DEF Edits
  <2>1. CASE i = Len(q) + 1
    BY <1>2, <1>3, <2>1
  <2>2. CASE i \in 1 .. Len(q)
    BY <1>3, <2>2 DEF Edits
  <2> QED
    BY <1>4, <2>1, <2>2
<1>6. ASSUME NEW e, NEW s, ItemsBacked(q, e, s), \A t \in a : OnDisk(t, e, s)
      PROVE  ItemsBacked(r, e, s)
  <2> SUFFICES ASSUME NEW i \in 1 .. Len(r), NEW t \in r[i][2]
               PROVE  OnDisk(t, e, s)
    BY DEF ItemsBacked
  <2>1. CASE i = Len(q) + 1
    BY <1>1, <1>2, <1>3, <1>6, <2>1
  <2>2. CASE i \in 1 .. Len(q)
    BY <1>3, <1>6, <2>2 DEF ItemsBacked
  <2> QED
    BY <1>4, <2>1, <2>2
<1> QED
  BY <1>1, <1>5, <1>6

\* What was synced does not change when something is appended.
LEMMA SamePrefix ==
  ASSUME NEW X, NEW q \in Seq(X), NEW x \in X, NEW k \in 0 .. Len(q)
  PROVE  SubSeq(Append(q, x), 1, k) = SubSeq(q, 1, k)
<1>1. PICK r : r = Append(q, x)
  OBVIOUS
<1>2. /\ Len(q) \in Nat /\ r \in Seq(X) /\ Len(r) = Len(q) + 1
      /\ \A i \in 1 .. Len(q) : r[i] = q[i]
  BY <1>1
<1>3. k \in 0 .. Len(r)
  BY <1>2
<1>4. PICK p1, p2 : p1 = SubSeq(r, 1, k) /\ p2 = SubSeq(q, 1, k)
  OBVIOUS
<1>5. p1 \in Seq(X) /\ Len(p1) = k /\ \A i \in 1 .. k : p1[i] = r[i]
  BY <1>2, <1>3, <1>4, Prefix
<1>6. p2 \in Seq(X) /\ Len(p2) = k /\ \A i \in 1 .. k : p2[i] = q[i]
  BY <1>4, Prefix
<1>7. \A i \in 1 .. k : p1[i] = p2[i]
  BY <1>2, <1>5, <1>6
<1>8. p1 = p2
  BY ONLY <1>5, <1>6, <1>7, SeqEqual
<1> QED
  BY <1>1, <1>4, <1>8

\* AddRecord appends an edit whose tables are on the disk.
LEMMA EditAppended ==
  ASSUME FilesOK, number' = number, NEW n \in Nat, Manifest(n) \in DOMAIN Dir,
         NEW a \in SUBSET Nat, NEW b \in SUBSET Nat,
         \A t \in a : t < number /\ \A e \in All : OnDisk(t, e, synced),
         Effect(AppendCall(Manifest(n), EditItem(a, b)))
  PROVE  /\ FilesOK' /\ Kept(Manifest(n)) /\ All' = All /\ Dir' = Dir /\ synced' = synced
         /\ content'[Dir[Manifest(n)]] = Append(content[Dir[Manifest(n)]], EditItem(a, b))
<1>1. PICK x, q, r : /\ x = Manifest(n) /\ q = content[Dir[Manifest(n)]]
                     /\ r = Append(q, EditItem(a, b))
  OBVIOUS
<1>2. /\ q \in Seq(Items) /\ Edits(q, number) /\ synced[Dir[x]] \in 0 .. Len(q)
      /\ \A e \in All : ItemsBacked(q, e, synced)
  BY <1>1, Descriptor
<1>3. /\ EditItem(a, b) \in Items /\ Edits(r, number)
      /\ \A e \in All : ItemsBacked(r, e, synced)
  BY <1>1, <1>2, OneEditMore
<1>4. /\ FileStep(x) /\ All' = All /\ Dir' = Dir /\ synced' = synced
      /\ content'[Dir[x]] = Append(content[Dir[x]], EditItem(a, b))
      /\ version' = version /\ manifest' = manifest
  BY <1>1, <1>3, AppendStep
<1>5. content'[Dir[x]] = r
  BY <1>1, <1>4
<1>6. ASSUME NEW e \in All, x \in DOMAIN e, e[x] = Dir[x], CurrentNames(e, n, content), n # 1
      PROVE  NamedSound(e, n, content', synced')
  <2>1. NamedSound(e, n, content, synced)
    BY <1>6, Named
  <2>2. SubSeq(r, 1, synced[Dir[x]]) = SubSeq(q, 1, synced[Dir[x]])
    BY <1>1, <1>2, <1>3, SamePrefix
  <2> QED
    BY <1>1, <1>4, <1>5, <1>6, <2>1, <2>2 DEF NamedSound
<1>7. FilesOK' /\ Unaffected(x)
  BY <1>1, <1>3, <1>4, <1>5, <1>6, ManifestWritten
<1>8. x # Current
  BY <1>1, NamesDiffer
<1>9. Kept(x)
  BY <1>4, <1>7, <1>8, FileStepKeeps
<1> QED
  BY <1>1, <1>4, <1>7, <1>9

\* The descriptor is synced: where CURRENT names it the tables of all its edits
\* are there.
LEMMA DescriptorSynced ==
  ASSUME FilesOK, number' = number, NEW n \in Nat, Manifest(n) \in DOMAIN Dir,
         Len(content[Dir[Manifest(n)]]) > 0,
         \A e \in All : CurrentNames(e, n, content) =>
             \A t \in Tables(content[Dir[Manifest(n)]]) : Table(t) \in DOMAIN e,
         Effect(Call("syncdata", Manifest(n)))
  PROVE  /\ FilesOK' /\ Kept(Manifest(n)) /\ All' = All /\ Dir' = Dir /\ content' = content
         /\ synced'[Dir[Manifest(n)]] = Len(content[Dir[Manifest(n)]])
<1>1. PICK x, q : x = Manifest(n) /\ q = content[Dir[Manifest(n)]]
  OBVIOUS
<1>2. /\ q \in Seq(Items) /\ Len(q) \in Nat /\ Edits(q, number)
      /\ \A e \in All : ItemsBacked(q, e, synced)
  BY <1>1, Descriptor
<1>3. /\ FileStep(x) /\ All' = All /\ Dir' = Dir /\ content' = content
      /\ synced'[Dir[x]] = Len(content[Dir[x]])
      /\ version' = version /\ manifest' = manifest
  BY <1>1, SyncStep
<1>4. SubSeq(q, 1, Len(q)) = q
  BY <1>2, SubSeqFull
<1>5. ASSUME NEW e \in All, x \in DOMAIN e, e[x] = Dir[x], CurrentNames(e, n, content), n # 1
      PROVE  NamedSound(e, n, content', synced')
  BY <1>1, <1>3, <1>4, <1>5 DEF NamedSound
<1>6. FilesOK' /\ Unaffected(x)
  BY <1>1, <1>2, <1>3, <1>5, ManifestWritten
<1>7. x # Current
  BY <1>1, NamesDiffer
<1>8. Kept(x)
  BY <1>3, <1>6, <1>7, FileStepKeeps
<1> QED
  BY <1>1, <1>3, <1>6, <1>8

\* The last call of SetCurrentFile.
LEMMA CurrentRenamed ==
  ASSUME FilesOK, number' = number, NEW n \in 1 .. number - 1,
         SettingCurrent(5, n, All, Dir, content, synced),
         n # 1 => NamedSound(Dir, n, content, synced),
         Effect(RenameCall(Temp(n), Current))
  PROVE  /\ FilesOK' /\ All' = All \cup {Dir'} /\ CurrentNames(Dir', n, content')
         /\ content' = content /\ synced' = synced
         /\ version' = version /\ manifest' = manifest
         /\ \A x \in DOMAIN Dir : x # Temp(n) /\ x # Current => x \in DOMAIN Dir' /\ Dir'[x] = Dir[x]
<1>1. /\ dirs' = Append(dirs, With(Without(Dir, Temp(n)), Current, Dir[Temp(n)]))
      /\ content' = content /\ flushed' = flushed /\ synced' = synced
      /\ version' = version /\ manifest' = manifest
  BY RenameEffect
<1>2. PICK d, e : d = Dir /\ e = With(Without(d, Temp(n)), Current, d[Temp(n)])
  OBVIOUS
<1>3. d \in All /\ Temp(n) \in DOMAIN d /\ FilesSound(All, content, flushed, synced, number)
  BY <1>2, Latest DEF FilesOK, SettingCurrent
<1>4. content[d[Temp(n)]] = << << "current", n >> >> /\ synced[d[Temp(n)]] = 1
  BY <1>2 DEF SettingCurrent
<1>5. FilesSound(All \cup {e}, content, flushed, synced, number) /\ e \in Directories
  <2>1. Replacing(n, d, content, synced, e)
    BY <1>2, <1>3, <1>4 DEF Replacing
  <2> QED
    BY <1>3, <2>1, TempRenamed
<1>6. /\ Current \in DOMAIN e /\ e[Current] = d[Temp(n)]
      /\ \A x \in DOMAIN d : x # Temp(n) /\ x # Current => x \in DOMAIN e /\ e[x] = d[x]
  BY ONLY <1>2 DEF With, Without
<1>7. dirs' \in Seq(Directories) /\ Len(dirs') >= 1 /\ All' = All \cup {e} /\ Dir' = e
  BY <1>1, <1>2, <1>5, DirsGrow
<1>8. FilesOK'
  BY <1>1, <1>5, <1>7 DEF FilesOK
<1>9. CurrentNames(Dir', n, content')
  BY <1>1, <1>4, <1>6, <1>7 DEF CurrentNames
<1> QED
  BY <1>1, <1>2, <1>6, <1>7, <1>8, <1>9

-----------------------------------------------------------------------------
(* The jobs, call by call. *)

\* The calls of NewDB before the last.
CreatingCall(k) ==
    \/ k = 1 /\ Effect(Call("create", Manifest(1)))
    \/ k = 2 /\ Effect(AppendCall(Manifest(1), EditItem({}, {})))
    \/ k = 3 /\ Effect(Call("flush", Manifest(1)))
    \/ k = 4 /\ Effect(Call("close", Manifest(1)))
    \/ k \in 5 .. 8 /\ SetCurrentCall(k - 4, 1)

LEMMA CreatingKeeps ==
  ASSUME FilesOK, number' = number, NEW k \in 1 .. 8, CreatingCall(k),
         Creating(k, All, Dir, content, synced)
  PROVE  /\ FilesOK' /\ version' = version /\ manifest' = manifest
         /\ Creating(k + 1, All, Dir, content, synced)'
<1> DEFINE x == Manifest(1)
<1>1. x \in Names /\ x # Current /\ Current \notin DOMAIN Dir
  BY NamesDiffer DEF Creating
<1>2. CASE k = 1
  <2>1. number \in Nat /\ 1 < number
    BY Latest
  <2>2. Effect(Call("create", x)) /\ Fresh(x)
    BY <1>2, <2>1, NamesDiffer DEF CreatingCall, Fresh
  <2>3. FilesOK' /\ DOMAIN Dir' = DOMAIN Dir \cup {x}
    BY <1>1, <2>2, Created
  <2>4. Kept(x)
    BY <1>1, <2>2, CreateKeeps
  <2>5. Creating(2, All', Dir', content', synced')
    BY <1>1, <2>3, <2>4 DEF Creating
  <2> QED
    BY <1>2, <2>3, <2>4, <2>5 DEF Kept
<1>3. CASE k = 2
  <2>1. Effect(AppendCall(x, EditItem({}, {}))) /\ x \in DOMAIN Dir
    BY <1>3 DEF CreatingCall, Creating
  <2>2. FilesOK' /\ Kept(x) /\ Dir' = Dir
    BY <2>1, EditAppended
  <2>3. Creating(3, All', Dir', content', synced')
    BY <1>1, <2>1, <2>2 DEF Creating
  <2> QED
    BY <1>3, <2>2, <2>3 DEF Kept
<1>4. CASE k \in {3, 4}
  <2>1. (Effect(Call("flush", x)) \/ Effect(Call("close", x))) /\ x \in DOMAIN Dir
    BY <1>4 DEF CreatingCall, Creating
  <2>2. FilesOK' /\ Kept(x) /\ Dir' = Dir
    BY <2>1, FlushCall
  <2>3. Creating(k + 1, All', Dir', content', synced')
    BY <1>1, <1>4, <2>1, <2>2 DEF Creating, SettingCurrent
  <2> QED
    BY <2>2, <2>3 DEF Kept
<1>5. CASE k \in 5 .. 8
  <2>1. PICK j \in 1 .. 4 : k = j + 4
    BY <1>5
  <2>2. SetCurrentCall(j, 1) /\ SettingCurrent(j, 1, All, Dir, content, synced)
    BY <1>5, <2>1 DEF CreatingCall, Creating
  <2>3. /\ FilesOK' /\ Kept(Temp(1))
        /\ SettingCurrent(j + 1, 1, All', Dir', content', synced')
    BY <2>2, SettingKeeps
  <2>4. Current \notin DOMAIN Dir'
    BY <1>1, <2>3 DEF Kept
  <2>5. Creating(k + 1, All', Dir', content', synced')
    BY <2>1, <2>3, <2>4 DEF Creating
  <2> QED
    BY <2>3, <2>5 DEF Kept
<1> QED
  BY <1>2, <1>3, <1>4, <1>5

\* The descriptor of an opening: a snapshot with the tables, and an empty edit.
LEMMA Snapshot ==
  ASSUME NEW T \in SUBSET Nat, NEW q, q = << EditItem(T, {}), EditItem({}, {}) >>
  PROVE  /\ q \in Seq(Items) /\ Len(q) = 2 /\ Tables(q) = T
         /\ << >> \in Seq(Items) /\ << EditItem(T, {}) >> \in Seq(Items)
         /\ << EditItem(T, {}) >> = Append(<< >>, EditItem(T, {}))
         /\ q = Append(<< EditItem(T, {}) >>, EditItem({}, {}))
<1>1. PICK x, y : x = EditItem(T, {}) /\ y = EditItem({}, {})
  OBVIOUS
<1>2. x \in Items /\ y \in Items
  BY <1>1 DEF Items
<1>3. /\ << >> \in Seq(Items) /\ << x >> \in Seq(Items) /\ << x, y >> \in Seq(Items)
      /\ << x >> = Append(<< >>, x) /\ << x, y >> = Append(<< x >>, y) /\ Len(<< x, y >>) = 2
  BY ONLY <1>2
<1>4. PICK o, p : o = << >> /\ p = << x >>
  OBVIOUS
<1>5. o \in Seq(Items) /\ p \in Seq(Items) /\ p = Append(o, x) /\ q = Append(p, y)
  BY <1>1, <1>3, <1>4
<1>6. Tables(Append(o, EditItem(T, {}))) = (Tables(o) \ {}) \cup T
  BY ONLY <1>1, <1>2, <1>5, TablesAppend
<1>7. Tables(Append(p, EditItem({}, {}))) = Tables(p)
  <2>1. PICK z : z = {}
    OBVIOUS
  <2>2. EditItem(z, z) \in Items
    BY ONLY <1>1, <1>2, <2>1
  <2>3. p \in Seq(Items)
    BY <1>5
  <2>4. Tables(Append(p, EditItem(z, z))) = (Tables(p) \ z) \cup z
    BY ONLY <2>2, <2>3, TablesAppend
  <2> QED
    BY ONLY <2>1, <2>4
<1>8. Tables(o) = {}
  BY <1>4, TablesEmpty
<1>9. Tables(q) = T
  BY ONLY <1>1, <1>5, <1>6, <1>7, <1>8
<1> QED
  BY <1>1, <1>3, <1>9

\* Tables stay where they are and on the disk when another file changes.
TablesThere(T, D, d, s) == \A t \in T : Table(t) \in DOMAIN d /\ \A e \in D : OnDisk(t, e, s)

LEMMA TablesStay ==
  ASSUME NEW T \in SUBSET Nat, NEW x, \A t \in Nat : Table(t) # x, Kept(x),
         TablesThere(T, All, Dir, synced)
  PROVE  TablesThere(T, All', Dir', synced')
  BY DEF TablesThere, Kept

\* The calls of an opening before SetCurrentFile.
OpeningCall(k, n, T) ==
    \/ k = 1 /\ Effect(Call("create", Manifest(n)))
    \/ k = 2 /\ Effect(AppendCall(Manifest(n), EditItem(T, {})))
    \/ k \in {3, 5} /\ Effect(Call("flush", Manifest(n)))
    \/ k = 4 /\ Effect(AppendCall(Manifest(n), EditItem({}, {})))
    \/ k = 6 /\ Effect(Call("syncdir", Manifest(n)))
    \/ k = 7 /\ Effect(Call("syncdata", Manifest(n)))

LEMMA OpeningKeeps ==
  ASSUME FilesOK, number' = number, NEW n \in Nat, n < number, NEW T \in SUBSET Nat,
         \A t \in T : t < number, NEW k \in 1 .. 7, OpeningCall(k, n, T),
         Opening(k, n, T, All, Dir, content, synced)
  PROVE  /\ FilesOK' /\ version' = version /\ manifest' = manifest
         /\ Opening(k + 1, n, T, All, Dir, content, synced)'
<1> DEFINE x == Manifest(n)
<1>1. x \in Names /\ x # Current /\ \A t \in Nat : Table(t) # x
  BY NamesDiffer
<1>2. /\ TablesThere(T, All, Dir, synced)
      /\ \A e \in All : ~CurrentNames(e, n, content)
  BY DEF Opening, TablesThere
<1>3. ASSUME Kept(x)
      PROVE  /\ TablesThere(T, All', Dir', synced')
             /\ \A e \in All' : ~CurrentNames(e, n, content')
             /\ version' = version /\ manifest' = manifest
  BY <1>1, <1>2, <1>3, TablesStay DEF Kept
<1>4. PICK q : q = << EditItem(T, {}), EditItem({}, {}) >>
  OBVIOUS
<1>5. CASE k = 1
  <2>1. Dir \in All
    BY Latest
  <2>2. Effect(Call("create", x)) /\ Fresh(x)
    BY <1>2, <1>5, <2>1, NamesDiffer DEF OpeningCall, Fresh
  <2>3. /\ FilesOK' /\ DOMAIN Dir' = DOMAIN Dir \cup {x}
        /\ Dir'[x] = Len(content) + 1 /\ content'[Len(content) + 1] = << >>
    BY <1>1, <2>2, Created
  <2>4. Kept(x)
    BY <1>1, <2>2, CreateKeeps
  <2>5. x \in DOMAIN Dir' /\ content'[Dir'[x]] = << >>
    BY <2>3
  <2>6. Opening(2, n, T, All', Dir', content', synced')
    BY <1>3, <2>4, <2>5 DEF Opening, TablesThere
  <2> QED
    BY <1>3, <1>5, <2>3, <2>4, <2>6
<1>6. CASE k = 2
  <2>1. Effect(AppendCall(x, EditItem(T, {}))) /\ x \in DOMAIN Dir
    BY <1>6 DEF OpeningCall, Opening
  <2>2. \A t \in T : t < number /\ \A e \in All : OnDisk(t, e, synced)
    BY <1>2 DEF TablesThere
  <2>3. /\ FilesOK' /\ Kept(x) /\ Dir' = Dir
        /\ content'[Dir[x]] = Append(content[Dir[x]], EditItem(T, {}))
    BY <2>1, <2>2, EditAppended
  <2>4. content'[Dir'[x]] = << EditItem(T, {}) >>
    <3>1. content[Dir[x]] = << >>
      BY <1>6 DEF Opening
    <3> QED
      BY <1>4, <2>3, <3>1, Snapshot
  <2>5. Kept(x) /\ x \in DOMAIN Dir'
    BY <2>1, <2>3
  <2>6. Opening(3, n, T, All', Dir', content', synced')
    BY <1>3, <2>4, <2>5 DEF Opening, TablesThere
  <2> QED
    BY <1>3, <1>6, <2>3, <2>6
<1>7. CASE k = 4
  <2>1. Effect(AppendCall(x, EditItem({}, {}))) /\ x \in DOMAIN Dir
    BY <1>7 DEF OpeningCall, Opening
  <2>2. /\ FilesOK' /\ Kept(x) /\ Dir' = Dir
        /\ content'[Dir[x]] = Append(content[Dir[x]], EditItem({}, {}))
    BY <2>1, EditAppended
  <2>3. content'[Dir'[x]] = << EditItem(T, {}), EditItem({}, {}) >>
    <3>1. content[Dir[x]] = << EditItem(T, {}) >>
      BY <1>7 DEF Opening
    <3> QED
      BY <1>4, <2>2, <3>1, Snapshot
  <2>4. Kept(x) /\ x \in DOMAIN Dir'
    BY <2>1, <2>2
  <2>5. Opening(5, n, T, All', Dir', content', synced')
    BY <1>3, <2>3, <2>4 DEF Opening, TablesThere
  <2> QED
    BY <1>3, <1>7, <2>2, <2>5
<1>8. CASE k \in {3, 5, 6}
  <2>1. /\ Effect(Call("flush", x)) \/ Effect(Call("syncdir", x))
        /\ x \in DOMAIN Dir
    BY <1>8 DEF OpeningCall, Opening
  <2>2. /\ FilesOK' /\ Kept(x) /\ Dir' = Dir /\ content' = content /\ synced' = synced
    BY <2>1, FlushCall, SyncDirCall
  <2>3. content[Dir[x]] = IF k = 3 THEN << EditItem(T, {}) >>
                          ELSE << EditItem(T, {}), EditItem({}, {}) >>
    BY <1>8 DEF Opening
  <2>4. Opening(k + 1, n, T, All', Dir', content', synced')
    BY <1>3, <1>8, <2>1, <2>2, <2>3 DEF Opening, TablesThere
  <2> QED
    BY <1>3, <2>2, <2>4
<1>9. CASE k = 7
  <2>1. Effect(Call("syncdata", x)) /\ x \in DOMAIN Dir
    BY <1>9 DEF OpeningCall, Opening
  <2>a. content[Dir[x]] = << EditItem(T, {}), EditItem({}, {}) >>
    BY <1>9 DEF Opening
  <2>2. Len(content[Dir[x]]) = 2
    BY <1>4, <2>a, Snapshot
  <2>b. /\ Len(content[Dir[x]]) > 0
        /\ \A e \in All : CurrentNames(e, n, content) =>
             \A t \in Tables(content[Dir[x]]) : Table(t) \in DOMAIN e
    BY <1>2, <2>2
  <2>3. /\ FilesOK' /\ Kept(x) /\ Dir' = Dir /\ content' = content
        /\ synced'[Dir[x]] = Len(content[Dir[x]])
    BY <2>1, <2>b, DescriptorSynced
  <2>4. content'[Dir'[x]] = << EditItem(T, {}), EditItem({}, {}) >> /\ synced'[Dir'[x]] = 2
    BY <2>2, <2>3, <2>a
  <2>5. Opening(8, n, T, All', Dir', content', synced')
    BY <1>3, <2>1, <2>3, <2>4 DEF Opening, TablesThere, SettingCurrent
  <2> QED
    BY <1>3, <1>9, <2>3, <2>5
<1> QED
  BY <1>5, <1>6, <1>7, <1>8, <1>9

\* The opening while it sets CURRENT.
LEMMA OpeningSets ==
  ASSUME FilesOK, number' = number, NEW n \in Nat, NEW T \in SUBSET Nat,
         NEW j \in 1 .. 4, SetCurrentCall(j, n),
         Opening(j + 7, n, T, All, Dir, content, synced)
  PROVE  /\ FilesOK' /\ version' = version /\ manifest' = manifest
         /\ Opening(j + 8, n, T, All, Dir, content, synced)'
<1> DEFINE x == Temp(n)
           y == Manifest(n)
<1>1. y # x /\ \A t \in Nat : Table(t) # x
  BY NamesDiffer
<1>2. /\ TablesThere(T, All, Dir, synced) /\ y \in DOMAIN Dir
      /\ \A e \in All : ~CurrentNames(e, n, content)
      /\ SettingCurrent(j, n, All, Dir, content, synced)
  BY DEF Opening, TablesThere
<1>3. content[Dir[y]] = << EditItem(T, {}), EditItem({}, {}) >> /\ synced[Dir[y]] = 2
  BY DEF Opening
<1>4. FilesOK' /\ Kept(x) /\ SettingCurrent(j + 1, n, All', Dir', content', synced')
  BY <1>2, SettingKeeps
<1>5. /\ TablesThere(T, All', Dir', synced') /\ y \in DOMAIN Dir'
      /\ \A e \in All' : ~CurrentNames(e, n, content')
      /\ version' = version /\ manifest' = manifest
      /\ content'[Dir'[y]] = content[Dir[y]] /\ synced'[Dir'[y]] = synced[Dir[y]]
  BY <1>1, <1>2, <1>4, TablesStay DEF Kept
<1>6. content'[Dir'[y]] = << EditItem(T, {}), EditItem({}, {}) >> /\ synced'[Dir'[y]] = 2
  BY <1>3, <1>5
<1>7. PICK i : i = j + 8 /\ i \in 9 .. 12 /\ i - 7 = j + 1
  OBVIOUS
<1>8. Opening(i, n, T, All', Dir', content', synced')
  <2>1. SettingCurrent(i - 7, n, All', Dir', content', synced')
    BY <1>4, <1>7
  <2>2. /\ y \in DOMAIN Dir' /\ TablesThere(T, All', Dir', synced')
        /\ \A e \in All' : ~CurrentNames(e, n, content')
    BY <1>5
  <2>3. i > 7 /\ i > 4 /\ i # 2 /\ i # 13 /\ i \in Nat /\ i <= 12
    BY <1>7
  <2>4. /\ content'[Dir'[y]] = IF i = 2 THEN << >>
                               ELSE IF i <= 4 THEN << EditItem(T, {}) >>
                               ELSE << EditItem(T, {}), EditItem({}, {}) >>
        /\ synced'[Dir'[y]] = 2
    BY ONLY <1>6, <2>3
  <2> QED
    BY ONLY <2>1, <2>2, <2>3, <2>4 DEF Opening, TablesThere
<1> QED
  BY <1>4, <1>5, <1>7, <1>8

\* CURRENT names the new descriptor.
LEMMA OpeningRenames ==
  ASSUME FilesOK, number' = number, NEW n \in 2 .. number - 1, NEW T \in SUBSET Nat,
         Effect(RenameCall(Temp(n), Current)),
         Opening(12, n, T, All, Dir, content, synced)
  PROVE  /\ FilesOK' /\ version' = version /\ manifest' = manifest
         /\ Opening(13, n, T, All, Dir, content, synced)'
<1> DEFINE y == Manifest(n)
<1>1. /\ TablesThere(T, All, Dir, synced) /\ y \in DOMAIN Dir
      /\ SettingCurrent(5, n, All, Dir, content, synced)
  BY DEF Opening, TablesThere
<1>2. content[Dir[y]] = << EditItem(T, {}), EditItem({}, {}) >> /\ synced[Dir[y]] = 2
  BY DEF Opening
<1>3. PICK q : q = content[Dir[y]]
  OBVIOUS
<1>4. q \in Seq(Items) /\ Len(q) = 2 /\ Tables(q) = T
  BY <1>2, <1>3, Snapshot
<1>5. SubSeq(q, 1, 2) = q
  <2>1. SubSeq(q, 1, Len(q)) = q
    BY <1>4, SubSeqFull
  <2> QED
    BY <1>4, <2>1
<1>6. NamedSound(Dir, n, content, synced)
  <2>1. SubSeq(content[Dir[y]], 1, synced[Dir[y]]) = q /\ synced[Dir[y]] = 2
    BY <1>2, <1>3, <1>5
  <2>2. \A t \in Tables(SubSeq(content[Dir[y]], 1, synced[Dir[y]])) : Table(t) \in DOMAIN Dir
    BY <1>1, <1>4, <2>1 DEF TablesThere
  <2> QED
    BY <1>1, <2>1, <2>2 DEF NamedSound
<1>7. n \in 1 .. number - 1 /\ n \in Nat /\ number \in Nat
  BY Latest
<1>8. /\ FilesOK' /\ All' = All \cup {Dir'} /\ CurrentNames(Dir', n, content')
      /\ content' = content /\ synced' = synced
      /\ version' = version /\ manifest' = manifest
      /\ \A x \in DOMAIN Dir : x # Temp(n) /\ x # Current => x \in DOMAIN Dir' /\ Dir'[x] = Dir[x]
  BY <1>1, <1>6, <1>7, CurrentRenamed
<1>9. y \in DOMAIN Dir' /\ Dir'[y] = Dir[y]
  BY <1>1, <1>7, <1>8, NamesDiffer
<1>10. TablesThere(T, All', Dir', synced')
  <2> SUFFICES ASSUME NEW t \in T
               PROVE  Table(t) \in DOMAIN Dir' /\ \A e \in All' : OnDisk(t, e, synced')
    BY DEF TablesThere
  <2>1. Table(t) \in DOMAIN Dir /\ \A e \in All : OnDisk(t, e, synced)
    BY <1>1 DEF TablesThere
  <2>2. Table(t) \in DOMAIN Dir' /\ Dir'[Table(t)] = Dir[Table(t)]
    BY <1>7, <1>8, <2>1, NamesDiffer
  <2>3. OnDisk(t, Dir', synced')
    BY <1>8, <2>1, <2>2, Latest DEF OnDisk
  <2> QED
    BY <1>8, <2>1, <2>2, <2>3
<1>11. content'[Dir'[y]] = << EditItem(T, {}), EditItem({}, {}) >> /\ synced'[Dir'[y]] = 2
  BY <1>2, <1>8, <1>9
<1>12. CurrentNames(Dir', n, content')
  BY <1>8
<1>13. Opening(13, n, T, All', Dir', content', synced')
  BY <1>9, <1>10, <1>11, <1>12 DEF Opening, TablesThere
<1> QED
  BY <1>8, <1>13

\* The database is open.
LEMMA OpeningEnds ==
  ASSUME FilesOK, number' = number, NEW n \in Nat, n >= 2, NEW T \in SUBSET Nat,
         Effect(Done(T, n)), Opening(13, n, T, All, Dir, content, synced)
  PROVE  FilesOK' /\ InUse(manifest, version, Dir, content, synced)'
<1>1. /\ version' = T /\ manifest' = n
      /\ dirs' = dirs /\ content' = content /\ flushed' = flushed /\ synced' = synced
  BY DoneEffect
<1>2. All' = All /\ Dir' = Dir
  BY <1>1, SameDirs
<1>3. FilesOK'
  BY <1>1, <1>2 DEF FilesOK
<1>4. PICK q : q = content[Dir[Manifest(n)]]
  OBVIOUS
<1>5. q = << EditItem(T, {}), EditItem({}, {}) >> /\ synced[Dir[Manifest(n)]] = 2
  BY <1>4 DEF Opening
<1>6. Len(q) = 2 /\ Tables(q) = T
  BY <1>5, Snapshot
<1>7. synced[Dir[Manifest(n)]] = Len(q) /\ CurrentNames(Dir, n, content)
  BY <1>5, <1>6 DEF Opening
<1>8. InUse(n, T, Dir, content, synced)
  BY ONLY <1>4, <1>6, <1>7, n \in Nat, n >= 2 DEF InUse
<1> QED
  BY <1>1, <1>2, <1>3, <1>8

\* A table in a directory has a number.
LEMMA TableNumber ==
  ASSUME NEW d \in Directories, NEW t, Table(t) \in DOMAIN d
  PROVE  t \in Nat
  BY DEF Directories, Names, Table, Manifest, Temp, Current

\* What an addition relies on all the time, and until it writes the edit.
AddingTo(n, m, v, d, c) ==
    /\ m \in Nat /\ m >= 2 /\ CurrentNames(d, m, c)
    /\ \A t \in v : t < n /\ Table(t) \in DOMAIN d

LEMMA AddingStays ==
  ASSUME FilesOK, NEW x, Kept(x), NEW n, NEW m, NEW v, AddingTo(n, m, v, Dir, content)
  PROVE  /\ AddingTo(n, m, v, Dir', content')
         /\ Manifest(m) # x /\ InUse(m, v, Dir, content, synced) => InUse(m, v, Dir', content', synced')
<1>1. m \in Nat /\ m >= 2 /\ CurrentNames(Dir, m, content) /\ Dir \in All /\ Dir \in Directories
  BY Latest DEF AddingTo
<1>2. \A t \in v : t \in Nat
  BY <1>1, TableNumber DEF AddingTo
<1>3. AddingTo(n, m, v, Dir', content')
  BY <1>1, <1>2 DEF AddingTo, Kept
<1>4. Manifest(m) \in DOMAIN Dir
  BY <1>1, Named DEF NamedSound
<1>5. ASSUME Manifest(m) # x, InUse(m, v, Dir, content, synced)
      PROVE  InUse(m, v, Dir', content', synced')
  BY <1>1, <1>4, <1>5 DEF InUse, Kept
<1> QED
  BY <1>3, <1>5

\* The table's calls.
AddingCall(k, n) ==
    \/ k = 1 /\ Effect(Call("create", Table(n)))
    \/ k = 2 /\ Effect(AppendCall(Table(n), << "table", n >>))
    \/ k = 3 /\ Effect(Call("syncdata", Table(n)))
    \/ k = 4 /\ Effect(Call("close", Table(n)))

LEMMA AddingKeeps ==
  ASSUME FilesOK, number' = number, NEW n \in Nat, n < number, NEW m, NEW v, NEW gone,
         NEW k \in 1 .. 4, AddingCall(k, n),
         Adding(k, n, m, v, gone, All, Dir, content, synced)
  PROVE  /\ FilesOK' /\ version' = version /\ manifest' = manifest
         /\ Adding(k + 1, n, m, v, gone, All, Dir, content, synced)'
<1> DEFINE x == Table(n)
<1>1. x \in Names /\ x # Current /\ \A i \in Nat : Manifest(i) # x
  BY NamesDiffer
<1>2. AddingTo(n, m, v, Dir, content) /\ InUse(m, v, Dir, content, synced) /\ m \in Nat
  BY DEF Adding, AddingTo
<1>3. ASSUME Kept(x)
      PROVE  /\ AddingTo(n, m, v, Dir', content') /\ InUse(m, v, Dir', content', synced')
             /\ version' = version /\ manifest' = manifest
  <2>1. Manifest(m) # x
    BY <1>1, <1>2
  <2> QED
    BY <1>2, <1>3, <2>1, AddingStays DEF Kept
<1>4. CASE k = 1
  <2>1. /\ \A e \in All : x \notin DOMAIN e
        /\ \A e \in All, i \in Nat : Manifest(i) \in DOMAIN e => Edits(content[e[Manifest(i)]], n)
    BY <1>4 DEF Adding
  <2>2. Effect(Call("create", x)) /\ Fresh(x)
    BY <1>4, <2>1, NamesDiffer DEF AddingCall, Fresh
  <2>3. /\ FilesOK' /\ All' = All \cup {Dir'} /\ DOMAIN Dir' = DOMAIN Dir \cup {x}
        /\ Dir'[x] = Len(content) + 1 /\ content'[Len(content) + 1] = << >>
        /\ \A y \in DOMAIN Dir : y # x => Dir'[y] = Dir[y]
        /\ \A e \in All : \A y \in DOMAIN e : content'[e[y]] = content[e[y]]
    BY <1>1, <2>2, Created
  <2>4. Kept(x)
    BY <1>1, <2>2, CreateKeeps
  <2>5. x \in DOMAIN Dir' /\ content'[Dir'[x]] = << >> /\ Dir \in All
    BY <2>3, Latest
  <2>6. \A e \in All' : x \in DOMAIN e => e[x] = Dir'[x]
    BY <2>1, <2>3
  <2>7. ASSUME NEW e \in All', NEW i \in Nat, Manifest(i) \in DOMAIN e
        PROVE  Edits(content'[e[Manifest(i)]], n)
    BY <1>1, <2>1, <2>3, <2>5, <2>7
  <2>8. AddingTo(n, m, v, Dir', content') /\ InUse(m, v, Dir', content', synced')
    BY <1>3, <2>4
  <2>9. Adding(2, n, m, v, gone, All', Dir', content', synced')
    BY <2>5, <2>6, <2>7, <2>8 DEF Adding, AddingTo
  <2> QED
    BY <1>3, <1>4, <2>3, <2>4, <2>9
<1>5. CASE k = 2
  <2>1. /\ \A e \in All : x \in DOMAIN e => e[x] = Dir[x]
        /\ \A e \in All, i \in Nat : Manifest(i) \in DOMAIN e => Edits(content[e[Manifest(i)]], n)
        /\ x \in DOMAIN Dir
    BY <1>5 DEF Adding
  <2>2. content[Dir[x]] = << >>
    BY <1>5 DEF Adding
  <2>3. Effect(AppendCall(x, << "table", n >>)) /\ << "table", n >> \in Items
    BY <1>5 DEF AddingCall, Items
  <2>4. /\ FileStep(x) /\ All' = All /\ Dir' = Dir /\ synced' = synced
        /\ content'[Dir[x]] = Append(content[Dir[x]], << "table", n >>)
        /\ version' = version /\ manifest' = manifest
    BY <2>1, <2>3, AppendStep
  <2>5. FilesOK' /\ Unaffected(x)
    BY <2>1, <2>4, TableWritten
  <2>6. Kept(x)
    BY <1>1, <2>4, <2>5, FileStepKeeps
  <2>7. content'[Dir'[x]] = << << "table", n >> >>
    BY <2>2, <2>4
  <2>8. ASSUME NEW e \in All', NEW i \in Nat, Manifest(i) \in DOMAIN e
        PROVE  Edits(content'[e[Manifest(i)]], n)
    <3>1. e \in All
      BY <2>4
    <3>2. content'[e[Manifest(i)]] = content[e[Manifest(i)]]
      BY <1>1, <2>5, <2>8, <3>1, Preserved
    <3> QED
      BY <2>1, <2>8, <3>1, <3>2
  <2>9. /\ AddingTo(n, m, v, Dir', content') /\ InUse(m, v, Dir', content', synced')
        /\ x \in DOMAIN Dir' /\ \A e \in All' : x \in DOMAIN e => e[x] = Dir'[x]
    BY <1>3, <2>1, <2>4, <2>6
  <2>10. Adding(3, n, m, v, gone, All', Dir', content', synced')
    BY <2>7, <2>8, <2>9 DEF Adding, AddingTo
  <2> QED
    BY <1>3, <1>5, <2>5, <2>6, <2>10
<1>6. CASE k = 3
  <2>1. /\ \A e \in All : x \in DOMAIN e => e[x] = Dir[x]
        /\ x \in DOMAIN Dir /\ Effect(Call("syncdata", x))
    BY <1>6 DEF Adding, AddingCall
  <2>2. content[Dir[x]] = << << "table", n >> >>
    BY <1>6 DEF Adding
  <2>3. /\ FileStep(x) /\ All' = All /\ Dir' = Dir /\ content' = content
        /\ synced'[Dir[x]] = Len(content[Dir[x]])
        /\ version' = version /\ manifest' = manifest
    BY <2>1, SyncStep
  <2>4. synced'[Dir[x]] = 1
    BY <2>2, <2>3
  <2>5. FilesOK' /\ Unaffected(x)
    BY <2>1, <2>3, <2>4, TableWritten
  <2>6. Kept(x)
    BY <1>1, <2>3, <2>5, FileStepKeeps
  <2>7. \A e \in All' : OnDisk(n, e, synced')
    BY <2>1, <2>3, <2>4 DEF OnDisk
  <2>8. /\ AddingTo(n, m, v, Dir', content') /\ InUse(m, v, Dir', content', synced')
        /\ x \in DOMAIN Dir'
    BY <1>3, <2>1, <2>3, <2>6
  <2>9. Adding(4, n, m, v, gone, All', Dir', content', synced')
    BY <2>7, <2>8 DEF Adding, AddingTo
  <2> QED
    BY <1>3, <1>6, <2>5, <2>6, <2>9
<1>7. CASE k = 4
  <2>1. /\ Effect(Call("close", x)) /\ x \in DOMAIN Dir
        /\ \A e \in All : OnDisk(n, e, synced)
    BY <1>7 DEF Adding, AddingCall
  <2>2. /\ FilesOK' /\ Kept(x) /\ All' = All /\ Dir' = Dir
        /\ content' = content /\ synced' = synced
    BY <2>1, FlushCall
  <2>3. /\ AddingTo(n, m, v, Dir', content') /\ InUse(m, v, Dir', content', synced')
        /\ x \in DOMAIN Dir' /\ \A e \in All' : OnDisk(n, e, synced')
    BY <1>3, <2>1, <2>2
  <2>4. Adding(5, n, m, v, gone, All', Dir', content', synced')
    BY <2>3 DEF Adding, AddingTo
  <2> QED
    BY <1>3, <1>7, <2>2, <2>4
<1> QED
  BY <1>4, <1>5, <1>6, <1>7

\* The descriptor's calls.
LoggingCall(k, n, m, gone) ==
    \/ k = 5 /\ Effect(AppendCall(Manifest(m), EditItem({n}, gone)))
    \/ k = 6 /\ Effect(Call("flush", Manifest(m)))
    \/ k = 7 /\ Effect(Call("syncdir", Manifest(m)))
    \/ k = 8 /\ Effect(Call("syncdata", Manifest(m)))

LEMMA LoggingKeeps ==
  ASSUME FilesOK, number' = number, NEW n \in Nat, n < number, NEW m, NEW v, NEW gone \in {{}, v},
         NEW k \in 5 .. 8, LoggingCall(k, n, m, gone),
         Adding(k, n, m, v, gone, All, Dir, content, synced)
  PROVE  /\ FilesOK' /\ version' = version /\ manifest' = manifest
         /\ Adding(k + 1, n, m, v, gone, All, Dir, content, synced)'
<1> DEFINE x == Manifest(m)
<1>1. /\ AddingTo(n, m, v, Dir, content) /\ m \in Nat /\ m # 1
      /\ Table(n) \in DOMAIN Dir /\ \A e \in All : OnDisk(n, e, synced)
  BY DEF Adding, AddingTo
<1>2. /\ Dir \in All /\ Dir \in Directories /\ Table(n) # x
  BY <1>1, Latest, NamesDiffer
<1>3. NamedSound(Dir, m, content, synced)
  BY <1>1, <1>2, Named DEF AddingTo
<1>4. x \in DOMAIN Dir
  BY <1>3 DEF NamedSound
<1>5. v \in SUBSET Nat /\ gone \in SUBSET Nat
  BY <1>1, <1>2, TableNumber DEF AddingTo
<1>6. ASSUME Kept(x)
      PROVE  /\ AddingTo(n, m, v, Dir', content')
             /\ Table(n) \in DOMAIN Dir' /\ \A e \in All' : OnDisk(n, e, synced')
             /\ version' = version /\ manifest' = manifest
  BY <1>1, <1>2, <1>6, AddingStays DEF Kept
<1>7. CASE k = 5
  <2>1. Effect(AppendCall(x, EditItem({n}, gone))) /\ InUse(m, v, Dir, content, synced)
    BY <1>7 DEF LoggingCall, Adding
  <2>2. PICK a \in SUBSET Nat : a = {n}
    OBVIOUS
  <2>3. /\ Effect(AppendCall(x, EditItem(a, gone)))
        /\ \A t \in a : t < number /\ \A e \in All : OnDisk(t, e, synced)
    BY <1>1, <2>1, <2>2
  <2>4. /\ FilesOK' /\ Kept(x) /\ Dir' = Dir
        /\ content'[Dir[x]] = Append(content[Dir[x]], EditItem(a, gone))
    BY <1>1, <1>4, <1>5, <2>3, EditAppended
  <2>5. PICK q : q = content[Dir[x]]
    OBVIOUS
  <2>6. q \in Seq(Items) /\ EditItem(a, gone) \in Items
    BY <1>1, <1>4, <1>5, <2>5, Descriptor DEF Items
  <2>7. Tables(Append(q, EditItem(a, gone))) = (Tables(q) \ gone) \cup a
    BY ONLY <2>6, TablesAppend
  <2>8. Tables(q) = v
    BY <2>1, <2>5 DEF InUse
  <2>9. Tables(content'[Dir'[x]]) = (v \ gone) \cup {n}
    BY <2>2, <2>4, <2>5, <2>7, <2>8
  <2>10. Adding(6, n, m, v, gone, All', Dir', content', synced')
    BY <1>6, <2>4, <2>9 DEF Adding, AddingTo
  <2> QED
    BY <1>6, <1>7, <2>4, <2>10
<1>8. CASE k \in {6, 7}
  <2>1. /\ Effect(Call("flush", x)) \/ Effect(Call("syncdir", x))
        /\ k = 7 => Effect(Call("syncdir", x))
        /\ Tables(content[Dir[x]]) = (v \ gone) \cup {n}
    BY <1>8 DEF LoggingCall, Adding
  <2>2. FilesOK' /\ Kept(x) /\ Dir' = Dir /\ content' = content /\ synced' = synced
    BY <1>4, <2>1, FlushCall, SyncDirCall
  <2>3. k = 7 => All' = {Dir'}
    BY <2>1, SyncDirCall
  <2>4. Tables(content'[Dir'[x]]) = (v \ gone) \cup {n}
    BY <2>1, <2>2
  <2>5. Adding(k + 1, n, m, v, gone, All', Dir', content', synced')
    BY <1>6, <1>8, <2>2, <2>3, <2>4 DEF Adding, AddingTo
  <2> QED
    BY <1>6, <2>2, <2>5
<1>9. CASE k = 8
  <2>1. /\ Effect(Call("syncdata", x)) /\ All = {Dir}
        /\ Tables(content[Dir[x]]) = (v \ gone) \cup {n}
    BY <1>9 DEF LoggingCall, Adding
  <2>2. PICK q : q = content[Dir[x]]
    OBVIOUS
  <2>3. Len(q) \in Nat /\ synced[Dir[x]] \in 0 .. Len(q)
    BY <1>1, <1>4, <2>2, Descriptor
  <2>4. Len(content[Dir[x]]) > 0
    BY <1>3, <2>2, <2>3 DEF NamedSound
  <2>5. \A e \in All : CurrentNames(e, m, content) =>
           \A t \in Tables(content[Dir[x]]) : Table(t) \in DOMAIN e
    BY <1>1, <2>1 DEF AddingTo
  <2>6. /\ FilesOK' /\ Kept(x) /\ All' = All /\ Dir' = Dir /\ content' = content
        /\ synced'[Dir[x]] = Len(content[Dir[x]])
    BY <1>1, <1>4, <2>1, <2>4, <2>5, DescriptorSynced
  <2>7. /\ Tables(content'[Dir'[x]]) = (v \ gone) \cup {n}
        /\ synced'[Dir'[x]] = Len(content'[Dir'[x]])
    BY <2>1, <2>6
  <2>8. Adding(9, n, m, v, gone, All', Dir', content', synced')
    BY <1>6, <2>6, <2>7 DEF Adding, AddingTo
  <2> QED
    BY <1>6, <1>9, <2>6, <2>8
<1> QED
  BY <1>7, <1>8, <1>9

\* The version in memory is the one in the descriptor.
LEMMA AddingEnds ==
  ASSUME FilesOK, number' = number, NEW n, NEW m, NEW v, NEW gone,
         Effect(Done((v \ gone) \cup {n}, m)),
         Adding(9, n, m, v, gone, All, Dir, content, synced)
  PROVE  FilesOK' /\ InUse(manifest, version, Dir, content, synced)'
<1>1. /\ version' = (v \ gone) \cup {n} /\ manifest' = m
      /\ dirs' = dirs /\ content' = content /\ flushed' = flushed /\ synced' = synced
  BY DoneEffect
<1>2. All' = All /\ Dir' = Dir
  BY <1>1, SameDirs
<1>3. FilesOK'
  BY <1>1, <1>2 DEF FilesOK
<1>4. InUse(m, (v \ gone) \cup {n}, Dir, content, synced)
  BY DEF Adding, InUse
<1> QED
  BY <1>1, <1>2, <1>3, <1>4

-----------------------------------------------------------------------------
(* The actions. *)

Job == JobSound(todo, version, manifest, All, Dir, content, synced, number)

LEMMA InvParts == FilesInv <=> FilesOK /\ Job
  BY DEF FilesInv, FilesOK, Job, All

\* The three jobs, seen from their next call.
LEMMA CreatingStep ==
  ASSUME FilesOK, MakeCall, manifest = 0, NEW k \in 1 .. 9, todo = Rest(NewDBCalls, k),
         Creating(k, All, Dir, content, synced)
  PROVE  FilesOK' /\ Job'
<1>1. PICK s : s = NewDBCalls
  OBVIOUS
<1>2. PICK S : IsSeq(S, s, 9) /\ NewDBIs(s)
  BY <1>1, NewDBSteps
<1>3. /\ Head(todo) = s[k] /\ Tail(todo) = Rest(s, k + 1) /\ Rest(s, 10) = << >>
  <2>1. AtCall(s, k, 9)
    BY <1>2, NextCall
  <2> QED
    BY <1>1, <2>1 DEF AtCall
<1>4. Effect(s[k]) /\ todo' = Rest(s, k + 1) /\ number' = number
  BY <1>3 DEF MakeCall
<1>5. CASE k \in 1 .. 8
  <2>1. CreatingCall(k)
    BY <1>2, <1>4, <1>5 DEF CreatingCall, SetCurrentCall, NewDBIs
  <2>2. /\ FilesOK' /\ version' = version /\ manifest' = manifest
        /\ Creating(k + 1, All', Dir', content', synced')
    BY <1>4, <1>5, <2>1, CreatingKeeps
  <2>3. k + 1 \in 1 .. 9
    BY <1>5
  <2> QED
    BY <1>1, <1>4, <2>2, <2>3 DEF Job, JobSound
<1>6. CASE k = 9
  <2>1. Effect(RenameCall(Temp(1), Current)) /\ 1 \in 1 .. number - 1
    BY <1>2, <1>4, <1>6, Latest DEF NewDBIs
  <2>2. SettingCurrent(5, 1, All, Dir, content, synced)
    BY <1>6 DEF Creating
  <2>3. FilesOK' /\ manifest' = manifest
    BY <1>4, <2>1, <2>2, CurrentRenamed
  <2>4. todo' = << >>
    BY <1>3, <1>4, <1>6
  <2> QED
    BY <2>3, <2>4 DEF Job, JobSound
<1> QED
  BY <1>5, <1>6

LEMMA OpeningStep ==
  ASSUME FilesOK, MakeCall, manifest = 0, number > 2,
         NEW k \in 1 .. 13, NEW T \in SUBSET (0 .. number - 1),
         todo = Rest(OpenScript(number - 1, T), k),
         Opening(k, number - 1, T, All, Dir, content, synced)
  PROVE  FilesOK' /\ Job'
<1>1. PICK n, s : n = number - 1 /\ s = OpenScript(n, T)
  OBVIOUS
<1>2. PICK S : IsSeq(S, s, 13) /\ OpenIs(s, n, T)
  BY <1>1, OpenSteps
<1>3. /\ Head(todo) = s[k] /\ Tail(todo) = Rest(s, k + 1) /\ Rest(s, 14) = << >>
  <2>1. AtCall(s, k, 13)
    BY <1>2, NextCall
  <2> QED
    BY <1>1, <2>1 DEF AtCall
<1>4. Effect(s[k]) /\ todo' = Rest(s, k + 1) /\ number' = number
  BY <1>3 DEF MakeCall
<1>5. /\ number \in Nat /\ n \in Nat /\ n < number /\ n >= 2 /\ n \in 2 .. number - 1
      /\ T \in SUBSET Nat /\ \A t \in T : t < number
  BY <1>1, Latest
<1>6. Opening(k, n, T, All, Dir, content, synced)
  BY <1>1
<1>7. ASSUME k \in 1 .. 12, FilesOK', version' = version, manifest' = manifest,
             Opening(k + 1, n, T, All', Dir', content', synced')
      PROVE  Job'
  <2>1. k + 1 \in 1 .. 13 /\ number' > 2 /\ n = number' - 1 /\ T \in SUBSET (0 .. number' - 1)
    BY <1>1, <1>4, <1>7
  <2> QED
    BY <1>1, <1>4, <1>7, <2>1 DEF Job, JobSound
<1>8. CASE k \in 1 .. 7
  <2>1. OpeningCall(k, n, T)
    BY <1>2, <1>4, <1>8 DEF OpeningCall, OpenIs
  <2> QED
    BY <1>4, <1>5, <1>6, <1>7, <1>8, <2>1, OpeningKeeps
<1>9. CASE k \in 8 .. 11
  <2>1. PICK j \in 1 .. 4 : k = j + 7
    BY <1>9
  <2>2. SetCurrentCall(j, n)
    BY <1>2, <1>4, <2>1 DEF SetCurrentCall, OpenIs
  <2>3. Opening(j + 7, n, T, All, Dir, content, synced)
    BY <1>6, <2>1
  <2>4. /\ FilesOK' /\ version' = version /\ manifest' = manifest
        /\ Opening(j + 8, n, T, All', Dir', content', synced')
    BY <1>4, <1>5, <2>2, <2>3, OpeningSets
  <2>5. j + 8 = k + 1
    BY <2>1
  <2> QED
    BY <1>7, <1>9, <2>4, <2>5
<1>10. CASE k = 12
  <2>1. Effect(RenameCall(Temp(n), Current)) /\ Opening(12, n, T, All, Dir, content, synced)
    BY <1>2, <1>4, <1>6, <1>10 DEF OpenIs
  <2> QED
    BY <1>4, <1>5, <1>7, <1>10, <2>1, OpeningRenames
<1>11. CASE k = 13
  <2>1. Effect(Done(T, n)) /\ Opening(13, n, T, All, Dir, content, synced)
    BY <1>2, <1>4, <1>6, <1>11 DEF OpenIs
  <2>2. FilesOK' /\ InUse(manifest', version', Dir', content', synced')
    BY <1>4, <1>5, <2>1, OpeningEnds
  <2>3. todo' = << >>
    BY <1>3, <1>4, <1>11
  <2> QED
    BY <2>2, <2>3 DEF Job, JobSound
<1> QED
  BY <1>8, <1>9, <1>10, <1>11

LEMMA AddingStep ==
  ASSUME FilesOK, MakeCall, number > 2, NEW k \in 1 .. 9, NEW gone \in {{}, version},
         todo = Rest(AddScript(number - 1, manifest, version, gone), k),
         Adding(k, number - 1, manifest, version, gone, All, Dir, content, synced)
  PROVE  FilesOK' /\ Job'
<1>1. PICK n, m, v, s : /\ n = number - 1 /\ m = manifest /\ v = version
                        /\ s = AddScript(n, m, v, gone)
  OBVIOUS
<1>2. PICK S : IsSeq(S, s, 9) /\ AddIs(s, n, m, v, gone)
  BY <1>1, AddSteps
<1>3. /\ Head(todo) = s[k] /\ Tail(todo) = Rest(s, k + 1) /\ Rest(s, 10) = << >>
  <2>1. AtCall(s, k, 9)
    BY <1>2, NextCall
  <2> QED
    BY <1>1, <2>1 DEF AtCall
<1>4. Effect(s[k]) /\ todo' = Rest(s, k + 1) /\ number' = number
  BY <1>3 DEF MakeCall
<1>5. number \in Nat /\ n \in Nat /\ n < number
  BY <1>1, Latest
<1>6. Adding(k, n, m, v, gone, All, Dir, content, synced) /\ gone \in {{}, v}
  BY <1>1
<1>7. ASSUME k \in 1 .. 8, FilesOK', version' = version, manifest' = manifest,
             Adding(k + 1, n, m, v, gone, All', Dir', content', synced')
      PROVE  Job'
  <2>1. k + 1 \in 1 .. 9 /\ number' > 2 /\ n = number' - 1 /\ m = manifest' /\ v = version'
    BY <1>1, <1>4, <1>7
  <2> QED
    BY <1>1, <1>4, <1>6, <1>7, <2>1 DEF Job, JobSound
<1>8. CASE k \in 1 .. 4
  <2>1. AddingCall(k, n)
    BY <1>2, <1>4, <1>8 DEF AddingCall, AddIs
  <2> QED
    BY <1>4, <1>5, <1>6, <1>7, <1>8, <2>1, AddingKeeps
<1>9. CASE k \in 5 .. 8
  <2>1. LoggingCall(k, n, m, gone)
    BY <1>2, <1>4, <1>9 DEF LoggingCall, AddIs
  <2> QED
    BY <1>4, <1>5, <1>6, <1>7, <1>9, <2>1, LoggingKeeps
<1>10. CASE k = 9
  <2>1. /\ Effect(Done((v \ gone) \cup {n}, m))
        /\ Adding(9, n, m, v, gone, All, Dir, content, synced)
    BY <1>2, <1>4, <1>6, <1>10 DEF AddIs
  <2>2. FilesOK' /\ InUse(manifest', version', Dir', content', synced')
    BY <1>4, <2>1, AddingEnds
  <2>3. todo' = << >>
    BY <1>3, <1>4, <1>10
  <2> QED
    BY <2>2, <2>3 DEF Job, JobSound
<1> QED
  BY <1>8, <1>9, <1>10

LEMMA CallMade ==
  ASSUME FilesOK, Job, MakeCall
  PROVE  FilesOK' /\ Job'
<1>1. todo # << >>
  BY DEF MakeCall
<1> QED
  BY <1>1, CreatingStep, OpeningStep, AddingStep DEF Job, JobSound

\* Names may be removed that CURRENT does not need.
Needless(N) ==
    \A m \in Nat : CurrentNames(Dir, m, content) /\ m # 1 =>
        /\ Manifest(m) \notin N
        /\ \A t \in Tables(SubSeq(content[Dir[Manifest(m)]], 1, synced[Dir[Manifest(m)]])) :
             Table(t) \notin N

LEMMA NamesRemoved ==
  ASSUME FilesOK, NEW N, Needless(N), NEW e, e = [x \in DOMAIN Dir \ N |-> Dir[x]]
  PROVE  /\ FilesSound(All \cup {e}, content, flushed, synced, number)
         /\ PartOf(e, Dir) /\ DOMAIN e = DOMAIN Dir \ N
<1>1. Dir \in All /\ Dir \in Directories /\ number \in Nat
  BY Latest
<1>2. PartOf(e, Dir) /\ DOMAIN e = DOMAIN Dir \ N
  BY <1>1, LessNames
<1>3. CurrentSound(e, content, synced, number)
  <2> SUFFICES ASSUME Current \in DOMAIN e
               PROVE  /\ synced[e[Current]] = 1
                      /\ \E m \in 1 .. number - 1 :
                           /\ content[e[Current]] = << << "current", m >> >>
                           /\ m # 1 => NamedSound(e, m, content, synced)
    BY DEF CurrentSound
  <2>1. Current \in DOMAIN Dir /\ e[Current] = Dir[Current]
    BY <1>2 DEF PartOf
  <2>2. CurrentSound(Dir, content, synced, number)
    BY Latest DEF DirSound
  <2>3. PICK m \in 1 .. number - 1 : /\ content[Dir[Current]] = << << "current", m >> >>
                                     /\ m # 1 => NamedSound(Dir, m, content, synced)
    BY <2>1, <2>2 DEF CurrentSound
  <2>4. CurrentNames(Dir, m, content) /\ m \in Nat
    BY <1>1, <2>1, <2>3 DEF CurrentNames
  <2>5. ASSUME m # 1
        PROVE  NamedSound(e, m, content, synced)
    <3>1. /\ Manifest(m) \notin N
          /\ \A t \in Tables(SubSeq(content[Dir[Manifest(m)]], 1, synced[Dir[Manifest(m)]])) :
               Table(t) \notin N
      BY <2>4, <2>5 DEF Needless
    <3>2. NamedSound(Dir, m, content, synced)
      BY <2>3, <2>5
    <3>3. Manifest(m) \in DOMAIN e /\ e[Manifest(m)] = Dir[Manifest(m)]
      BY <1>2, <3>1, <3>2 DEF NamedSound, PartOf
    <3> QED
      BY <1>2, <3>1, <3>2, <3>3 DEF NamedSound
  <2>6. synced[e[Current]] = 1
    BY <2>1, <2>2 DEF CurrentSound
  <2> QED
    BY <2>1, <2>3, <2>5, <2>6
<1>4. FilesSound(All, content, flushed, synced, number)
  BY DEF FilesOK
<1> QED
  BY <1>1, <1>2, <1>3, <1>4, DirReduced

\* The version in use, seen from the disk.
LEMMA VersionOnDisk ==
  ASSUME FilesOK, NEW m, NEW v, InUse(m, v, Dir, content, synced)
  PROVE  /\ m \in Nat /\ m < number /\ Manifest(m) \in DOMAIN Dir
         /\ Tables(SubSeq(content[Dir[Manifest(m)]], 1, synced[Dir[Manifest(m)]])) = v
         /\ \A t \in v : t \in Nat /\ t < number /\ Table(t) \in DOMAIN Dir
         /\ \A k \in Nat : CurrentNames(Dir, k, content) => k = m
<1>1. m \in Nat /\ m # 1 /\ CurrentNames(Dir, m, content) /\ Dir \in All
  BY Latest DEF InUse
<1>2. NamedSound(Dir, m, content, synced) /\ m < number
  BY <1>1, Named
<1>3. PICK q : q = content[Dir[Manifest(m)]]
  OBVIOUS
<1>4. Manifest(m) \in DOMAIN Dir
  BY <1>2 DEF NamedSound
<1>5. q \in Seq(Items) /\ Edits(q, number)
  BY <1>1, <1>3, <1>4, Descriptor
<1>6. SubSeq(q, 1, Len(q)) = q
  BY <1>5, SubSeqFull
<1>7. synced[Dir[Manifest(m)]] = Len(q) /\ Tables(q) = v
  BY <1>3 DEF InUse
<1>8. Tables(SubSeq(content[Dir[Manifest(m)]], 1, synced[Dir[Manifest(m)]])) = v
  BY <1>3, <1>6, <1>7
<1>9. \A t \in v : t \in Nat /\ t < number
  <2> SUFFICES ASSUME NEW t \in Tables(q)
               PROVE  t \in Nat /\ t < number
    BY <1>7
  <2>1. PICK i \in 1 .. Len(q) : t \in q[i][2]
    BY <1>5, TablesAdded
  <2> QED
    BY <1>5, <2>1, EditAdds
<1>10. ASSUME NEW k \in Nat, CurrentNames(Dir, k, content)
       PROVE  k = m
  <2>1. content[Dir[Current]] = << << "current", k >> >> /\ content[Dir[Current]] = << << "current", m >> >>
    BY <1>1, <1>10 DEF CurrentNames
  <2> QED
    BY ONLY <2>1
<1> QED
  BY <1>1, <1>2, <1>4, <1>8, <1>9, <1>10 DEF NamedSound

\* The names that calls concern.
LEMMA CallNames ==
  /\ \A op, x : Call(op, x).name = x
  /\ \A x, item : AppendCall(x, item).name = x
  /\ \A x, y : RenameCall(x, y).name = x
  /\ \A T, n : Done(T, n).op = "done"
  BY DEF Call, AppendCall, RenameCall, Done

\* What a failed call removes.
Half(name) == IF manifest = 0 THEN {name, Manifest(name[2])} ELSE {name} \ {Manifest(manifest)}

LEMMA HalfNeedless ==
  ASSUME FilesOK, Job, todo # << >>, Head(todo).op # "done"
  PROVE  Needless(Half(Head(todo).name))
<1> DEFINE name == Head(todo).name
<1>1. CASE Current \notin DOMAIN Dir
  BY <1>1 DEF Needless, CurrentNames
<1>2. ASSUME manifest = 0, number > 2, NEW k \in 1 .. 13, NEW T \in SUBSET (0 .. number - 1),
             todo = Rest(OpenScript(number - 1, T), k),
             Opening(k, number - 1, T, All, Dir, content, synced)
      PROVE  Needless(Half(name))
  <2>1. PICK n, s : n = number - 1 /\ s = OpenScript(n, T)
    OBVIOUS
  <2>2. PICK S : IsSeq(S, s, 13) /\ OpenIs(s, n, T)
    BY <2>1, OpenSteps
  <2>3. AtCall(s, k, 13)
    BY <2>2, NextCall
  <2>4. Head(todo) = s[k] /\ n \in Nat
    BY <1>2, <2>1, <2>3, Latest DEF AtCall
  <2>5. k # 13
    BY <2>2, <2>4, CallNames DEF OpenIs
  <2>6. name = Manifest(n) \/ name = Temp(n)
    BY <2>2, <2>4, <2>5, CallNames DEF OpenIs
  <2>7. Half(name) \subseteq {Manifest(n), Temp(n)}
    <3>1. Manifest(n)[2] = n /\ Temp(n)[2] = n
      BY ONLY DEF Manifest, Temp
    <3>2. name[2] = n
      BY <2>6, <3>1
    <3>3. Half(name) = {name, Manifest(n)}
      BY <1>2, <3>2 DEF Half
    <3> QED
      BY ONLY <2>6, <3>3
  <2>8. ~CurrentNames(Dir, n, content)
    BY <1>2, <2>1, <2>5, Latest DEF Opening
  <2> SUFFICES ASSUME NEW m \in Nat, CurrentNames(Dir, m, content), m # 1
               PROVE  /\ Manifest(m) \notin Half(name)
                      /\ \A t \in Tables(SubSeq(content[Dir[Manifest(m)]], 1, synced[Dir[Manifest(m)]])) :
                           Table(t) \notin Half(name)
    BY DEF Needless
  <2>9. Manifest(m) \notin Half(name)
    BY <2>4, <2>7, <2>8, NamesDiffer
  <2>10. ASSUME NEW t PROVE Table(t) \notin Half(name)
    BY <2>7 DEF Table, Manifest, Temp
  <2> QED
    BY <2>9, <2>10
<1>3. ASSUME number > 2, NEW k \in 1 .. 9, NEW gone \in {{}, version},
             todo = Rest(AddScript(number - 1, manifest, version, gone), k),
             Adding(k, number - 1, manifest, version, gone, All, Dir, content, synced)
      PROVE  Needless(Half(name))
  <2>1. PICK n, m, v, s : /\ n = number - 1 /\ m = manifest /\ v = version
                          /\ s = AddScript(n, m, v, gone)
    OBVIOUS
  <2>2. PICK S : IsSeq(S, s, 9) /\ AddIs(s, n, m, v, gone)
    BY <2>1, AddSteps
  <2>3. AtCall(s, k, 9)
    BY <2>2, NextCall
  <2>4. Head(todo) = s[k] /\ n \in Nat
    BY <1>3, <2>1, <2>3, Latest DEF AtCall
  <2>5. k # 9
    BY <2>2, <2>4, CallNames DEF AddIs
  <2>6. (k <= 4 /\ name = Table(n)) \/ name = Manifest(m)
    BY <2>2, <2>4, <2>5, CallNames DEF AddIs
  <2>7. m \in Nat /\ m # 0
    BY <1>3, <2>1 DEF Adding
  <2>8. CASE name = Manifest(m)
    BY <2>1, <2>7, <2>8 DEF Half, Needless
  <2>9. CASE k <= 4 /\ name = Table(n)
    <3>1. InUse(m, v, Dir, content, synced) /\ \A t \in v : t < n
      BY <1>3, <2>1, <2>9 DEF Adding
    <3>2. Half(name) \subseteq {Table(n)}
      BY <2>1, <2>7, <2>9 DEF Half
    <3> SUFFICES ASSUME NEW i \in Nat, CurrentNames(Dir, i, content), i # 1
                 PROVE  /\ Manifest(i) \notin Half(name)
                        /\ \A t \in Tables(SubSeq(content[Dir[Manifest(i)]], 1, synced[Dir[Manifest(i)]])) :
                             Table(t) \notin Half(name)
      BY DEF Needless
    <3>3. /\ i = m
          /\ Tables(SubSeq(content[Dir[Manifest(m)]], 1, synced[Dir[Manifest(m)]])) = v
          /\ \A t \in v : t \in Nat
      BY <3>1, VersionOnDisk
    <3>4. \A t \in v : Table(t) \notin Half(name)
      BY <2>4, <3>1, <3>2, <3>3, NamesDiffer
    <3>5. Manifest(i) \notin Half(name)
      BY <2>4, <3>2, NamesDiffer
    <3> QED
      BY <3>3, <3>4, <3>5
  <2> QED
    BY <2>6, <2>8, <2>9
<1> QED
  BY <1>1, <1>2, <1>3 DEF Job, JobSound, Creating

\* A call fails: its file is removed, and the buffers are written or lost.
LEMMA CallFailed ==
  ASSUME FilesOK, Job, CallFails
  PROVE  FilesOK' /\ Job'
<1>1. PICK e : e = [x \in DOMAIN Dir \ Half(Head(todo).name) |-> Dir[x]]
  OBVIOUS
<1>2. /\ todo # << >> /\ Head(todo).op # "done"
      /\ dirs' = IF e = Dir THEN dirs ELSE Append(dirs, e)
      /\ \/ flushed' = [f \in DOMAIN content |-> Len(content[f])] /\ content' = content
         \/ content' = [f \in DOMAIN content |-> SubSeq(content[f], 1, flushed[f])] /\ flushed' = flushed
      /\ todo' = << >> /\ version' = {} /\ manifest' = 0
      /\ synced' = synced /\ number' = number
  BY <1>1 DEF CallFails, Half
<1>3. Needless(Half(Head(todo).name))
  BY <1>2, HalfNeedless
<1>4. FilesSound(All \cup {e}, content, flushed, synced, number) /\ PartOf(e, Dir)
  BY <1>1, <1>3, NamesRemoved
<1>5. e \in Directories /\ Dir \in All
  BY <1>4, Latest DEF PartOf
<1>6. /\ dirs' \in Seq(Directories) /\ Len(dirs') >= 1
      /\ FilesSound(All', content, flushed, synced, number)
  <2>1. CASE e = Dir
    <3>1. dirs' = dirs
      BY <1>2, <2>1
    <3> QED
      BY <3>1, SameDirs DEF FilesOK
  <2>2. CASE e # Dir
    <3>1. dirs' = Append(dirs, e)
      BY <1>2, <2>2
    <3> QED
      BY <1>4, <1>5, <3>1, DirsGrow
  <2> QED
    BY <2>1, <2>2
<1>7. /\ content \in Seq(Seq(Items)) /\ flushed \in Seq(Nat) /\ Len(flushed) = Len(content)
      /\ \A i \in 1 .. Len(content) : synced[i] <= flushed[i] /\ flushed[i] <= Len(content[i])
  BY <1>6 DEF FilesSound, FileTypes
<1>8. FilesSound(All', content', flushed', synced', number)
  <2>1. CASE flushed' = [f \in DOMAIN content |-> Len(content[f])] /\ content' = content
    <3>1. /\ flushed' \in Seq(Nat) /\ Len(flushed') = Len(content)
          /\ \A i \in 1 .. Len(content) : flushed'[i] = Len(content[i])
      BY <1>7, <2>1
    <3>2. \A i \in 1 .. Len(content) : synced[i] \in Nat /\ flushed[i] \in Nat /\ Len(content[i]) \in Nat
      BY <1>6 DEF FilesSound, FileTypes
    <3>3. \A i \in 1 .. Len(content) : synced[i] <= flushed'[i] /\ flushed'[i] <= Len(content[i])
      BY <1>7, <3>1, <3>2
    <3>4. FilesSound(All', content, flushed', synced, number)
      BY <1>6, <3>1, <3>3, FilesFlushed
    <3> QED
      BY <1>2, <2>1, <3>4
  <2>2. CASE content' = [f \in DOMAIN content |-> SubSeq(content[f], 1, flushed[f])] /\ flushed' = flushed
    <3>1. FilesSound(All', content', flushed, synced, number)
      BY <1>6, <1>7, <2>2, FilesTruncated
    <3> QED
      BY <1>2, <2>2, <3>1
  <2> QED
    BY <1>2, <2>1, <2>2
<1>9. FilesOK'
  BY <1>2, <1>6, <1>8 DEF FilesOK
<1> QED
  BY <1>2, <1>9 DEF Job, JobSound

\* The machine stops: one of the directories is left, and what was synced.
LEMMA PowerLost ==
  ASSUME FilesOK, PowerLoss
  PROVE  FilesOK' /\ Job'
<1>1. PICK i \in DOMAIN dirs : dirs' = << dirs[i] >>
  BY DEF PowerLoss
<1>2. /\ content' = [f \in DOMAIN content |-> SubSeq(content[f], 1, synced[f])]
      /\ flushed' = synced /\ todo' = << >> /\ version' = {} /\ manifest' = 0
      /\ synced' = synced /\ number' = number
  BY DEF PowerLoss
<1>3. PICK e : e = dirs[i]
  OBVIOUS
<1>4. e \in All /\ e \in Directories
  BY <1>1, <1>3 DEF FilesOK, All, DirSet
<1>5. dirs' \in Seq(Directories) /\ Len(dirs') >= 1 /\ All' = {e}
  BY <1>1, <1>3, <1>4, DirsShrink
<1>6. FilesSound(All, content, flushed, synced, number) /\ {e} \in SUBSET All
  BY <1>4 DEF FilesOK
<1>7. FilesSound({e}, content, flushed, synced, number)
  BY <1>6, FewerDirs
<1>8. /\ synced \in Seq(Nat) /\ Len(synced) = Len(content)
      /\ \A j \in 1 .. Len(content) : synced[j] <= synced[j] /\ synced[j] <= Len(content[j])
  BY <1>6 DEF FilesSound, FileTypes
<1>9. FilesSound({e}, content', synced, synced, number)
  BY <1>2, <1>7, <1>8, FilesTruncated
<1>10. FilesOK'
  BY <1>2, <1>5, <1>9 DEF FilesOK
<1> QED
  BY <1>2, <1>10 DEF Job, JobSound

\* A job before its first call.
LEMMA WholeScript ==
  ASSUME NEW S, NEW s, NEW n, IsSeq(S, s, n)
  PROVE  s = Rest(s, 1)
  BY SubSeqFull DEF IsSeq, Rest

\* A step that takes a job leaves the files alone.
LEMMA JobTaken ==
  ASSUME FilesOK, dirs' = dirs, content' = content, flushed' = flushed, synced' = synced,
         number' \in Nat, number' >= number
  PROVE  FilesOK' /\ All' = All /\ Dir' = Dir
<1>1. All' = All /\ Dir' = Dir
  BY SameDirs
<1>2. FilesSound(All, content, flushed, synced, number')
  BY NumberTaken DEF FilesOK
<1> QED
  BY <1>1, <1>2 DEF FilesOK

LEMMA CreateDBKeeps ==
  ASSUME FilesOK, CreateDB
  PROVE  FilesOK' /\ Job'
<1>1. /\ manifest = 0 /\ Current \notin DOMAIN Dir /\ todo' = NewDBCalls
      /\ dirs' = dirs /\ content' = content /\ flushed' = flushed /\ synced' = synced
      /\ version' = version /\ manifest' = manifest /\ number' = number
  BY DEF CreateDB
<1>2. FilesOK' /\ All' = All /\ Dir' = Dir
  BY <1>1, Latest, JobTaken
<1>3. PICK s : s = NewDBCalls
  OBVIOUS
<1>4. s = Rest(s, 1)
  BY <1>3, NewDBSteps, WholeScript
<1>5. Creating(1, All', Dir', content', synced')
  BY <1>1, <1>2 DEF Creating
<1> QED
  BY <1>1, <1>2, <1>3, <1>4, <1>5 DEF Job, JobSound

LEMMA OpenFilesKeeps ==
  ASSUME FilesOK, OpenFiles
  PROVE  FilesOK' /\ Job'
<1>1. PICK m, q, T : /\ m = Manifest(NamedBy(Dir, content)) /\ q = content[Dir[m]]
                     /\ T = Tables(q)
  OBVIOUS
<1>2. /\ manifest = 0 /\ Current \in DOMAIN Dir /\ m \in DOMAIN Dir
      /\ \A t \in T : Table(t) \in DOMAIN Dir
      /\ todo' = OpenScript(number, T) /\ number' = number + 1
      /\ dirs' = dirs /\ content' = content /\ flushed' = flushed /\ synced' = synced
      /\ version' = version /\ manifest' = manifest
  BY <1>1 DEF OpenFiles, OpenScript
<1>3. /\ number \in Nat /\ number >= 2 /\ number' \in Nat /\ number' >= number
      /\ number' > 2 /\ number' - 1 = number
  BY <1>2, Latest
<1>4. FilesOK' /\ All' = All /\ Dir' = Dir
  BY <1>2, <1>3, JobTaken
<1>5. PICK i \in 1 .. number - 1 : content[Dir[Current]] = << << "current", i >> >>
  BY <1>2, Latest DEF DirSound, CurrentSound
<1>6. i \in Nat /\ m = Manifest(i)
  <2>1. << << "current", i >> >>[1][2] = i
    OBVIOUS
  <2> QED
    BY <1>1, <1>3, <1>5, <2>1 DEF NamedBy
<1>7. /\ q \in Seq(Items) /\ Edits(q, number)
      /\ \A e \in All : ItemsBacked(q, e, synced)
  BY <1>1, <1>2, <1>6, Descriptor
<1>8. ASSUME NEW t \in T
      PROVE  t \in Nat /\ t < number /\ \A e \in All : OnDisk(t, e, synced)
  <2>1. PICK j \in 1 .. Len(q) : t \in q[j][2]
    BY <1>1, <1>7, TablesAdded
  <2> QED
    BY <1>7, <2>1, EditAdds DEF ItemsBacked
<1>9. \A e \in All : ~CurrentNames(e, number, content)
  BY <1>3, Named
<1>10. Opening(1, number, T, All', Dir', content', synced')
  BY <1>2, <1>4, <1>8, <1>9 DEF Opening
<1>11. PICK s : s = OpenScript(number, T)
  OBVIOUS
<1>12. s = Rest(s, 1)
  BY <1>11, OpenSteps, WholeScript
<1>13. T \in SUBSET (0 .. number' - 1) /\ todo' = Rest(OpenScript(number' - 1, T), 1)
  BY <1>2, <1>3, <1>8, <1>11, <1>12
<1>14. Opening(1, number' - 1, T, All', Dir', content', synced')
  BY <1>3, <1>10
<1> QED
  BY <1>2, <1>3, <1>4, <1>13, <1>14 DEF Job, JobSound

\* A process that takes a job has none under way.
LEMMA Idle ==
  ASSUME FilesOK, Job, Ready, manifest # 0
  PROVE  InUse(manifest, version, Dir, content, synced)
<1>1. ASSUME NEW S, NEW s, NEW n \in Nat, IsSeq(S, s, n), NEW k \in 1 .. n
      PROVE  todo # Rest(s, k)
  BY <1>1, NextCall DEF Ready, AtCall
<1>2. ASSUME NEW k \in 1 .. 9, NEW gone
      PROVE  todo # Rest(AddScript(number - 1, manifest, version, gone), k)
  <2>1. PICK s : s = AddScript(number - 1, manifest, version, gone)
    OBVIOUS
  <2>2. PICK S : IsSeq(S, s, 9)
    BY <2>1, AddSteps
  <2> QED
    BY <1>1, <2>1, <2>2
<1> QED
  BY <1>2 DEF Job, JobSound

LEMMA AddTableKeeps ==
  ASSUME FilesOK, Job, NEW gone \in {{}, version}, AddTable(gone)
  PROVE  FilesOK' /\ Job'
<1>1. PICK n, m, v : n = number /\ m = manifest /\ v = version
  OBVIOUS
<1>2. /\ Ready /\ manifest # 0 /\ todo' = AddScript(n, m, v, gone) /\ number' = number + 1
      /\ dirs' = dirs /\ content' = content /\ flushed' = flushed /\ synced' = synced
      /\ version' = v /\ manifest' = m
  BY <1>1 DEF AddTable, AddScript
<1>3. /\ n \in Nat /\ number' \in Nat /\ number' >= number /\ number' > 2 /\ number' - 1 = n
  BY <1>1, <1>2, Latest
<1>4. FilesOK' /\ All' = All /\ Dir' = Dir
  BY <1>2, <1>3, JobTaken
<1>5. InUse(m, v, Dir, content, synced)
  BY <1>1, <1>2, Idle
<1>6. \A t \in v : t < n /\ Table(t) \in DOMAIN Dir
  BY <1>1, <1>5, VersionOnDisk
<1>7. /\ \A e \in All : Table(n) \notin DOMAIN e
      /\ \A e \in All, i \in Nat : Manifest(i) \in DOMAIN e => Edits(content[e[Manifest(i)]], n)
  BY <1>1, <1>3 DEF FilesOK, FilesSound, DirSound, DirTypes
<1>8. Adding(1, n, m, v, gone, All, Dir, content, synced)
  BY <1>5, <1>6, <1>7 DEF Adding, InUse
<1>9. PICK s : s = AddScript(n, m, v, gone)
  OBVIOUS
<1>10. s = Rest(s, 1)
  BY <1>9, AddSteps, WholeScript
<1>11. /\ gone \in {{}, version'}
       /\ todo' = Rest(AddScript(number' - 1, manifest', version', gone), 1)
  BY <1>1, <1>2, <1>3, <1>9, <1>10
<1>12. Adding(1, number' - 1, manifest', version', gone, All', Dir', content', synced')
  BY <1>2, <1>3, <1>4, <1>8
<1>13. \E k \in 1 .. 9, g \in {{}, version'} :
         /\ todo' = Rest(AddScript(number' - 1, manifest', version', g), k)
         /\ Adding(k, number' - 1, manifest', version', g, All', Dir', content', synced')
  <2>1. 1 \in 1 .. 9
    OBVIOUS
  <2> QED
    BY ONLY <1>11, <1>12, <2>1, Zenon
<1>14. Job'
  BY ONLY <1>3, <1>13 DEF Job, JobSound
<1> QED
  BY <1>4, <1>14

LEMMA DeleteKeeps ==
  ASSUME FilesOK, Job, NEW name, DeleteObsolete(name)
  PROVE  FilesOK' /\ Job'
<1>1. PICK m, v, e : /\ m = manifest /\ v = version
                     /\ e = [x \in DOMAIN Dir \ {name} |-> Dir[x]]
  OBVIOUS
<1>2. /\ Ready /\ manifest # 0 /\ name \in Obsolete /\ dirs' = Append(dirs, e)
      /\ content' = content /\ flushed' = flushed /\ synced' = synced
      /\ todo' = todo /\ version' = v /\ manifest' = m /\ number' = number
  BY <1>1 DEF DeleteObsolete, Without
<1>3. InUse(m, v, Dir, content, synced)
  BY <1>1, <1>2, Idle
<1>4. /\ m \in Nat /\ Manifest(m) \in DOMAIN Dir
      /\ Tables(SubSeq(content[Dir[Manifest(m)]], 1, synced[Dir[Manifest(m)]])) = v
      /\ \A k \in Nat : CurrentNames(Dir, k, content) => k = m
  BY <1>3, VersionOnDisk
<1>5. /\ name # Current /\ name # Manifest(m)
      /\ \A t \in v : name # Table(t)
  BY <1>1, <1>2, <1>4 DEF Obsolete, Current, Manifest, Table
<1>6. Needless({name})
  BY <1>4, <1>5 DEF Needless
<1>7. /\ FilesSound(All \cup {e}, content, flushed, synced, number)
      /\ PartOf(e, Dir) /\ DOMAIN e = DOMAIN Dir \ {name}
  BY <1>1, <1>6, NamesRemoved
<1>8. e \in Directories
  BY <1>7 DEF PartOf
<1>9. dirs' \in Seq(Directories) /\ Len(dirs') >= 1 /\ All' = All \cup {e} /\ Dir' = e
  BY <1>2, <1>8, DirsGrow
<1>10. FilesOK'
  BY <1>2, <1>7, <1>9 DEF FilesOK
<1>11. Manifest(m) \in DOMAIN e /\ e[Manifest(m)] = Dir[Manifest(m)]
  BY <1>4, <1>5, <1>7 DEF PartOf
<1>12. CurrentNames(e, m, content)
  BY <1>3, <1>5, <1>7 DEF InUse, CurrentNames, PartOf
<1>13. InUse(m, v, e, content, synced)
  BY <1>3, <1>11, <1>12 DEF InUse
<1>14. todo' = << >>
  BY <1>2 DEF Ready
<1> QED
  BY <1>2, <1>9, <1>10, <1>13, <1>14 DEF Job, JobSound

-----------------------------------------------------------------------------
(* The theorem. *)

LEMMA FilesStart == FilesInit => FilesInv
<1> SUFFICES ASSUME FilesInit PROVE FilesOK /\ Job
  BY InvParts
<1>1. /\ dirs = << << >> >> /\ content = << >> /\ flushed = << >> /\ synced = << >>
      /\ todo = << >> /\ manifest = 0 /\ number = 2
  BY DEF FilesInit
<1>2. PICK e : e = << >>
  OBVIOUS
<1>3. e \in [{} -> Nat] /\ DOMAIN e = {}
  BY ONLY <1>2
<1>4. e \in Directories /\ DOMAIN e = {}
  BY ONLY <1>3 DEF Directories
<1>5. dirs = << e >> /\ dirs \in Seq(Directories) /\ Len(dirs) >= 1 /\ All = {e}
  BY <1>1, <1>2, <1>4 DEF All, DirSet
<1>6. FileTypes(content, flushed, synced, number)
  BY ONLY <1>1 DEF FileTypes
<1>7. DirSound(e, content, synced, number) /\ Apart(e, e) /\ Backed(e, e, content, synced)
  BY ONLY <1>4 DEF DirSound, DirTypes, CurrentSound, Apart, Backed
<1>8. FilesOK
  BY <1>5, <1>6, <1>7 DEF FilesOK, FilesSound
<1> QED
  BY <1>1, <1>8 DEF Job, JobSound

LEMMA FilesStep == FilesInv /\ [FilesNext]_fileVars => FilesInv'
<1> SUFFICES ASSUME FilesOK, Job, [FilesNext]_fileVars PROVE FilesOK' /\ Job'
  BY DEF FilesInv, FilesOK, Job, All
<1>1. CASE MakeCall
  BY <1>1, CallMade
<1>2. CASE CallFails
  BY <1>2, CallFailed
<1>3. CASE CreateDB
  BY <1>3, CreateDBKeeps
<1>4. CASE OpenFiles
  BY <1>4, OpenFilesKeeps
<1>5. CASE PowerLoss
  BY <1>5, PowerLost
<1>6. CASE \E gone \in {{}, version} : AddTable(gone)
  BY <1>6, AddTableKeeps
<1>7. CASE \E name \in Obsolete : DeleteObsolete(name)
  BY <1>7, DeleteKeeps
<1>8. CASE UNCHANGED fileVars
  BY <1>8 DEF fileVars, FilesOK, Job, All, Dir
<1> QED
  BY <1>1, <1>2, <1>3, <1>4, <1>5, <1>6, <1>7, <1>8 DEF FilesNext

LEMMA SoundDirectories == FilesInv => SurvivesPowerLoss
<1> SUFFICES ASSUME FilesOK, NEW k \in DOMAIN dirs, Current \in DOMAIN dirs[k],
                    NamedBy(dirs[k], content) # 1
             PROVE  Sound(dirs[k])
  BY InvParts DEF SurvivesPowerLoss
<1>1. PICK d : d = dirs[k]
  OBVIOUS
<1>2. d \in All /\ Current \in DOMAIN d
  BY <1>1 DEF FilesOK, All, DirSet
<1>3. /\ FilesSound(All, content, flushed, synced, number)
      /\ DirSound(d, content, synced, number) /\ number \in Nat
  BY <1>2 DEF FilesOK, FilesSound, FileTypes
<1>4. PICK m \in 1 .. number - 1 : /\ content[d[Current]] = << << "current", m >> >>
                                   /\ m # 1 => NamedSound(d, m, content, synced)
  BY <1>2, <1>3 DEF DirSound, CurrentSound
<1>5. NamedBy(d, content) = m
  <2>1. << << "current", m >> >>[1][2] = m
    OBVIOUS
  <2> QED
    BY <1>4, <2>1 DEF NamedBy
<1>6. m \in Nat /\ NamedSound(d, m, content, synced)
  BY <1>1, <1>3, <1>4, <1>5
<1>7. PICK q, j : q = content[d[Manifest(m)]] /\ j = synced[d[Manifest(m)]]
  OBVIOUS
<1>8. /\ Manifest(m) \in DOMAIN d /\ j > 0
      /\ \A n \in Tables(SubSeq(q, 1, j)) : Table(n) \in DOMAIN d
  BY <1>6, <1>7 DEF NamedSound
<1>9. d[Manifest(m)] \in 1 .. Len(content)
  BY <1>3, <1>8 DEF DirSound, DirTypes
<1>10. q \in Seq(Items) /\ j \in 0 .. Len(q)
  BY <1>3, <1>7, <1>9, OneFile
<1>11. ItemsBacked(q, d, synced)
  BY <1>2, <1>3, <1>6, <1>7, <1>8 DEF FilesSound, Backed
<1>12. ASSUME NEW n \in Tables(SubSeq(q, 1, j))
       PROVE  Table(n) \in DOMAIN d /\ synced[d[Table(n)]] = 1
  <2>1. \E i \in 1 .. j : i \in 1 .. Len(q) /\ n \in q[i][2]
    BY <1>10, PrefixTables
  <2> QED
    BY <1>8, <1>11, <2>1 DEF ItemsBacked, OnDisk
<1>13. synced[d[Current]] = 1
  BY <1>2, <1>3 DEF DirSound, CurrentSound
<1> QED
  BY <1>1, <1>5, <1>7, <1>8, <1>12, <1>13 DEF Sound

\* Whatever directory a power loss leaves of those that may survive, at any
\* moment of NewDB, of an opening, of a flush or compaction, of the removal of
\* obsolete files or after a failed call, if it has CURRENT then CURRENT was
\* synced and names a descriptor that is there and not empty, and every table
\* of the version on the disk is there and synced: what the order of the calls
\* in BuildTable, LogAndApply, SetCurrentFile and PosixWritableFile::Sync is
\* for.  (The first descriptor, which NewDB does not sync, is left out.)
THEOREM PowerLossSurvived == FilesSpec => []SurvivesPowerLoss
<1>1. FilesInit => FilesInv
  BY FilesStart
<1>2. FilesInv /\ [FilesNext]_fileVars => FilesInv'
  BY FilesStep
<1>3. FilesInv => SurvivesPowerLoss
  BY SoundDirectories
<1> QED
  BY <1>1, <1>2, <1>3, PTL DEF FilesSpec
=============================================================================
