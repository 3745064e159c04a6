-------------------------- MODULE Research_proofs ---------------------------
(***************************************************************************)
(* What the loaders and the backtest guarantee for every set of loaders,   *)
(* ranges and inodes, page limits, series of bars and windows: a crash     *)
(* tears no cache file, every loop fetches its range completely, every     *)
(* load that returns has the complete answer, no strategy looks ahead, the *)
(* regime gates are sticky, and every fold's books balance.                *)
(***************************************************************************)
EXTENDS Research, FoldInduction, SequenceTheorems, FiniteSetTheorems, TLAPS

(***************************************************************************)
(* Ranks: the k-th smallest of finitely many values is there, and sorting  *)
(* values that are all different loses none.                               *)
(***************************************************************************)
\* Finitely many naturals are bounded.
LEMMA ValuesBounded ==
  ASSUME NEW n \in Nat, NEW at \in SUBSET (0..n), NEW value \in [at -> Nat]
  PROVE  \E b \in Nat : \A j \in at : value[j] <= b
<1> DEFINE R == {i \in 0..n : \E b \in Nat : \A j \in at : j <= i => value[j] <= b}
<1>1. 0 \in R
  <2>1. CASE 0 \in at
    <3>1. \A j \in at : j <= 0 => j = 0
      OBVIOUS
    <3>2. value[0] \in Nat
      BY <2>1
    <3>3. \A j \in at : j <= 0 => value[j] <= value[0]
      BY <3>1, <3>2
    <3> QED
      BY <3>2, <3>3
  <2>2. CASE 0 \notin at
    <3>1. \A j \in at : ~(j <= 0)
      BY <2>2
    <3> QED
      BY <3>1
  <2> QED
    BY <2>1, <2>2
<1>2. ASSUME NEW i \in 0..n - 1, i \in R PROVE i + 1 \in R
  <2>1. PICK b \in Nat : \A j \in at : j <= i => value[j] <= b
    BY <1>2
  <2>2. PICK c \in Nat : b <= c /\ (i + 1 \in at => value[i + 1] <= c)
    <3>1. CASE i + 1 \in at /\ value[i + 1] > b
      <4>1. value[i + 1] \in Nat
        BY <3>1
      <4> QED
        BY <3>1, <4>1
    <3>2. CASE ~(i + 1 \in at /\ value[i + 1] > b)
      BY <3>2
    <3> QED
      BY <3>1, <3>2
  <2>3. \A j \in at : j <= i + 1 => value[j] <= c
    <3> TAKE j \in at
    <3>1. j \in Nat /\ value[j] \in Nat
      OBVIOUS
    <3> QED
      BY <2>1, <2>2, <3>1
  <2> QED
    BY <2>3
<1>3. 0..n \subseteq R
  <2> HIDE DEF R
  <2> QED
    BY <1>1, <1>2, UpToInduction
<1>4. n \in R
  <2> HIDE DEF R
  <2> QED
    BY <1>3
<1>5. PICK b \in Nat : \A j \in at : j <= n => value[j] <= b
  BY <1>4
<1> QED
  BY <1>5

\* Where a function is less than v, and where it is v at most.
Under(value, v) == {j \in DOMAIN value : value[j] < v}
UpTo(value, v) == {j \in DOMAIN value : value[j] <= v}

LEMMA Counts ==
  ASSUME NEW n \in Nat, NEW at \in SUBSET (0..n), NEW value \in [at -> Nat]
  PROVE  /\ IsFiniteSet(at) /\ Cardinality(at) \in Nat
         /\ \A v : /\ Cardinality(Under(value, v)) \in Nat
                   /\ Cardinality(UpTo(value, v)) \in Nat
                   /\ Cardinality(UpTo(value, v)) <= Cardinality(at)
         /\ \A v, w \in Nat : v < w =>
              Cardinality(UpTo(value, v)) <= Cardinality(Under(value, w))
<1>1. IsFiniteSet(at)
  <2>1. IsFiniteSet(0..n)
    BY FS_Interval
  <2> QED
    BY <2>1, FS_Subset
<1>2. \A v : /\ IsFiniteSet(Under(value, v)) /\ IsFiniteSet(UpTo(value, v))
             /\ Cardinality(UpTo(value, v)) <= Cardinality(at)
  <2> TAKE v
  <2>1. Under(value, v) \in SUBSET at /\ UpTo(value, v) \in SUBSET at
    BY DEF Under, UpTo
  <2> QED
    BY <1>1, <2>1, FS_Subset
<1>3. \A v, w \in Nat : v < w =>
              Cardinality(UpTo(value, v)) <= Cardinality(Under(value, w))
  <2> SUFFICES ASSUME NEW v \in Nat, NEW w \in Nat, v < w
               PROVE  Cardinality(UpTo(value, v)) <= Cardinality(Under(value, w))
    OBVIOUS
  <2>1. DOMAIN value = at /\ \A j \in at : value[j] \in Nat
    OBVIOUS
  <2>2. \A j \in at : value[j] <= v => value[j] < w
    BY <2>1
  <2>3. UpTo(value, v) \in SUBSET Under(value, w)
    BY <2>1, <2>2 DEF Under, UpTo
  <2> QED
    BY <1>2, <2>3, FS_Subset
<1> QED
  BY <1>1, <1>2, <1>3, FS_CardinalityType

\* Of k values or more there is a k-th smallest, and it is one of them.
LEMMA KthIs ==
  ASSUME NEW n \in Nat, NEW at \in SUBSET (0..n), NEW value \in [at -> Nat],
         NEW k \in Nat \ {0}, k <= Cardinality(at)
  PROVE  /\ Kth(value, k) \in {value[j] : j \in at}
         /\ Cardinality(Under(value, Kth(value, k))) < k
         /\ Cardinality(UpTo(value, Kth(value, k))) >= k
<1> DEFINE T == {v \in Nat : Cardinality(UpTo(value, v)) >= k}
<1>0. \A j \in at : value[j] \in Nat
  OBVIOUS
<1>1. DOMAIN value = at
  OBVIOUS
<1>2. \A v : Cardinality(Under(value, v)) \in Nat /\ Cardinality(UpTo(value, v)) \in Nat
  BY Counts
<1>3. T # {}
  <2>1. PICK b \in Nat : \A j \in at : value[j] <= b
    BY ValuesBounded
  <2>2. UpTo(value, b) = at
    BY <2>1 DEF UpTo
  <2>3. Cardinality(UpTo(value, b)) >= k
    BY <1>2, <2>2
  <2> QED
    BY <2>3
<1>4. PICK v \in T : \A w \in T : v <= w
  <2>1. T \subseteq Nat
    OBVIOUS
  <2> HIDE DEF T
  <2> QED
    BY <1>3, <2>1, LeastNat
<1>5. v \in Nat /\ Cardinality(UpTo(value, v)) >= k
  BY <1>4
<1>6. Cardinality(Under(value, v)) < k
  <2>1. CASE v = 0
    <3>1. \A j \in at : ~(value[j] < v)
      BY <1>0, <2>1
    <3>2. Under(value, v) = {}
      BY <1>1, <3>1 DEF Under
    <3> QED
      BY <3>2, FS_EmptySet
  <2>2. CASE v # 0
    <3>1. v - 1 \in Nat /\ v - 1 \notin T
      <4>1. v - 1 \in Nat /\ ~(v <= v - 1)
        BY <1>5, <2>2
      <4> HIDE DEF T
      <4> QED
        BY <1>4, <4>1
    <3>2. Under(value, v) = UpTo(value, v - 1)
      <4>1. \A j \in at : value[j] < v <=> value[j] <= v - 1
        BY <1>0, <1>5
      <4> QED
        BY <1>1, <4>1 DEF Under, UpTo
    <3>3. ~(Cardinality(UpTo(value, v - 1)) >= k)
      BY <3>1
    <3> QED
      BY <1>2, <3>2, <3>3
  <2> QED
    BY <2>1, <2>2
<1>7. v \in {value[j] : j \in at}
  <2>1. CASE \A j \in at : value[j] # v
    <3>1. \A j \in at : value[j] < v <=> value[j] <= v
      BY <1>0, <1>5, <2>1
    <3>2. Under(value, v) = UpTo(value, v)
      BY <1>1, <3>1 DEF Under, UpTo
    <3>3. Cardinality(UpTo(value, v)) < k
      BY <1>6, <3>2
    <3> QED
      BY <1>2, <1>5, <3>3
  <2> QED
    BY <2>1
<1>8. \E w \in {value[j] : j \in DOMAIN value} :
        /\ Cardinality({j \in DOMAIN value : value[j] < w}) < k
        /\ Cardinality({j \in DOMAIN value : value[j] <= w}) >= k
  BY <1>1, <1>5, <1>6, <1>7 DEF Under, UpTo
<1> QED
  BY <1>1, <1>8 DEF Kth, Under, UpTo

Increasing(rows) == \A i, j \in DOMAIN rows : i < j => rows[i] < rows[j]

LEMMA SortedIs ==
  ASSUME NEW n \in Nat, NEW at \in SUBSET (0..n), NEW value \in [at -> Nat],
         \A i, j \in at : value[i] = value[j] => i = j
  PROVE  /\ Sorted(value) \in Seq(Nat)
         /\ Increasing(Sorted(value))
         /\ Range(Sorted(value)) = Range(value)
<1> DEFINE c == Cardinality(at)
           s == Sorted(value)
           under(v) == Cardinality(Under(value, v))
           upto(v) == Cardinality(UpTo(value, v))
<1>1. /\ c \in Nat /\ DOMAIN value = at
      /\ \A v : under(v) \in Nat /\ upto(v) \in Nat /\ upto(v) <= c
      /\ \A v, w \in Nat : v < w => upto(v) <= under(w)
  BY Counts
<1>2. s = [k \in 1..c |-> Kth(value, k)]
  BY <1>1 DEF Sorted
<1> HIDE DEF c, s
<1>3. ASSUME NEW k \in 1..c
      PROVE  /\ s[k] \in {value[j] : j \in at} /\ s[k] \in Nat
             /\ under(s[k]) < k /\ upto(s[k]) >= k
  <2>1. k \in Nat \ {0} /\ k <= Cardinality(at)
    BY <1>1 DEF c
  <2>2. s[k] = Kth(value, k)
    BY <1>2
  <2> QED
    BY <2>1, <2>2, KthIs
<1>4. ASSUME NEW d \in at PROVE value[d] \in Nat /\ upto(value[d]) = under(value[d]) + 1
  <2>1. value[d] \in Nat /\ \A j \in at : value[j] \in Nat
    OBVIOUS
  <2>2. UpTo(value, value[d]) = Under(value, value[d]) \cup {d}
    <3>1. \A j \in at : value[j] <= value[d] <=> value[j] < value[d] \/ j = d
      BY <2>1
    <3> QED
      BY <1>1, <3>1 DEF Under, UpTo
  <2>3. d \notin Under(value, value[d])
    BY <2>1 DEF Under
  <2>4. IsFiniteSet(Under(value, value[d]))
    <3>1. Under(value, value[d]) \in SUBSET at
      BY <1>1 DEF Under
    <3> QED
      BY <3>1, Counts, FS_Subset
  <2> QED
    BY <2>1, <2>2, <2>3, <2>4, FS_AddElement
<1> HIDE DEF under, upto
<1>5. ASSUME NEW i \in 1..c, NEW j \in 1..c, i < j PROVE s[i] < s[j]
  <2>1. /\ s[i] \in Nat /\ s[j] \in Nat
        /\ under(s[i]) < i /\ upto(s[i]) >= i /\ under(s[j]) < j /\ upto(s[j]) >= j
    BY <1>3
  <2>2. PICK d \in at : s[i] = value[d]
    BY <1>3
  <2>3. upto(s[i]) = under(s[i]) + 1
    BY <1>4, <2>2
  <2>4. /\ under(s[i]) \in Nat /\ upto(s[i]) \in Nat
        /\ under(s[j]) \in Nat /\ upto(s[j]) \in Nat /\ i \in Nat /\ j \in Nat
    BY <1>1
  <2>5. s[i] # s[j]
    BY <1>5, <2>1, <2>3, <2>4
  <2>6. ~(s[j] < s[i])
    <3>1. s[j] < s[i] => upto(s[j]) <= under(s[i])
      BY <1>1, <2>1
    <3> QED
      BY <1>5, <2>1, <2>4, <3>1
  <2> QED
    BY <2>1, <2>5, <2>6
<1>6. ASSUME NEW d \in at PROVE \E k \in 1..c : s[k] = value[d]
  <2> DEFINE v == value[d]
             k == under(v) + 1
  <2>1. v \in Nat /\ upto(v) = under(v) + 1 /\ under(v) \in Nat /\ upto(v) <= c
    BY <1>1, <1>4
  <2> HIDE DEF v
  <2>2. k \in 1..c /\ upto(v) = k
    BY <1>1, <2>1
  <2> HIDE DEF k
  <2>3. s[k] \in Nat /\ under(s[k]) < k /\ upto(s[k]) >= k /\ under(s[k]) \in Nat /\ upto(s[k]) \in Nat
    BY <1>1, <1>3, <2>2
  <2>4. ~(s[k] < v)
    <3>1. s[k] < v => upto(s[k]) <= under(v)
      BY <1>1, <2>1, <2>3
    <3> QED
      BY <2>1, <2>2, <2>3, <3>1
  <2>5. ~(v < s[k])
    <3>1. v < s[k] => upto(v) <= under(s[k])
      BY <1>1, <2>1, <2>3
    <3> QED
      BY <2>1, <2>2, <2>3, <3>1
  <2>6. s[k] = v
    BY <2>1, <2>3, <2>4, <2>5
  <2> QED
    BY <2>2, <2>6 DEF v
<1>7. s \in Seq(Nat) /\ DOMAIN s = 1..c
  <2>1. s \in [1..c -> Nat]
    BY <1>2, <1>3
  <2> QED
    BY <1>1, <2>1
<1>8. Increasing(s)
  BY <1>5, <1>7 DEF Increasing
<1>9. Range(s) = Range(value)
  <2>1. \A x : x \in Range(s) <=> \E k \in 1..c : x = s[k]
    BY <1>7 DEF Range
  <2>2. \A x : x \in Range(value) <=> \E d \in at : x = value[d]
    BY <1>1 DEF Range
  <2>3. \A k \in 1..c : \E d \in at : s[k] = value[d]
    BY <1>3
  <2> QED
    BY <1>6, <2>1, <2>2, <2>3
<1> QED
  BY <1>7, <1>8, <1>9 DEF s

(***************************************************************************)
(* The cache.  Loading and Storing name the states of a loader; a loader   *)
(* that fails, crashes or finishes is in neither.                          *)
(***************************************************************************)
Fields == {"pc", "range", "cursor", "got", "pages", "inode"}
Busy == {"read", "corrupt", "fetch", "store", "write", "rename"}
Names == Inodes \cup {0}

\* What the variables are made of.
CacheShape ==
  /\ DOMAIN load = Loaders
  /\ \A l \in Loaders :
       /\ DOMAIN load[l] = Fields
       /\ load[l].pc \in Busy => load[l].range \in Ranges
       /\ load[l].pc \in {"write", "rename"} => load[l].inode \in Inodes
  /\ tmp \in [Ranges -> Names]
  /\ file \in [Ranges -> Names]
  /\ DOMAIN disk = Inodes
  /\ \A i \in Inodes :
       DOMAIN disk[i] = {"whole", "bars", "by"} /\ disk[i].whole \in BOOLEAN
  /\ shared \subseteq Ranges

\* A temporary file is the file of no other name: opening it tears no cache file.
NamesApart ==
  \A k, k2 \in Ranges : tmp[k] # 0 =>
    /\ tmp[k] # file[k2]
    /\ tmp[k] = tmp[k2] => k = k2

\* A loader that stores a range on its own has its temporary file to itself, and
\* has it whole when it renames it.
OwnFile ==
  \A l \in Loaders, k \in Ranges : Storing(l, k) /\ k \notin shared =>
    /\ tmp[k] = load[l].inode
    /\ load[l].pc = "write" => disk[load[l].inode].by = l
    /\ load[l].pc = "rename" => disk[load[l].inode].whole
    /\ \A p \in Loaders : Storing(p, k) => p = l

CacheInv == CacheShape /\ NamesApart /\ OwnFile /\ CrashKeepsCache

LEMMA CacheInit == HistoryInit => CacheInv
<1> SUFFICES ASSUME HistoryInit PROVE CacheInv
  OBVIOUS
<1> USE DEF HistoryInit
<1>1. \A l \in Loaders : load[l] = Idle /\ load[l].pc = "idle"
  BY DEF Idle
<1>2. CacheShape
  <2>1. DOMAIN load = Loaders
    OBVIOUS
  <2>2. \A l \in Loaders : DOMAIN load[l] = Fields /\ load[l].pc \notin Busy \cup {"write", "rename"}
    BY <1>1 DEF Idle, Fields, Busy
  <2>3. tmp \in [Ranges -> Names] /\ file \in [Ranges -> Names]
    BY DEF Names
  <2>4. DOMAIN disk = Inodes /\ \A i \in Inodes :
          DOMAIN disk[i] = {"whole", "bars", "by"} /\ disk[i].whole \in BOOLEAN
    OBVIOUS
  <2> QED
    BY <2>1, <2>2, <2>3, <2>4 DEF CacheShape
<1>3. NamesApart
  BY DEF NamesApart
<1>4. OwnFile
  BY <1>1 DEF OwnFile, Storing
<1>5. CrashKeepsCache
  BY DEF CrashKeepsCache
<1> QED
  BY <1>2, <1>3, <1>4, <1>5 DEF CacheInv

\* A step that moves one loader to a state in which it stores nothing, leaves the
\* files' contents alone and at most unlinks cache files keeps the invariant.
LEMMA LoaderMoves ==
  ASSUME CacheInv, NEW l \in Loaders,
         DOMAIN load' = Loaders,
         \A p \in Loaders : p # l => load'[p] = load[p],
         DOMAIN load[l]' = Fields,
         load[l].pc' \notin {"write", "rename"},
         load[l].pc' \in Busy => load[l].range' \in Ranges,
         UNCHANGED <<tmp, disk, shared>>,
         file' \in [Ranges -> Names],
         \A k \in Ranges : file'[k] \in {file[k], 0}
  PROVE  CacheInv'
<1> USE DEF CacheInv
<1>1. CacheShape'
  BY DEF CacheShape
<1>2. NamesApart'
  BY DEF NamesApart
<1>3. \A p \in Loaders, k \in Ranges : Storing(p, k)' => p # l /\ Storing(p, k)
  BY DEF Storing, NameOf, Key
<1>4. OwnFile'
  BY <1>3 DEF OwnFile
<1>5. CrashKeepsCache'
  BY DEF CrashKeepsCache
<1> QED
  BY <1>1, <1>2, <1>4, <1>5

\* The cursor loops change the answer and where the loader stands, no more.
LEMMA AnswerMoves ==
  ASSUME CacheInv, NEW l \in Loaders, load[l].pc = "fetch",
         NEW days, NEW next, NEW more, Answer(l, days, next, more)
  PROVE  /\ DOMAIN load' = Loaders
         /\ \A p \in Loaders : p # l => load'[p] = load[p]
         /\ DOMAIN load[l]' = Fields
         /\ load[l].pc' \in {"fetch", "store"}
         /\ load[l].range' = load[l].range
<1> DEFINE rows == load[l].got \o Ordered(days)
           got == IF more THEN rows ELSE Tidy(rows)
           cursor == IF more THEN next ELSE 0
           pages == IF more THEN load[l].pages + 1 ELSE 0
           pc == IF more THEN "fetch" ELSE "store"
<1>1. load' = [load EXCEPT ![l].got = got, ![l].cursor = cursor,
                           ![l].pages = pages, ![l].pc = pc]
  BY DEF Answer
<1>2. pc \in {"fetch", "store"}
  OBVIOUS
<1> HIDE DEF got, cursor, pages, pc
<1>3. DOMAIN load = Loaders /\ DOMAIN load[l] = Fields
  BY DEF CacheInv, CacheShape
<1> QED
  BY <1>1, <1>2, <1>3 DEF Fields

LEMMA PageKeeps ==
  ASSUME CacheInv, NEW l \in Loaders, Page(l)
  PROVE  CacheInv'
<1>1. load[l].pc = "fetch" /\ UNCHANGED <<tmp, file, disk, shared>>
  BY DEF Page
<1>2. \E days, next, more : Answer(l, days, next, more)
  BY DEF Page, AlpacaPage, BinancePage, BitstampPage, KrakenPage,
         CryptoComparePage, CoinGeckoPage
<1>3. PICK days, next, more : Answer(l, days, next, more)
  BY <1>2
<1>4. /\ DOMAIN load' = Loaders
      /\ \A p \in Loaders : p # l => load'[p] = load[p]
      /\ DOMAIN load[l]' = Fields
      /\ load[l].pc' \in {"fetch", "store"}
      /\ load[l].range' = load[l].range
  BY <1>1, <1>3, AnswerMoves
<1>5. load[l].range \in Ranges /\ file \in [Ranges -> Names]
  BY <1>1 DEF CacheInv, CacheShape, Busy
<1> QED
  BY <1>1, <1>4, <1>5, LoaderMoves

\* A failure, a crash, the start of a load: the loader's record is a new one.
LEMMA FreshRecord ==
  ASSUME CacheInv, NEW l \in Loaders, NEW r, load' = [load EXCEPT ![l] = r],
         DOMAIN r = Fields, r.pc \notin {"write", "rename"},
         r.pc \in Busy => r.range \in Ranges,
         UNCHANGED <<tmp, file, disk, shared>>
  PROVE  CacheInv'
<1>1. DOMAIN load = Loaders /\ file \in [Ranges -> Names]
  BY DEF CacheInv, CacheShape
<1>2. DOMAIN load' = Loaders /\ load[l]' = r
  BY <1>1
<1>3. \A p \in Loaders : p # l => load'[p] = load[p]
  BY <1>1
<1> QED
  BY <1>1, <1>2, <1>3, LoaderMoves

LEMMA FailKeeps ==
  ASSUME CacheInv, NEW l \in Loaders, Fail(l), UNCHANGED <<tmp, file, disk, shared>>
  PROVE  CacheInv'
<1> DEFINE r == [Idle EXCEPT !.pc = "failed"]
<1>1. DOMAIN r = Fields /\ r.pc = "failed"
  BY DEF Idle, Fields
<1>2. load' = [load EXCEPT ![l] = r]
  BY DEF Fail
<1>3. r.pc \notin {"write", "rename"} /\ r.pc \notin Busy
  BY <1>1 DEF Busy
<1> HIDE DEF r
<1> QED
  BY <1>1, <1>2, <1>3, FreshRecord

LEMMA LoadKeeps ==
  ASSUME CacheInv, NEW l \in Loaders, NEW range \in Ranges, NEW refresh \in BOOLEAN,
         Load(l, range, refresh)
  PROVE  CacheInv'
<1> DEFINE pc == IF file[Key(range)] # 0 /\ ~refresh THEN "read" ELSE "fetch"
           cursor == FirstCursor(range)
           r == [Idle EXCEPT !.range = range, !.pc = pc, !.cursor = cursor]
<1>1. load' = [load EXCEPT ![l] = r] /\ UNCHANGED <<tmp, file, disk, shared>>
  BY DEF Load
<1>2. pc \in {"read", "fetch"}
  OBVIOUS
<1> HIDE DEF pc, cursor
<1>3. DOMAIN r = Fields /\ r.pc = pc /\ r.range = range
  BY DEF Idle, Fields
<1> HIDE DEF r
<1> QED
  BY <1>1, <1>2, <1>3, FreshRecord

LEMMA CrashKeeps ==
  ASSUME CacheInv, NEW l \in Loaders, Crash(l)
  PROVE  CacheInv'
<1>1. load' = [load EXCEPT ![l] = Idle] /\ UNCHANGED <<tmp, file, disk, shared>>
  BY DEF Crash
<1>2. DOMAIN Idle = Fields /\ Idle.pc = "idle" /\ Idle.pc \notin Busy
  BY DEF Idle, Fields, Busy
<1> QED
  BY <1>1, <1>2, FreshRecord

LEMMA ReadKeeps ==
  ASSUME CacheInv, NEW l \in Loaders, Read(l)
  PROVE  CacheInv'
<1>1. UNCHANGED <<tmp, file, disk, shared>> /\ load[l].pc = "read"
  BY DEF Read
<1>2. CASE file[NameOf(l)] = 0
  BY <1>1, <1>2, FailKeeps DEF Read
<1>3. CASE file[NameOf(l)] # 0
  <2> DEFINE i == file[NameOf(l)]
             pc == IF disk[i].whole THEN "done" ELSE "corrupt"
             got == IF disk[i].whole THEN disk[i].bars ELSE <<>>
  <2>1. load' = [load EXCEPT ![l].pc = pc, ![l].got = got]
    BY <1>3 DEF Read
  <2>2. pc \in {"done", "corrupt"}
    OBVIOUS
  <2> HIDE DEF i, pc, got
  <2>3. /\ DOMAIN load = Loaders /\ DOMAIN load[l] = Fields
        /\ load[l].range \in Ranges /\ file \in [Ranges -> Names]
    BY <1>1 DEF CacheInv, CacheShape, Busy
  <2>4. /\ DOMAIN load' = Loaders
        /\ \A p \in Loaders : p # l => load'[p] = load[p]
        /\ DOMAIN load[l]' = Fields
        /\ load[l].pc' \in {"done", "corrupt"}
        /\ load[l].range' = load[l].range
    BY <2>1, <2>2, <2>3 DEF Fields
  <2> QED
    BY <1>1, <2>3, <2>4, LoaderMoves
<1> QED
  BY <1>2, <1>3

LEMMA DiscardKeeps ==
  ASSUME CacheInv, NEW l \in Loaders, Discard(l)
  PROVE  CacheInv'
<1>1. /\ load' = [load EXCEPT ![l].pc = "fetch"]
      /\ file' = [file EXCEPT ![NameOf(l)] = 0]
      /\ load[l].pc = "corrupt"
      /\ UNCHANGED <<tmp, disk, shared>>
  BY DEF Discard
<1>2. /\ DOMAIN load = Loaders /\ DOMAIN load[l] = Fields
      /\ load[l].range \in Ranges /\ file \in [Ranges -> Names]
  BY <1>1 DEF CacheInv, CacheShape, Busy
<1>3. /\ DOMAIN load' = Loaders
      /\ \A p \in Loaders : p # l => load'[p] = load[p]
      /\ DOMAIN load[l]' = Fields
      /\ load[l].pc' = "fetch"
      /\ load[l].range' = load[l].range
  BY <1>1, <1>2 DEF Fields
<1>4. /\ file' \in [Ranges -> Names]
      /\ \A k \in Ranges : file'[k] \in {file[k], 0}
  BY <1>1, <1>2 DEF Names
<1> QED
  BY <1>1, <1>2, <1>3, <1>4, LoaderMoves

\* What opening the temporary file does: it is the loader's from now on, and not
\* the file of any name but its own temporary one.
LEMMA OpenedFile ==
  ASSUME CacheInv, NEW l \in Loaders, load[l].pc = "store",
         NEW i \in Inode(tmp[NameOf(l)])
  PROVE  /\ i \in Inodes /\ i # 0 /\ NameOf(l) \in Ranges
         /\ \A k \in Ranges : file[k] # i
         /\ \A k \in Ranges : k # NameOf(l) => tmp[k] # i
         /\ \A p \in Loaders, k \in Ranges :
              Storing(p, k) /\ k \notin shared /\ k # NameOf(l) => load[p].inode # i
<1>1. NameOf(l) \in Ranges /\ 0 \notin Inodes
  BY HistoryAssumption DEF CacheInv, CacheShape, Busy, NameOf, Key
<1>2. CASE tmp[NameOf(l)] # 0
  <2>1. i = tmp[NameOf(l)] /\ i \in Inodes
    BY <1>1, <1>2 DEF Inode, CacheInv, CacheShape, Names
  <2>2. /\ \A k \in Ranges : file[k] # i
        /\ \A k \in Ranges : k # NameOf(l) => tmp[k] # i
    BY <1>1, <1>2, <2>1 DEF CacheInv, NamesApart
  <2>3. \A p \in Loaders, k \in Ranges :
          Storing(p, k) /\ k \notin shared => tmp[k] = load[p].inode
    BY DEF CacheInv, OwnFile
  <2> QED
    BY <1>1, <2>1, <2>2, <2>3
<1>3. CASE tmp[NameOf(l)] = 0
  <2>1. i \in {j \in Inodes : Free(j)}
    BY <1>3 DEF Inode, First
  <2> QED
    BY <1>1, <2>1 DEF Free
<1> QED
  BY <1>2, <1>3

LEMMA OpenTmpKeeps ==
  ASSUME CacheInv, NEW l \in Loaders, OpenTmp(l)
  PROVE  CacheInv'
<1>1. PICK i \in Inode(tmp[NameOf(l)]) :
        Truncate(l, i) /\ tmp' = [tmp EXCEPT ![NameOf(l)] = i]
  BY DEF OpenTmp
<1>2. load[l].pc = "store" /\ file' = file
  BY DEF OpenTmp
<1> DEFINE name == NameOf(l)
<1>3. /\ i \in Inodes /\ i # 0 /\ name \in Ranges
      /\ \A k \in Ranges : file[k] # i
      /\ \A k \in Ranges : k # name => tmp[k] # i
      /\ \A p \in Loaders, k \in Ranges :
           Storing(p, k) /\ k \notin shared /\ k # name => load[p].inode # i
  BY <1>2, OpenedFile
<1>4. /\ DOMAIN load = Loaders
      /\ \A p \in Loaders :
           /\ DOMAIN load[p] = Fields
           /\ load[p].pc \in Busy => load[p].range \in Ranges
           /\ load[p].pc \in {"write", "rename"} => load[p].inode \in Inodes
      /\ tmp \in [Ranges -> Names] /\ file \in [Ranges -> Names]
      /\ DOMAIN disk = Inodes
      /\ \A j \in Inodes :
           DOMAIN disk[j] = {"whole", "bars", "by"} /\ disk[j].whole \in BOOLEAN
      /\ shared \subseteq Ranges
  BY DEF CacheInv, CacheShape
<1>5. load' = [load EXCEPT ![l].pc = "write", ![l].inode = i]
  BY <1>1 DEF Truncate
<1>6. /\ DOMAIN load' = Loaders
      /\ \A p \in Loaders : p # l => load'[p] = load[p]
      /\ DOMAIN load'[l] = Fields
      /\ load'[l].pc = "write" /\ load'[l].inode = i
      /\ load'[l].range = load[l].range
  BY <1>4, <1>5 DEF Fields
<1>7. /\ DOMAIN disk' = Inodes
      /\ \A j \in Inodes : j # i => disk'[j] = disk[j]
      /\ DOMAIN disk'[i] = {"whole", "bars", "by"}
      /\ disk'[i].whole = FALSE /\ disk'[i].by = l
  BY <1>1, <1>3, <1>4 DEF Truncate
<1>8. /\ shared \subseteq shared' /\ shared' \subseteq Ranges
      /\ \A p \in Loaders : Storing(p, name) => name \in shared'
  BY <1>1, <1>3, <1>4 DEF Truncate
<1>9. /\ tmp' \in [Ranges -> Names] /\ tmp'[name] = i
      /\ \A k \in Ranges : k # name => tmp'[k] = tmp[k]
  BY <1>1, <1>3, <1>4 DEF Names
<1>10. /\ \A p \in Loaders, k \in Ranges : p # l => (Storing(p, k)' <=> Storing(p, k))
       /\ \A k \in Ranges : Storing(l, k)' <=> k = name
       /\ \A k \in Ranges : ~Storing(l, k)
  BY <1>2, <1>6 DEF Storing, NameOf, Key
<1> HIDE DEF name
<1>11. CacheShape'
  <2>1. load[l].range \in Ranges
    BY <1>2, <1>4 DEF Busy
  <2>2. \A p \in Loaders :
          /\ DOMAIN load'[p] = Fields
          /\ load'[p].pc \in Busy => load'[p].range \in Ranges
          /\ load'[p].pc \in {"write", "rename"} => load'[p].inode \in Inodes
    BY <1>3, <1>4, <1>6, <2>1
  <2>3. \A j \in Inodes :
          DOMAIN disk'[j] = {"whole", "bars", "by"} /\ disk'[j].whole \in BOOLEAN
    BY <1>4, <1>7
  <2>4. file' \in [Ranges -> Names]
    BY <1>2, <1>4
  <2> QED
    BY <1>6, <1>7, <1>8, <1>9, <2>2, <2>3, <2>4 DEF CacheShape
<1>12. NamesApart'
  <2> SUFFICES ASSUME NEW k \in Ranges, NEW k2 \in Ranges, tmp'[k] # 0
               PROVE  tmp'[k] # file'[k2] /\ (tmp'[k] = tmp'[k2] => k = k2)
    BY DEF NamesApart
  <2>1. tmp[k] # 0 => tmp[k] # file[k2] /\ (tmp[k] = tmp[k2] => k = k2)
    BY DEF CacheInv, NamesApart
  <2> QED
    BY <1>2, <1>3, <1>9, <2>1
<1>13. OwnFile'
  <2> SUFFICES ASSUME NEW p \in Loaders, NEW k \in Ranges,
                      Storing(p, k)', k \notin shared'
               PROVE  /\ tmp'[k] = load'[p].inode
                      /\ load'[p].pc = "write" => disk'[load'[p].inode].by = p
                      /\ load'[p].pc = "rename" => disk'[load'[p].inode].whole
                      /\ \A q \in Loaders : Storing(q, k)' => q = p
    BY DEF OwnFile
  <2>1. CASE p = l
    <3>1. k = name
      BY <1>10, <2>1
    <3>2. \A q \in Loaders : Storing(q, k)' => q = l
      BY <1>8, <1>10, <3>1
    <3> QED
      BY <1>6, <1>7, <1>9, <2>1, <3>1, <3>2
  <2>2. CASE p # l
    <3>1. Storing(p, k) /\ k \notin shared /\ k # name
      BY <1>8, <1>10, <2>2
    <3>2. /\ tmp[k] = load[p].inode
          /\ load[p].pc = "write" => disk[load[p].inode].by = p
          /\ load[p].pc = "rename" => disk[load[p].inode].whole
          /\ \A q \in Loaders : Storing(q, k) => q = p
      BY <3>1 DEF CacheInv, OwnFile
    <3>3. load[p].inode # i /\ load[p].inode \in Inodes
      BY <1>3, <1>4, <3>1 DEF Storing
    <3>4. load'[p] = load[p] /\ disk'[load[p].inode] = disk[load[p].inode]
      BY <1>6, <1>7, <2>2, <3>3
    <3>5. \A q \in Loaders : Storing(q, k)' => q = p
      BY <1>10, <3>1, <3>2
    <3> QED
      BY <1>9, <3>1, <3>2, <3>4, <3>5
  <2> QED
    BY <2>1, <2>2
<1>14. CrashKeepsCache'
  <2> SUFFICES ASSUME NEW k \in Ranges, file'[k] # 0, ~disk'[file'[k]].whole
               PROVE  k \in shared'
    BY DEF CrashKeepsCache
  <2>1. file[k] \in Inodes /\ file[k] # i
    BY <1>2, <1>3, <1>4 DEF Names
  <2>2. ~disk[file[k]].whole
    BY <1>2, <1>7, <2>1
  <2> QED
    BY <1>2, <1>8, <2>2 DEF CacheInv, CrashKeepsCache
<1> QED
  BY <1>11, <1>12, <1>13, <1>14 DEF CacheInv

LEMMA WriteKeeps ==
  ASSUME CacheInv, NEW l \in Loaders, Write(l)
  PROVE  CacheInv'
<1> DEFINE i == load[l].inode
<1>1. /\ load[l].pc = "write" /\ UNCHANGED <<tmp, file, shared>>
      /\ load' = [load EXCEPT ![l].pc = "rename"]
  BY DEF Write
<1>2. PICK whole \in {TRUE} \cup IF disk[i].by = l THEN {} ELSE {disk[i].whole} :
        disk' = [disk EXCEPT ![i].whole = whole]
  BY DEF Write
<1>3. /\ DOMAIN load = Loaders
      /\ \A p \in Loaders :
           /\ DOMAIN load[p] = Fields
           /\ load[p].pc \in Busy => load[p].range \in Ranges
           /\ load[p].pc \in {"write", "rename"} => load[p].inode \in Inodes
      /\ tmp \in [Ranges -> Names] /\ file \in [Ranges -> Names]
      /\ DOMAIN disk = Inodes
      /\ \A j \in Inodes :
           DOMAIN disk[j] = {"whole", "bars", "by"} /\ disk[j].whole \in BOOLEAN
      /\ shared \subseteq Ranges
  BY DEF CacheInv, CacheShape
<1>4. i \in Inodes /\ whole \in BOOLEAN
  BY <1>1, <1>2, <1>3
<1>5. (disk[i].whole => whole) /\ (disk[i].by = l => whole)
  BY <1>2
<1>6. /\ DOMAIN disk' = Inodes
      /\ \A j \in Inodes : j # i => disk'[j] = disk[j]
      /\ DOMAIN disk'[i] = {"whole", "bars", "by"}
      /\ disk'[i].whole = whole /\ disk'[i].by = disk[i].by
  BY <1>2, <1>3, <1>4
<1>7. \A j \in Inodes : /\ disk'[j].by = disk[j].by
                        /\ disk[j].whole => disk'[j].whole
                        /\ disk'[j].whole \in BOOLEAN
                        /\ DOMAIN disk'[j] = {"whole", "bars", "by"}
  BY <1>3, <1>4, <1>5, <1>6
<1>8. /\ DOMAIN load' = Loaders
      /\ \A p \in Loaders : p # l => load'[p] = load[p]
      /\ DOMAIN load'[l] = Fields
      /\ load'[l].pc = "rename" /\ load'[l].inode = i
      /\ load'[l].range = load[l].range
  BY <1>1, <1>3 DEF Fields
<1>9. \A p \in Loaders, k \in Ranges : Storing(p, k)' <=> Storing(p, k)
  BY <1>1, <1>8 DEF Storing, NameOf, Key
<1> HIDE DEF i
<1>10. CacheShape'
  <2>1. load[l].range \in Ranges
    BY <1>1, <1>3 DEF Busy
  <2>2. \A p \in Loaders :
          /\ DOMAIN load'[p] = Fields
          /\ load'[p].pc \in Busy => load'[p].range \in Ranges
          /\ load'[p].pc \in {"write", "rename"} => load'[p].inode \in Inodes
    BY <1>3, <1>4, <1>8, <2>1
  <2> QED
    BY <1>1, <1>3, <1>6, <1>7, <1>8, <2>2 DEF CacheShape
<1>11. NamesApart'
  BY <1>1 DEF CacheInv, NamesApart
<1>12. OwnFile'
  <2> SUFFICES ASSUME NEW p \in Loaders, NEW k \in Ranges,
                      Storing(p, k)', k \notin shared'
               PROVE  /\ tmp'[k] = load'[p].inode
                      /\ load'[p].pc = "write" => disk'[load'[p].inode].by = p
                      /\ load'[p].pc = "rename" => disk'[load'[p].inode].whole
                      /\ \A q \in Loaders : Storing(q, k)' => q = p
    BY DEF OwnFile
  <2>1. /\ Storing(p, k) /\ k \notin shared
        /\ tmp[k] = load[p].inode
        /\ load[p].pc = "write" => disk[load[p].inode].by = p
        /\ load[p].pc = "rename" => disk[load[p].inode].whole
        /\ \A q \in Loaders : Storing(q, k) => q = p
    BY <1>1, <1>9 DEF CacheInv, OwnFile
  <2>2. load[p].inode \in Inodes /\ load'[p].inode = load[p].inode
    BY <1>3, <1>4, <1>8, <2>1 DEF Storing, i
  <2>3. CASE p = l
    <3>1. disk[i].by = l
      BY <1>1, <2>1, <2>3 DEF i
    <3> QED
      BY <1>1, <1>5, <1>6, <1>8, <1>9, <2>1, <2>2, <2>3, <3>1 DEF i
  <2>4. CASE p # l
    BY <1>1, <1>7, <1>8, <1>9, <2>1, <2>2, <2>4
  <2> QED
    BY <2>3, <2>4
<1>13. CrashKeepsCache'
  <2> SUFFICES ASSUME NEW k \in Ranges, file'[k] # 0, ~disk'[file'[k]].whole
               PROVE  k \in shared'
    BY DEF CrashKeepsCache
  <2>1. file[k] \in Inodes
    BY <1>1, <1>3 DEF Names
  <2> QED
    BY <1>1, <1>7, <2>1 DEF CacheInv, CrashKeepsCache
<1> QED
  BY <1>10, <1>11, <1>12, <1>13 DEF CacheInv

LEMMA RenameKeeps ==
  ASSUME CacheInv, NEW l \in Loaders, Rename(l)
  PROVE  CacheInv'
<1> DEFINE name == NameOf(l)
<1>1. load[l].pc = "rename" /\ UNCHANGED <<disk, shared>>
  BY DEF Rename
<1>2. CASE tmp[name] = 0
  BY <1>1, <1>2, FailKeeps DEF Rename
<1>3. CASE tmp[name] # 0
  <2>1. /\ file' = [file EXCEPT ![name] = tmp[name]]
        /\ tmp' = [tmp EXCEPT ![name] = 0]
        /\ load' = [load EXCEPT ![l].pc = "done", ![l].inode = 0]
    BY <1>3 DEF Rename
  <2>2. /\ DOMAIN load = Loaders
        /\ \A p \in Loaders :
             /\ DOMAIN load[p] = Fields
             /\ load[p].pc \in Busy => load[p].range \in Ranges
             /\ load[p].pc \in {"write", "rename"} => load[p].inode \in Inodes
        /\ tmp \in [Ranges -> Names] /\ file \in [Ranges -> Names]
        /\ shared \subseteq Ranges
    BY DEF CacheInv, CacheShape
  <2>3. name \in Ranges /\ Storing(l, name)
    BY <1>1, <2>2 DEF Busy, Storing, NameOf, Key
  <2>4. /\ tmp' \in [Ranges -> Names] /\ tmp'[name] = 0
        /\ \A k \in Ranges : k # name => tmp'[k] = tmp[k]
        /\ file' \in [Ranges -> Names] /\ file'[name] = tmp[name]
        /\ \A k \in Ranges : k # name => file'[k] = file[k]
    BY <2>1, <2>2, <2>3 DEF Names
  <2>5. /\ DOMAIN load' = Loaders
        /\ \A p \in Loaders : p # l => load'[p] = load[p]
        /\ DOMAIN load'[l] = Fields
        /\ load'[l].pc = "done"
    BY <2>1, <2>2 DEF Fields
  <2>6. \A p \in Loaders, k \in Ranges : Storing(p, k)' => p # l /\ Storing(p, k)
    BY <2>5 DEF Storing, NameOf, Key
  <2> HIDE DEF name
  <2>7. CacheShape'
    <3>1. \A p \in Loaders :
            /\ DOMAIN load'[p] = Fields
            /\ load'[p].pc \in Busy => load'[p].range \in Ranges
            /\ load'[p].pc \in {"write", "rename"} => load'[p].inode \in Inodes
      BY <2>2, <2>5 DEF Busy
    <3> QED
      BY <1>1, <2>4, <2>5, <3>1 DEF CacheInv, CacheShape
  <2>8. NamesApart'
    <3> SUFFICES ASSUME NEW k \in Ranges, NEW k2 \in Ranges, tmp'[k] # 0
                 PROVE  tmp'[k] # file'[k2] /\ (tmp'[k] = tmp'[k2] => k = k2)
      BY DEF NamesApart
    <3>1. /\ tmp[k] # 0 => tmp[k] # file[k2] /\ (tmp[k] = tmp[k2] => k = k2)
          /\ tmp[k] # 0 => (tmp[k] = tmp[name] => k = name)
      BY <2>3 DEF CacheInv, NamesApart
    <3> QED
      BY <2>4, <3>1
  <2>9. OwnFile'
    <3> SUFFICES ASSUME NEW p \in Loaders, NEW k \in Ranges,
                        Storing(p, k)', k \notin shared'
                 PROVE  /\ tmp'[k] = load'[p].inode
                        /\ load'[p].pc = "write" => disk'[load'[p].inode].by = p
                        /\ load'[p].pc = "rename" => disk'[load'[p].inode].whole
                        /\ \A q \in Loaders : Storing(q, k)' => q = p
      BY DEF OwnFile
    <3>1. /\ Storing(p, k) /\ p # l /\ k \notin shared
          /\ tmp[k] = load[p].inode
          /\ load[p].pc = "write" => disk[load[p].inode].by = p
          /\ load[p].pc = "rename" => disk[load[p].inode].whole
          /\ \A q \in Loaders : Storing(q, k) => q = p
      BY <1>1, <2>6 DEF CacheInv, OwnFile
    <3>2. k # name
      BY <2>3, <3>1
    <3> QED
      BY <1>1, <2>4, <2>5, <2>6, <3>1, <3>2
  <2>10. CrashKeepsCache'
    <3> SUFFICES ASSUME NEW k \in Ranges, file'[k] # 0, ~disk'[file'[k]].whole
                 PROVE  k \in shared'
      BY DEF CrashKeepsCache
    <3>1. CASE k = name
      <4>1. name \notin shared => tmp[name] = load[l].inode /\ disk[load[l].inode].whole
        BY <1>1, <2>3 DEF CacheInv, OwnFile
      <4> QED
        BY <1>1, <2>4, <3>1, <4>1
    <3>2. CASE k # name
      BY <1>1, <2>4, <3>2 DEF CacheInv, CrashKeepsCache
    <3> QED
      BY <3>1, <3>2
  <2> QED
    BY <2>7, <2>8, <2>9, <2>10 DEF CacheInv
<1> QED
  BY <1>2, <1>3

LEMMA CacheStep ==
  ASSUME CacheInv, [Next]_<<history, backtest>>
  PROVE  CacheInv'
<1>1. CASE HistoryNext
  <2>1. PICK l \in Loaders :
          \/ \E range \in Ranges, refresh \in BOOLEAN : Load(l, range, refresh)
          \/ Page(l) \/ PageFails(l) \/ Read(l) \/ Discard(l)
          \/ OpenTmp(l) \/ Write(l) \/ Rename(l) \/ Crash(l)
    BY <1>1 DEF HistoryNext
  <2>2. ASSUME NEW range \in Ranges, NEW refresh \in BOOLEAN, Load(l, range, refresh)
        PROVE  CacheInv'
    BY <2>2, LoadKeeps
  <2>3. CASE Page(l)
    BY <2>3, PageKeeps
  <2>4. CASE PageFails(l)
    BY <2>4, FailKeeps DEF PageFails, Fail
  <2>5. CASE Read(l)
    BY <2>5, ReadKeeps
  <2>6. CASE Discard(l)
    BY <2>6, DiscardKeeps
  <2>7. CASE OpenTmp(l)
    BY <2>7, OpenTmpKeeps
  <2>8. CASE Write(l)
    BY <2>8, WriteKeeps
  <2>9. CASE Rename(l)
    BY <2>9, RenameKeeps
  <2>10. CASE Crash(l)
    BY <2>10, CrashKeeps
  <2> QED
    BY <2>1, <2>2, <2>3, <2>4, <2>5, <2>6, <2>7, <2>8, <2>9, <2>10
<1>2. CASE UNCHANGED history
  <2>1. UNCHANGED <<load, tmp, file, disk, shared>>
    BY <1>2 DEF history
  <2> QED
    BY <2>1 DEF CacheInv, CacheShape, NamesApart, OwnFile, CrashKeepsCache,
                Storing, NameOf
<1> QED
  BY <1>1, <1>2 DEF Next

\* A crash, wherever it comes, tears no cache file (the comment of
\* _atomic_write_json), as long as no two loaders store one range at once: for
\* every set of loaders, ranges and inodes.
THEOREM CacheSurvivesCrashes == Spec => []CrashKeepsCache
<1>1. Init => CacheInv
  BY CacheInit DEF Init
<1>2. CacheInv /\ [Next]_<<history, backtest>> => CacheInv'
  BY CacheStep
<1>3. CacheInv => CrashKeepsCache
  BY DEF CacheInv
<1> QED
  BY <1>1, <1>2, <1>3, PTL DEF Spec

(***************************************************************************)
(* What the cache hands over.                                              *)
(***************************************************************************)
\* Each of the two names of a range has the bars of that range.
FilesAnswer ==
  \A k \in Ranges :
    /\ tmp[k] # 0 => Complete(k, disk[tmp[k]].bars)
    /\ file[k] # 0 => Complete(k, disk[file[k]].bars)

\* The steps of a loader that leave the bars in the files alone.
LEMMA AnswersStay ==
  ASSUME CacheInv, FilesAnswer, LoadsAreWhole, NEW l \in Loaders, UNCHANGED world,
         DOMAIN load = Loaders, DOMAIN load' = Loaders,
         \A p \in Loaders : p # l => load'[p] = load[p],
         load'[l].pc = "done" => Complete(load[l].range, load[l].got)',
         tmp' = tmp,
         \A k \in Ranges : file'[k] \in {file[k], 0},
         \A i \in Inodes : disk'[i].bars = disk[i].bars
  PROVE  FilesAnswer' /\ LoadsAreWhole'
<1>1. tmp \in [Ranges -> Names] /\ file \in [Ranges -> Names]
  BY DEF CacheInv, CacheShape
<1>2. FilesAnswer'
  <2> SUFFICES ASSUME NEW k \in Ranges
               PROVE  /\ tmp'[k] # 0 => Complete(k, disk[tmp[k]].bars)'
                      /\ file'[k] # 0 => Complete(k, disk[file[k]].bars)'
    BY DEF FilesAnswer
  <2>1. ASSUME tmp'[k] # 0 PROVE Complete(k, disk[tmp[k]].bars)'
    <3>1. tmp[k] \in Inodes /\ disk'[tmp'[k]].bars = disk[tmp[k]].bars
      BY <1>1, <2>1 DEF Names
    <3>2. Complete(k, disk[tmp[k]].bars)
      BY <2>1 DEF FilesAnswer
    <3> QED
      BY <3>1, <3>2 DEF Complete, Excused, world
  <2>2. ASSUME file'[k] # 0 PROVE Complete(k, disk[file[k]].bars)'
    <3>1. file'[k] = file[k] /\ file[k] \in Inodes /\ disk'[file'[k]].bars = disk[file[k]].bars
      BY <1>1, <2>2 DEF Names
    <3>2. Complete(k, disk[file[k]].bars)
      BY <2>2, <3>1 DEF FilesAnswer
    <3> QED
      BY <3>1, <3>2 DEF Complete, Excused, world
  <2> QED
    BY <2>1, <2>2
<1>3. LoadsAreWhole'
  <2> SUFFICES ASSUME NEW p \in Loaders, load'[p].pc = "done"
               PROVE  Complete(load[p].range, load[p].got)'
    BY DEF LoadsAreWhole
  <2>1. CASE p # l
    <3>1. load'[p] = load[p] /\ Complete(load[p].range, load[p].got)
      BY <2>1 DEF LoadsAreWhole
    <3> QED
      BY <3>1 DEF Complete, Excused, world
  <2> QED
    BY <2>1
<1> QED
  BY <1>2, <1>3

\* A temporary file is truncated with the answer of the loader that opens it.
LEMMA OpenTmpAnswers ==
  ASSUME CacheInv, HistoryComplete, FilesAnswer, LoadsAreWhole,
         NEW l \in Loaders, OpenTmp(l)
  PROVE  FilesAnswer' /\ LoadsAreWhole'
<1>1. PICK i \in Inode(tmp[NameOf(l)]) :
        Truncate(l, i) /\ tmp' = [tmp EXCEPT ![NameOf(l)] = i]
  BY DEF OpenTmp
<1>2. load[l].pc = "store" /\ file' = file /\ UNCHANGED world
  BY DEF OpenTmp
<1> DEFINE name == NameOf(l)
<1>3. /\ i \in Inodes /\ i # 0 /\ name \in Ranges
      /\ \A k \in Ranges : file[k] # i
      /\ \A k \in Ranges : k # name => tmp[k] # i
  BY <1>2, OpenedFile
<1>4. Complete(name, load[l].got)
  BY <1>2 DEF HistoryComplete, NameOf, Key
<1>5. /\ tmp \in [Ranges -> Names] /\ file \in [Ranges -> Names]
      /\ DOMAIN disk = Inodes /\ DOMAIN load = Loaders /\ DOMAIN load[l] = Fields
  BY DEF CacheInv, CacheShape
<1>6. /\ disk'[i].bars = load[l].got
      /\ \A j \in Inodes : j # i => disk'[j] = disk[j]
  BY <1>1, <1>3, <1>5 DEF Truncate
<1>7. /\ load'[l].pc = "write"
      /\ \A p \in Loaders : p # l => load'[p] = load[p]
  BY <1>1, <1>5 DEF Truncate, Fields
<1>8. /\ tmp'[name] = i
      /\ \A k \in Ranges : k # name => tmp'[k] = tmp[k]
  BY <1>1, <1>3, <1>5
<1> HIDE DEF name
<1>9. FilesAnswer'
  <2> SUFFICES ASSUME NEW k \in Ranges
               PROVE  /\ tmp'[k] # 0 => Complete(k, disk[tmp[k]].bars)'
                      /\ file'[k] # 0 => Complete(k, disk[file[k]].bars)'
    BY DEF FilesAnswer
  <2>1. ASSUME tmp'[k] # 0, k # name PROVE Complete(k, disk[tmp[k]].bars)'
    <3>1. /\ tmp'[k] = tmp[k] /\ tmp[k] \in Inodes /\ tmp[k] # 0
          /\ disk'[tmp'[k]].bars = disk[tmp[k]].bars
      BY <1>3, <1>5, <1>6, <1>8, <2>1 DEF Names
    <3>2. Complete(k, disk[tmp[k]].bars)
      BY <3>1 DEF FilesAnswer
    <3> QED
      BY <1>2, <3>1, <3>2 DEF Complete, Excused, world
  <2>2. ASSUME k = name PROVE Complete(k, disk[tmp[k]].bars)'
    <3>1. disk'[tmp'[k]].bars = load[l].got
      BY <1>6, <1>8, <2>2
    <3> QED
      BY <1>2, <1>4, <2>2, <3>1 DEF Complete, Excused, world
  <2>3. ASSUME file'[k] # 0 PROVE Complete(k, disk[file[k]].bars)'
    <3>1. /\ file'[k] = file[k] /\ file[k] \in Inodes
          /\ disk'[file'[k]].bars = disk[file[k]].bars
      BY <1>2, <1>3, <1>5, <1>6, <2>3 DEF Names
    <3>2. Complete(k, disk[file[k]].bars)
      BY <2>3, <3>1 DEF FilesAnswer
    <3> QED
      BY <1>2, <3>1, <3>2 DEF Complete, Excused, world
  <2> QED
    BY <2>1, <2>2, <2>3
<1>10. LoadsAreWhole'
  <2> SUFFICES ASSUME NEW p \in Loaders, load'[p].pc = "done"
               PROVE  Complete(load[p].range, load[p].got)'
    BY DEF LoadsAreWhole
  <2>1. load'[p] = load[p]
    BY <1>7
  <2>2. Complete(load[p].range, load[p].got)
    BY <2>1 DEF LoadsAreWhole
  <2> QED
    BY <1>2, <2>1, <2>2 DEF Complete, Excused, world
<1> QED
  BY <1>9, <1>10

LEMMA RenameAnswers ==
  ASSUME CacheInv, HistoryComplete, FilesAnswer, LoadsAreWhole,
         NEW l \in Loaders, Rename(l), tmp[NameOf(l)] # 0
  PROVE  FilesAnswer' /\ LoadsAreWhole'
<1> DEFINE name == NameOf(l)
<1>1. /\ file' = [file EXCEPT ![name] = tmp[name]]
      /\ tmp' = [tmp EXCEPT ![name] = 0]
      /\ load' = [load EXCEPT ![l].pc = "done", ![l].inode = 0]
      /\ UNCHANGED <<world, disk>> /\ load[l].pc = "rename"
  BY DEF Rename
<1>2. /\ tmp \in [Ranges -> Names] /\ file \in [Ranges -> Names]
      /\ DOMAIN load = Loaders /\ DOMAIN load[l] = Fields /\ name \in Ranges
  BY <1>1 DEF CacheInv, CacheShape, NameOf, Key, Busy
<1>3. /\ file'[name] = tmp[name] /\ tmp'[name] = 0
      /\ \A k \in Ranges : k # name => tmp'[k] = tmp[k] /\ file'[k] = file[k]
  BY <1>1, <1>2
<1>4. /\ load'[l].range = load[l].range /\ load'[l].got = load[l].got
      /\ \A p \in Loaders : p # l => load'[p] = load[p]
  BY <1>1, <1>2 DEF Fields
<1>5. Complete(load[l].range, load[l].got)
  BY <1>1 DEF HistoryComplete
<1> HIDE DEF name
<1>6. FilesAnswer'
  <2> SUFFICES ASSUME NEW k \in Ranges
               PROVE  /\ tmp'[k] # 0 => Complete(k, disk[tmp[k]].bars)'
                      /\ file'[k] # 0 => Complete(k, disk[file[k]].bars)'
    BY DEF FilesAnswer
  <2>1. ASSUME tmp'[k] # 0 PROVE Complete(k, disk[tmp[k]].bars)'
    <3>1. tmp'[k] = tmp[k]
      BY <1>3, <2>1
    <3>2. Complete(k, disk[tmp[k]].bars)
      BY <2>1, <3>1 DEF FilesAnswer
    <3> QED
      BY <1>1, <3>1, <3>2 DEF Complete, Excused, world
  <2>2. ASSUME file'[k] # 0 PROVE Complete(k, disk[file[k]].bars)'
    <3>1. Complete(k, disk[file'[k]].bars)
      BY <1>3, <2>2 DEF FilesAnswer
    <3> QED
      BY <1>1, <3>1 DEF Complete, Excused, world
  <2> QED
    BY <2>1, <2>2
<1>7. LoadsAreWhole'
  <2> SUFFICES ASSUME NEW p \in Loaders, load'[p].pc = "done"
               PROVE  Complete(load[p].range, load[p].got)'
    BY DEF LoadsAreWhole
  <2>1. /\ load'[p].range = load[p].range /\ load'[p].got = load[p].got
        /\ Complete(load[p].range, load[p].got)
    BY <1>4, <1>5 DEF LoadsAreWhole
  <2> QED
    BY <1>1, <2>1 DEF Complete, Excused, world
<1> QED
  BY <1>6, <1>7

\* A failure, a crash, the start of a load.
LEMMA FreshAnswers ==
  ASSUME CacheInv, FilesAnswer, LoadsAreWhole, NEW l \in Loaders,
         NEW r, load' = [load EXCEPT ![l] = r], r.pc # "done",
         UNCHANGED <<world, tmp, file, disk>>
  PROVE  FilesAnswer' /\ LoadsAreWhole'
<1>1. /\ DOMAIN load = Loaders /\ DOMAIN load' = Loaders /\ load'[l] = r
      /\ \A p \in Loaders : p # l => load'[p] = load[p]
  BY DEF CacheInv, CacheShape
<1> QED
  BY <1>1, AnswersStay

LEMMA ReadAnswers ==
  ASSUME CacheInv, FilesAnswer, LoadsAreWhole, NEW l \in Loaders, Read(l)
  PROVE  FilesAnswer' /\ LoadsAreWhole'
<1>1. load[l].pc = "read" /\ UNCHANGED <<world, tmp, file, disk>>
  BY DEF Read
<1>2. CASE file[NameOf(l)] = 0
  <2>1. load' = [load EXCEPT ![l] = [Idle EXCEPT !.pc = "failed"]]
    BY <1>2 DEF Read, Fail
  <2>2. [Idle EXCEPT !.pc = "failed"].pc # "done"
    BY DEF Idle
  <2> QED
    BY <1>1, <2>1, <2>2, FreshAnswers
<1>3. CASE file[NameOf(l)] # 0
  <2> DEFINE i == file[NameOf(l)]
             pc == IF disk[i].whole THEN "done" ELSE "corrupt"
             got == IF disk[i].whole THEN disk[i].bars ELSE <<>>
  <2>1. load' = [load EXCEPT ![l].pc = pc, ![l].got = got]
    BY <1>3 DEF Read
  <2>2. pc = "done" => got = disk[i].bars
    OBVIOUS
  <2>3. /\ DOMAIN load = Loaders /\ DOMAIN load[l] = Fields
        /\ load[l].range \in Ranges /\ NameOf(l) = load[l].range
    BY <1>1 DEF CacheInv, CacheShape, Busy, NameOf, Key
  <2>4. Complete(load[l].range, disk[i].bars)
    BY <1>3, <2>3 DEF FilesAnswer
  <2> HIDE DEF i, pc, got
  <2>5. /\ DOMAIN load' = Loaders
        /\ \A p \in Loaders : p # l => load'[p] = load[p]
        /\ load'[l].pc = pc /\ load'[l].got = got /\ load'[l].range = load[l].range
    BY <2>1, <2>3 DEF Fields
  <2>6. load'[l].pc = "done" => Complete(load[l].range, load[l].got)'
    BY <1>1, <2>2, <2>4, <2>5 DEF Complete, Excused, world
  <2> QED
    BY <1>1, <2>3, <2>5, <2>6, AnswersStay
<1> QED
  BY <1>2, <1>3

LEMMA CacheStepAnswers ==
  ASSUME CacheInv, HistoryComplete, FilesAnswer, LoadsAreWhole, HistoryNext
  PROVE  FilesAnswer' /\ LoadsAreWhole'
<1>1. PICK l \in Loaders :
        \/ \E range \in Ranges, refresh \in BOOLEAN : Load(l, range, refresh)
        \/ Page(l) \/ PageFails(l) \/ Read(l) \/ Discard(l)
        \/ OpenTmp(l) \/ Write(l) \/ Rename(l) \/ Crash(l)
  BY DEF HistoryNext
<1>2. /\ DOMAIN load = Loaders /\ DOMAIN load[l] = Fields
      /\ file \in [Ranges -> Names] /\ DOMAIN disk = Inodes
      /\ \A j \in Inodes : DOMAIN disk[j] = {"whole", "bars", "by"}
  BY DEF CacheInv, CacheShape
<1>3. [Idle EXCEPT !.pc = "failed"].pc # "done" /\ Idle.pc # "done"
  BY DEF Idle
<1>4. ASSUME NEW range \in Ranges, NEW refresh \in BOOLEAN, Load(l, range, refresh)
      PROVE  FilesAnswer' /\ LoadsAreWhole'
  <2> DEFINE pc == IF file[Key(range)] # 0 /\ ~refresh THEN "read" ELSE "fetch"
             cursor == FirstCursor(range)
             r == [Idle EXCEPT !.range = range, !.pc = pc, !.cursor = cursor]
  <2>1. load' = [load EXCEPT ![l] = r] /\ UNCHANGED <<world, tmp, file, disk>>
    BY <1>4 DEF Load
  <2>2. pc # "done"
    OBVIOUS
  <2> HIDE DEF pc, cursor
  <2>3. r.pc # "done"
    BY <2>2 DEF Idle
  <2> HIDE DEF r
  <2> QED
    BY <2>1, <2>3, FreshAnswers
<1>5. CASE Page(l)
  <2>1. load[l].pc = "fetch" /\ UNCHANGED <<world, tmp, file, disk>>
    BY <1>5 DEF Page
  <2>2. \E days, next, more : Answer(l, days, next, more)
    BY <1>5 DEF Page, AlpacaPage, BinancePage, BitstampPage, KrakenPage,
           CryptoComparePage, CoinGeckoPage
  <2>3. /\ DOMAIN load' = Loaders
        /\ \A p \in Loaders : p # l => load'[p] = load[p]
        /\ load'[l].pc # "done"
    BY <2>1, <2>2, AnswerMoves
  <2> QED
    BY <1>2, <2>1, <2>3, AnswersStay
<1>6. CASE PageFails(l)
  BY <1>3, <1>6, FreshAnswers DEF PageFails
<1>7. CASE Discard(l)
  <2>1. /\ load' = [load EXCEPT ![l].pc = "fetch"]
        /\ file' = [file EXCEPT ![NameOf(l)] = 0]
        /\ UNCHANGED <<world, tmp, disk>>
    BY <1>7 DEF Discard
  <2>2. /\ DOMAIN load' = Loaders
        /\ \A p \in Loaders : p # l => load'[p] = load[p]
        /\ load'[l].pc # "done"
        /\ \A k \in Ranges : file'[k] \in {file[k], 0}
    BY <1>2, <2>1 DEF Fields
  <2> QED
    BY <1>2, <2>1, <2>2, AnswersStay
<1>8. CASE Write(l)
  <2> DEFINE i == load[l].inode
  <2>1. /\ load' = [load EXCEPT ![l].pc = "rename"] /\ load[l].pc = "write"
        /\ UNCHANGED <<world, tmp, file>>
    BY <1>8 DEF Write
  <2>2. \E whole : disk' = [disk EXCEPT ![i].whole = whole]
    BY <1>8 DEF Write
  <2>3. \A j \in Inodes : disk'[j].bars = disk[j].bars
    <3>1. i \in Inodes
      BY <2>1 DEF CacheInv, CacheShape
    <3> HIDE DEF i
    <3> QED
      BY <1>2, <2>2, <3>1
  <2>4. /\ DOMAIN load' = Loaders
        /\ \A p \in Loaders : p # l => load'[p] = load[p]
        /\ load'[l].pc # "done"
    BY <1>2, <2>1 DEF Fields
  <2> QED
    BY <1>2, <2>1, <2>3, <2>4, AnswersStay
<1>9. CASE Rename(l)
  <2>1. CASE tmp[NameOf(l)] = 0
    BY <1>3, <1>9, <2>1, FreshAnswers DEF Rename, Fail
  <2> QED
    BY <1>9, <2>1, RenameAnswers
<1>10. CASE Crash(l)
  BY <1>3, <1>10, FreshAnswers DEF Crash
<1>11. CASE Read(l)
  BY <1>11, ReadAnswers
<1>12. CASE OpenTmp(l)
  BY <1>12, OpenTmpAnswers
<1> QED
  BY <1>1, <1>4, <1>5, <1>6, <1>7, <1>8, <1>9, <1>10, <1>11, <1>12

\* If the cursor loops fetch their ranges completely, every load that returns has
\* the complete answer to its own range, however loaders overlap and crash: the
\* cache adds no error of its own.
THEOREM CacheAddsNoError == Spec /\ []HistoryComplete => []LoadsAreWhole
<1> DEFINE Inv == CacheInv /\ FilesAnswer /\ LoadsAreWhole
<1>1. Init => Inv
  <2> SUFFICES ASSUME Init PROVE Inv
    OBVIOUS
  <2>1. CacheInv
    BY CacheInit DEF Init
  <2>2. /\ \A k \in Ranges : tmp[k] = 0 /\ file[k] = 0
        /\ \A l \in Loaders : load[l].pc # "done"
    BY DEF Init, HistoryInit, Idle
  <2> QED
    BY <2>1, <2>2 DEF FilesAnswer, LoadsAreWhole
<1>2. Inv /\ HistoryComplete /\ [Next]_<<history, backtest>> => Inv'
  <2> SUFFICES ASSUME Inv, HistoryComplete, [Next]_<<history, backtest>> PROVE Inv'
    OBVIOUS
  <2>1. CacheInv'
    BY CacheStep
  <2>2. CASE HistoryNext
    BY <2>1, <2>2, CacheStepAnswers
  <2>3. CASE UNCHANGED history
    <3>1. UNCHANGED <<market, source, load, tmp, file, disk>>
      BY <2>3 DEF history
    <3>2. FilesAnswer'
      BY <3>1 DEF FilesAnswer, Complete, Excused
    <3>3. LoadsAreWhole'
      BY <3>1 DEF LoadsAreWhole, Complete, Excused
    <3> QED
      BY <2>1, <3>2, <3>3
  <2> QED
    BY <2>2, <2>3 DEF Next
<1>3. Inv => LoadsAreWhole
  OBVIOUS
<1> QED
  BY <1>1, <1>2, <1>3, PTL DEF Spec

(***************************************************************************)
(* Pages and rows: what a page has of the days that are left, and what the *)
(* rows of a loop become when it is appended, sorted and tidied.           *)
(***************************************************************************)
Days == 0..LastDay

\* The days of a set, in order.
LEMMA OrderedIs ==
  ASSUME NEW days \in SUBSET Days
  PROVE  /\ Ordered(days) \in Seq(Nat)
         /\ Increasing(Ordered(days))
         /\ Range(Ordered(days)) = days
<1> DEFINE value == [d \in days |-> d]
<1>1. LastDay \in Nat /\ days \in SUBSET (0..LastDay)
  BY HistoryAssumption DEF Days
<1>2. value \in [days -> Nat] /\ \A i, j \in days : value[i] = value[j] => i = j
  BY <1>1
<1>3. Range(value) = days
  BY DEF Range
<1> HIDE DEF value
<1>4. /\ Sorted(value) \in Seq(Nat) /\ Increasing(Sorted(value))
      /\ Range(Sorted(value)) = Range(value)
  BY <1>1, <1>2, SortedIs
<1> QED
  BY <1>3, <1>4 DEF Ordered, value

\* Sorting rows that are in order changes none of this.
LEMMA SortedRows ==
  ASSUME NEW rows \in Seq(Nat), Increasing(rows)
  PROVE  /\ Sorted(rows) \in Seq(Nat)
         /\ Increasing(Sorted(rows))
         /\ Range(Sorted(rows)) = Range(rows)
<1> DEFINE n == Len(rows)
           at == 1..n
<1>1. n \in Nat /\ at \in SUBSET (0..n) /\ rows \in [at -> Nat] /\ DOMAIN rows = at
  OBVIOUS
<1>2. ASSUME NEW i \in at, NEW j \in at, rows[i] = rows[j] PROVE i = j
  <2>1. i \in Nat /\ j \in Nat /\ rows[i] \in Nat
    BY <1>1
  <2>2. ~(i < j) /\ ~(j < i)
    BY <1>1, <1>2, <2>1 DEF Increasing
  <2> QED
    BY <2>1, <2>2
<1> HIDE DEF n, at
<1> QED
  BY <1>1, <1>2, SortedIs

\* A page of what is left of the days from c: all of it, or k days and none
\* left out before the last of them.
IsPage(page, rest, days, c, k) ==
  /\ page \subseteq rest /\ IsFiniteSet(page) /\ Cardinality(page) \in Nat
  /\ page # rest => Cardinality(page) = k
  /\ page = {} => rest = {}
  /\ page # {} =>
       \E m \in page : /\ \A d \in page : d <= m
                       /\ page = days \cap c..m
                       /\ \A x \in Int : x <= m => Max(page \cup {x}) = m
                       /\ Max(page) = m

\* The first k days of what is left are a page of it.
LEMMA PageIs ==
  ASSUME NEW c \in Int, NEW e \in Int, NEW k \in Nat \ {0}, NEW days \in SUBSET Days
  PROVE  IsPage(First(days \cap c..e, k), days \cap c..e, days, c, k)
<1> DEFINE rest == days \cap c..e
           page == First(rest, k)
           before(d) == {x \in rest : x < d}
<1>1. LastDay \in Nat /\ rest \in SUBSET (0..LastDay) /\ page \subseteq rest
  BY HistoryAssumption DEF Days, First
<1>2. page = {d \in rest : Cardinality(before(d)) < k}
  BY DEF First
<1>3. rest \subseteq Nat /\ IsFiniteSet(rest)
  <2>1. IsFiniteSet(0..LastDay)
    BY <1>1, FS_Interval
  <2> QED
    BY <1>1, <2>1, FS_Subset
<1>4. ASSUME NEW d PROVE IsFiniteSet(before(d)) /\ Cardinality(before(d)) \in Nat
  <2>1. before(d) \in SUBSET rest
    OBVIOUS
  <2> HIDE DEF before
  <2> QED
    BY <1>3, <2>1, FS_Subset, FS_CardinalityType
<1>5. \A x \in rest : x \in Nat
  BY <1>3
<1>6. \A x \in Nat, d \in rest : x \in before(d) <=> x \in rest /\ x < d
  OBVIOUS
<1>7. ASSUME NEW d \in page, NEW x \in rest, x < d PROVE x \in page
  <2>1. d \in rest /\ Cardinality(before(d)) < k
    BY <1>2
  <2>2. before(x) \in SUBSET before(d)
    <3>1. \A y \in rest : y < x => y < d
      BY <1>5, <1>7, <2>1
    <3> QED
      BY <3>1
  <2>3. Cardinality(before(x)) <= Cardinality(before(d))
    <3> HIDE DEF before
    <3> QED
      BY <1>4, <2>2, FS_Subset
  <2>4. Cardinality(before(x)) < k
    <3>1. Cardinality(before(x)) \in Nat /\ Cardinality(before(d)) \in Nat
      BY <1>4
    <3> HIDE DEF before
    <3> QED
      BY <2>1, <2>3, <3>1
  <2> QED
    BY <1>2, <2>4
<1>8. IsFiniteSet(page) /\ Cardinality(page) \in Nat
  BY <1>1, <1>3, FS_Subset, FS_CardinalityType
<1>9. ASSUME page # {}
      PROVE  \E m \in page : (\A d \in page : d <= m) /\ page = before(m) \cup {m} /\ m \notin before(m)
  <2>1. page \in SUBSET (0..LastDay)
    BY <1>1
  <2>2. PICK m \in page : \A d \in page : d <= m
    <3> HIDE DEF page
    <3> QED
      BY <1>1, <1>9, <2>1, GreatestUpTo
  <2>3. m \in rest /\ m \in Nat
    BY <1>1, <1>5
  <2>4. \A x \in rest : x \in page <=> x < m \/ x = m
    BY <1>5, <1>7, <2>2, <2>3, <1>1
  <2>5. page = before(m) \cup {m} /\ m \notin before(m)
    BY <1>1, <2>3, <2>4
  <2> QED
    BY <2>2, <2>5
<1>10. Cardinality(page) <= k
  <2>1. CASE page = {}
    BY <2>1, FS_EmptySet
  <2>2. CASE page # {}
    <3>1. PICK m \in page : page = before(m) \cup {m} /\ m \notin before(m)
      BY <1>9, <2>2
    <3>2. Cardinality(before(m)) < k /\ IsFiniteSet(before(m)) /\ Cardinality(before(m)) \in Nat
      BY <1>2, <1>4
    <3>3. Cardinality(page) = Cardinality(before(m)) + 1
      <4> HIDE DEF before, page
      <4> QED
        BY <3>1, <3>2, FS_AddElement
    <3> HIDE DEF before, page
    <3> QED
      BY <3>2, <3>3
  <2> QED
    BY <2>1, <2>2
<1>11. ASSUME page # rest PROVE Cardinality(page) >= k
  <2>1. rest \ page # {} /\ rest \ page \subseteq Nat
    BY <1>1, <1>3, <1>11
  <2>2. PICK x \in rest \ page : \A y \in rest \ page : x <= y
    <3> HIDE DEF rest, page
    <3> QED
      BY <2>1, LeastNat
  <2>3. \A y \in rest : y < x => y \in page
    BY <1>5, <2>2
  <2>4. before(x) \in SUBSET page
    BY <2>3
  <2>5. ~(Cardinality(before(x)) < k)
    BY <1>2, <2>2
  <2>6. Cardinality(before(x)) <= Cardinality(page)
    <3> HIDE DEF before, page
    <3> QED
      BY <1>8, <2>4, FS_Subset
  <2>7. Cardinality(before(x)) \in Nat
    BY <1>4
  <2> HIDE DEF before, page
  <2> QED
    BY <1>8, <2>5, <2>6, <2>7
<1>12. page # rest => Cardinality(page) = k
  <2> HIDE DEF page, rest
  <2> QED
    BY <1>8, <1>10, <1>11
<1>13. page = {} => rest = {}
  <2> SUFFICES ASSUME page = {}, rest # {} PROVE FALSE
    OBVIOUS
  <2>1. Cardinality(page) = k
    <3> HIDE DEF page, rest
    <3> QED
      BY <1>12
  <2>2. Cardinality(page) = 0
    <3> HIDE DEF page
    <3> QED
      BY FS_EmptySet
  <2> QED
    BY <2>1, <2>2
<1>14. ASSUME page # {}
       PROVE  \E m \in page : /\ \A d \in page : d <= m
                              /\ page = days \cap c..m
                              /\ \A x \in Int : x <= m => Max(page \cup {x}) = m
                              /\ Max(page) = m
  <2>1. PICK m \in page : (\A d \in page : d <= m) /\ page = before(m) \cup {m}
    BY <1>9, <1>14
  <2>2. m \in rest /\ m \in Nat /\ m \in Int /\ c <= m /\ m <= e
    BY <1>1, <1>5
  <2>3. \A d \in days : d \in Int
    BY DEF Days
  <2>4. page = days \cap c..m
    <3>1. \A d \in days : d \in page <=> d \in rest /\ (d < m \/ d = m)
      BY <1>1, <2>1, <2>2
    <3>2. \A d \in days : d \in rest /\ (d < m \/ d = m) <=> d \in c..m
      BY <2>2, <2>3
    <3> QED
      BY <1>1, <3>1, <3>2
  <2> HIDE DEF page
  <2>5. page \subseteq Int
    BY <1>1, <1>3
  <2>6. ASSUME NEW x \in Int, x <= m PROVE Max(page \cup {x}) = m
    <3>1. \E y \in page \cup {x} : \A z \in page \cup {x} : y >= z
      BY <2>1, <2>2, <2>5, <2>6
    <3>2. /\ Max(page \cup {x}) \in page \cup {x}
          /\ \A z \in page \cup {x} : Max(page \cup {x}) >= z
      BY <3>1 DEF Max
    <3> DEFINE y == Max(page \cup {x})
    <3>3. y \in Int /\ y <= m /\ y >= m
      BY <2>1, <2>2, <2>5, <2>6, <3>2
    <3> HIDE DEF y
    <3> QED
      BY <2>2, <3>3 DEF y
  <2>7. page \cup {m} = page
    BY <2>1
  <2>8. Max(page) = m
    <3>1. Max(page \cup {m}) = m
      BY <2>2, <2>6
    <3> QED
      BY <2>7, <3>1
  <2> QED
    BY <2>1, <2>4, <2>6, <2>8
<1> QED
  BY <1>1, <1>8, <1>12, <1>13, <1>14 DEF IsPage

\* The rows of one page more.
LEMMA RowsAppend ==
  ASSUME NEW rows \in Seq(Days), NEW days \in SUBSET Days
  PROVE  LET all == rows \o Ordered(days)
         IN  /\ all \in Seq(Days)
             /\ Range(all) = Range(rows) \cup days
             /\ Increasing(rows) /\ (\A d \in Range(rows), e \in days : d < e) => Increasing(all)
<1> DEFINE s == Ordered(days)
           all == rows \o s
<1>1. s \in Seq(Nat) /\ Increasing(s) /\ Range(s) = days
  BY OrderedIs
<1> HIDE DEF s
<1>2. DOMAIN s = 1..Len(s) /\ Len(s) \in Nat /\ Len(rows) \in Nat /\ DOMAIN rows = 1..Len(rows)
  BY <1>1
<1>3. s \in Seq(Days)
  <2>1. \A i \in 1..Len(s) : s[i] \in Days
    BY <1>1, <1>2 DEF Range
  <2> QED
    BY <1>1, <2>1
<1>4. /\ all \in Seq(Days) /\ Len(all) = Len(rows) + Len(s) /\ DOMAIN all = 1..Len(rows) + Len(s)
      /\ \A i \in 1..Len(rows) : all[i] = rows[i]
      /\ \A i \in 1..Len(s) : all[Len(rows) + i] = s[i]
  BY <1>2, <1>3
<1> HIDE DEF all
<1>5. ASSUME NEW i \in DOMAIN all
      PROVE  \/ i \in 1..Len(rows) /\ all[i] = rows[i]
             \/ \E j \in 1..Len(s) : i = Len(rows) + j /\ all[i] = s[j]
  <2>1. CASE i <= Len(rows)
    BY <1>2, <1>4, <2>1
  <2>2. CASE ~(i <= Len(rows))
    <3> DEFINE j == i - Len(rows)
    <3>1. j \in 1..Len(s) /\ i = Len(rows) + j
      BY <1>2, <1>4, <2>2
    <3> HIDE DEF j
    <3> QED
      BY <1>4, <3>1
  <2> QED
    BY <2>1, <2>2
<1>6. Range(all) = Range(rows) \cup days
  <2>1. \A d \in Range(all) : d \in Range(rows) \cup Range(s)
    BY <1>2, <1>5 DEF Range
  <2>2. \A d \in Range(rows) : d \in Range(all)
    <3> SUFFICES ASSUME NEW i \in 1..Len(rows) PROVE rows[i] \in Range(all)
      BY <1>2 DEF Range
    <3>1. i \in DOMAIN all /\ all[i] = rows[i]
      BY <1>2, <1>4
    <3> QED
      BY <3>1 DEF Range
  <2>3. \A d \in Range(s) : d \in Range(all)
    <3> SUFFICES ASSUME NEW i \in 1..Len(s) PROVE s[i] \in Range(all)
      BY <1>2 DEF Range
    <3>1. Len(rows) + i \in DOMAIN all /\ all[Len(rows) + i] = s[i]
      BY <1>2, <1>4
    <3> QED
      BY <3>1 DEF Range
  <2> QED
    BY <1>1, <2>1, <2>2, <2>3
<1>7. ASSUME Increasing(rows), \A d \in Range(rows), e \in days : d < e PROVE Increasing(all)
  <2> SUFFICES ASSUME NEW i \in DOMAIN all, NEW j \in DOMAIN all, i < j PROVE all[i] < all[j]
    BY DEF Increasing
  <2>1. CASE i \in 1..Len(rows) /\ j \in 1..Len(rows)
    BY <1>2, <1>4, <1>7, <2>1 DEF Increasing
  <2>2. CASE i \in 1..Len(rows) /\ j \notin 1..Len(rows)
    <3>1. PICK k \in 1..Len(s) : all[j] = s[k]
      BY <1>5, <2>2
    <3>2. all[i] \in Range(rows) /\ all[j] \in days
      BY <1>1, <1>2, <1>4, <2>2, <3>1 DEF Range
    <3> QED
      BY <1>7, <3>2
  <2>3. CASE i \notin 1..Len(rows)
    <3>1. PICK k \in 1..Len(s) : i = Len(rows) + k /\ all[i] = s[k]
      BY <1>5, <2>3
    <3>2. j \notin 1..Len(rows)
      BY <1>2, <1>4, <2>3
    <3>3. PICK h \in 1..Len(s) : j = Len(rows) + h /\ all[j] = s[h]
      BY <1>5, <3>2
    <3>4. k < h
      BY <1>2, <3>1, <3>3
    <3> QED
      BY <1>1, <1>2, <3>1, <3>3, <3>4 DEF Increasing
  <2> QED
    BY <2>1, <2>2, <2>3
<1> QED
  BY <1>4, <1>6, <1>7 DEF all, s

\* What a source makes of its rows at the end.
LEMMA TidyIs ==
  ASSUME NEW rows \in Seq(Days), source \in {"alpaca", "binance"} => Increasing(rows)
  PROVE  /\ Increasing(Tidy(rows))
         /\ Range(Tidy(rows)) = Range(rows)
<1>1. rows \in Seq(Nat) /\ Range(rows) \in SUBSET Days
  BY HistoryAssumption DEF Days, Range
<1>2. CASE source = "binance"
  BY <1>2 DEF Tidy
<1>3. CASE source = "alpaca"
  BY <1>1, <1>3, SortedRows DEF Tidy
<1>4. CASE source \notin {"alpaca", "binance"}
  BY <1>1, <1>4, OrderedIs DEF Tidy
<1> QED
  BY <1>2, <1>3, <1>4

(***************************************************************************)
(* The cursor loops.  Walked says of each source which days the rows of a  *)
(* loop have when it goes on from a cursor, and Enough what they must have *)
(* when it ends.                                                           *)
(***************************************************************************)
Walked(range, cursor, pages, rows) ==
  LET first == range[1]
      end == range[2]
      days == Range(rows)
  IN  /\ source \in {"alpaca", "binance"} =>
           /\ cursor \in first..end + 1
           /\ days = market \cap first..cursor - 1
           /\ Increasing(rows)
      /\ source = "bitstamp" =>
           /\ cursor \in first..end
           /\ days = market \cap first..cursor - 1
           /\ pages \in 0..MaxPages - 1
           /\ pages * PageLimit <= Cardinality(days)
      /\ source = "kraken" =>
           /\ cursor \in Int /\ cursor >= first - 1
           /\ days \subseteq market \cap first..end - 1
           /\ \A d \in market \cap first..end - 1 :
                d <= cursor => d \in days \cup Excused(range)
      /\ source = "cryptocompare" =>
           /\ pages \in 0..MaxPages - 1
           /\ cursor = end - pages * PageLimit
           /\ days = {d \in market : first <= d /\ cursor < d /\ d < end}
      /\ source = "coingecko" => days = {}

Enough(range, days) ==
  LET asked == market \cap range[1]..range[2]
  IN  days \subseteq asked /\ asked \ days \subseteq Excused(range) \cup {range[2]}

\* What a page makes of a loop, whether it goes on or ends.
PageOk(range, next, pages, rows, more) ==
  /\ source \in {"alpaca", "binance"} => Increasing(rows)
  /\ more => Walked(range, next, pages, rows)
  /\ ~more => Enough(range, Range(rows))

World == market \subseteq Days /\ source \in Sources

LEMMA RangeIs ==
  ASSUME NEW range \in Ranges
  PROVE  range[1] \in Nat /\ range[2] \in Nat /\ range[2] <= LastDay /\ range[1] < range[2]
         /\ range[1] \in Int /\ range[2] \in Int /\ LastDay \in Nat
         /\ PageLimit \in Nat \ {0} /\ PageLimit >= 2 /\ MaxPages \in Nat \ {0} /\ KrakenCap \in Nat \ {0}
BY HistoryAssumption

LEMMA DaysAreFinite ==
  ASSUME NEW days \in SUBSET Days
  PROVE  IsFiniteSet(days) /\ Cardinality(days) \in Nat /\ days \subseteq Nat
<1>1. IsFiniteSet(Days) /\ Days \subseteq Nat
  BY HistoryAssumption, FS_Interval DEF Days
<1> QED
  BY <1>1, FS_Subset, FS_CardinalityType

LEMMA Begins ==
  ASSUME World, NEW range \in Ranges
  PROVE  Walked(range, FirstCursor(range), 0, <<>>)
<1>1. Range(<<>>) = {} /\ Increasing(<<>>)
  BY DEF Range, Increasing
<1>2. /\ range[1] \in Nat /\ range[2] \in Nat /\ range[1] < range[2]
      /\ PageLimit \in Nat /\ MaxPages \in Nat \ {0}
  BY RangeIs
<1>3. Cardinality({}) = 0 /\ 0 * PageLimit = 0 /\ 0 \in 0..MaxPages - 1
  BY <1>2, FS_EmptySet
<1>4. \A d \in market : d \in Nat
  BY HistoryAssumption DEF World, Days
<1>5. market \cap range[1]..range[1] - 1 = {}
  BY <1>2
<1>6. CASE source \in {"alpaca", "binance"}
  <2>1. FirstCursor(range) = range[1]
    BY <1>6 DEF FirstCursor
  <2> QED
    BY <1>1, <1>2, <1>5, <1>6, <2>1 DEF Walked
<1>7. CASE source = "bitstamp"
  <2>1. FirstCursor(range) = range[1]
    BY <1>7 DEF FirstCursor
  <2>2. range[1] \in range[1]..range[2]
    BY <1>2
  <2>3. 0 * PageLimit <= Cardinality({})
    BY <1>3
  <2> QED
    BY <1>1, <1>3, <1>5, <1>7, <2>1, <2>2, <2>3 DEF Walked
<1>8. CASE source = "kraken"
  <2>1. FirstCursor(range) = range[1] - 1
    BY <1>8 DEF FirstCursor
  <2>2. \A d \in market \cap range[1]..range[2] - 1 : ~(d <= range[1] - 1)
    BY <1>2, <1>4
  <2> QED
    BY <1>1, <1>2, <1>8, <2>1, <2>2 DEF Walked
<1>9. CASE source = "cryptocompare"
  <2>1. FirstCursor(range) = range[2]
    BY <1>9 DEF FirstCursor
  <2>2. {d \in market : range[1] <= d /\ range[2] < d /\ d < range[2]} = {}
    BY <1>2, <1>4
  <2>3. range[2] = range[2] - 0 * PageLimit
    BY <1>2, <1>3
  <2> QED
    BY <1>1, <1>3, <1>9, <2>1, <2>2, <2>3 DEF Walked
<1>10. CASE source = "coingecko"
  BY <1>1, <1>10 DEF Walked
<1> QED
  BY <1>6, <1>7, <1>8, <1>9, <1>10 DEF World, Sources

\* The rows of a loop that goes up in time, with a page more, up to m.
Joined(all, rows, first, m) ==
  /\ all \in Seq(Days)
  /\ Range(all) = market \cap first..m
  /\ Increasing(rows) => Increasing(all)

LEMMA PageJoins ==
  ASSUME World, NEW first \in Int, NEW c \in Int, NEW m \in Int, first <= c, c <= m + 1,
         NEW rows \in Seq(Days), Range(rows) = market \cap first..c - 1,
         NEW page, page = market \cap c..m
  PROVE  Joined(rows \o Ordered(page), rows, first, m)
<1> DEFINE all == rows \o Ordered(page)
<1>1. page \in SUBSET Days
  BY DEF World
<1>2. /\ all \in Seq(Days) /\ Range(all) = Range(rows) \cup page
      /\ Increasing(rows) /\ (\A d \in Range(rows), e \in page : d < e) => Increasing(all)
  BY <1>1, RowsAppend
<1> HIDE DEF all
<1>3. \A d \in market : d \in Nat
  BY HistoryAssumption DEF World, Days
<1>4. \A d \in Range(rows), e \in page : d < e
  BY <1>3
<1>5. Range(rows) \cup page = market \cap first..m
  <2>1. \A d \in market : (d \in first..c - 1 \/ d \in c..m) <=> d \in first..m
    BY <1>3
  <2> QED
    BY <2>1
<1> QED
  BY <1>2, <1>4, <1>5 DEF all, Joined

\* The loops of alpaca and binance, whose pages end at the end of the range.
LEMMA AscendingPage ==
  ASSUME World, source \in {"alpaca", "binance"}, NEW range \in Ranges,
         NEW c, NEW pages, NEW rows \in Seq(Days), Walked(range, c, pages, rows)
  PROVE  LET rest == market \cap c..range[2]
             page == First(rest, PageLimit)
             all == rows \o Ordered(page)
         IN  /\ page \in SUBSET Days /\ Increasing(all)
             /\ page = rest => Enough(range, Range(all))
             /\ page # {} =>
                  /\ Max(page) \in Int
                  /\ Max(page) + 1 >= range[2] => Enough(range, Range(all))
                  /\ \A n : Walked(range, Max(page) + 1, n, all)
                  /\ Max(page \cup {0}) = Max(page)
             /\ page # rest => Cardinality(page) = PageLimit
             /\ page = {} => page = rest
<1> DEFINE first == range[1]
           end == range[2]
           rest == market \cap c..end
           page == First(rest, PageLimit)
           all == rows \o Ordered(page)
<1>1. /\ first \in Nat /\ end \in Nat /\ first < end /\ PageLimit \in Nat \ {0}
  BY RangeIs
<1>2. /\ c \in first..end + 1 /\ Range(rows) = market \cap first..c - 1 /\ Increasing(rows)
  BY DEF Walked
<1>3. c \in Int /\ end \in Int /\ first \in Int /\ market \in SUBSET Days
  BY <1>1, <1>2 DEF World
<1>4. /\ page \subseteq rest
      /\ page # rest => Cardinality(page) = PageLimit
      /\ page = {} => rest = {}
      /\ page # {} =>
           \E m \in page : /\ \A d \in page : d <= m
                           /\ page = market \cap c..m
                           /\ \A x \in Int : x <= m => Max(page \cup {x}) = m
                           /\ Max(page) = m
  <2>1. IsPage(page, rest, market, c, PageLimit)
    BY <1>1, <1>3, PageIs
  <2> HIDE DEF page, rest
  <2> QED
    BY <2>1 DEF IsPage
<1>5. page \in SUBSET Days /\ \A d \in market : d \in Nat
  <2>1. Days \subseteq Nat
    BY HistoryAssumption DEF Days
  <2> QED
    BY <1>3, <1>4, <2>1
<1> HIDE DEF page
<1>6. CASE page = {}
  <2>1. page = market \cap c..end
    BY <1>4, <1>6
  <2>2. Range(all) = market \cap first..end /\ Increasing(all)
    <3>1. first <= c /\ c <= end + 1
      BY <1>1, <1>2
    <3>2. Joined(all, rows, first, end)
      <4> HIDE DEF first, end
      <4> QED
        BY <1>2, <1>3, <2>1, <3>1, PageJoins
    <3> QED
      BY <1>2, <3>2 DEF Joined
  <2> HIDE DEF all
  <2>3. Enough(range, Range(all))
    BY <2>2 DEF Enough
  <2> QED
    BY <1>4, <1>5, <1>6, <2>2, <2>3 DEF page, all
<1>7. CASE page # {}
  <2>1. PICK m \in page : /\ page = market \cap c..m /\ Max(page) = m
                          /\ \A x \in Int : x <= m => Max(page \cup {x}) = m
    BY <1>4, <1>7
  <2>2. m \in Nat /\ m \in Int /\ c <= m /\ m <= end /\ 0 <= m /\ c <= m + 1
    BY <1>1, <1>2, <1>4, <1>5, <2>1
  <2>3. Range(all) = market \cap first..m /\ Increasing(all)
    <3>1. first <= c
      BY <1>1, <1>2
    <3>2. Joined(all, rows, first, m)
      <4> HIDE DEF first, end
      <4> QED
        BY <1>2, <1>3, <2>1, <2>2, <3>1, PageJoins
    <3> QED
      BY <1>2, <3>2 DEF Joined
  <2> HIDE DEF all
  <2>4. ASSUME m + 1 >= end \/ page = rest PROVE Enough(range, Range(all))
    <3>1. Range(all) \subseteq market \cap first..end
      BY <1>1, <1>5, <2>2, <2>3
    <3>2. ASSUME NEW d \in market \cap first..end, d \notin Range(all) PROVE d = end
      <4>1. d \in Nat /\ d > m /\ d <= end
        BY <1>1, <1>5, <2>2, <2>3, <3>2
      <4>2. CASE m + 1 >= end
        BY <1>1, <2>2, <4>1, <4>2
      <4>3. CASE page = rest
        BY <1>1, <1>3, <2>1, <2>2, <4>1, <4>3
      <4> QED
        BY <2>4, <4>2, <4>3
    <3> QED
      BY <3>1, <3>2 DEF Enough
  <2>5. ASSUME NEW n PROVE Walked(range, m + 1, n, all)
    <3>1. m + 1 \in first..end + 1 /\ (m + 1) - 1 = m
      BY <1>1, <1>2, <2>2
    <3>3. Range(all) = market \cap first..(m + 1) - 1
      BY <2>3, <3>1
    <3>2. source \notin {"bitstamp", "kraken", "cryptocompare", "coingecko"}
      OBVIOUS
    <3> HIDE DEF first, end
    <3>4. m + 1 \in first..end + 1 /\ Increasing(all)
      BY <2>3, <3>1
    <3> QED
      BY <3>2, <3>3, <3>4 DEF Walked, first, end
  <2>6. Max(page \cup {0}) = m
    BY <2>1, <2>2
  <2> QED
    BY <1>4, <1>5, <1>7, <2>1, <2>2, <2>3, <2>4, <2>5, <2>6 DEF page, all
<1> QED
  BY <1>6, <1>7

\* Days up to m count those below c and those from it.
LEMMA DaysAdd ==
  ASSUME World, NEW first \in Int, NEW c \in Int, NEW m \in Int, first <= c, c <= m + 1
  PROVE  Cardinality(market \cap first..m)
           = Cardinality(market \cap first..c - 1) + Cardinality(market \cap c..m)
<1> DEFINE below == market \cap first..c - 1
           from == market \cap c..m
<1>1. below \in SUBSET Days /\ from \in SUBSET Days
  BY DEF World
<1>2. \A d \in market : d \in Int
  BY HistoryAssumption DEF World, Days
<1>3. below \cap from = {} /\ below \cup from = market \cap first..m
  <2>1. \A d \in Int : /\ ~(d \in first..c - 1 /\ d \in c..m)
                       /\ d \in first..m <=> d \in first..c - 1 \/ d \in c..m
    OBVIOUS
  <2> QED
    BY <1>2, <2>1
<1> HIDE DEF below, from
<1>4. /\ IsFiniteSet(below) /\ IsFiniteSet(from)
      /\ Cardinality(below) \in Nat /\ Cardinality(from) \in Nat
  BY <1>1, DaysAreFinite
<1>5. Cardinality(below \cup from)
        = Cardinality(below) + Cardinality(from) - Cardinality(below \cap from)
  BY <1>4, FS_Union
<1>6. Cardinality(below \cap from) = 0
  BY <1>3, FS_EmptySet
<1>7. Cardinality(below \cup from) = Cardinality(below) + Cardinality(from)
  BY <1>4, <1>5, <1>6
<1> QED
  BY <1>3, <1>7 DEF below, from

\* The page of each loop that does not end with the range, and what is made of it.
BitstampPages(range, c, pages, page, last, days, more) ==
  /\ page = First(market \cap c..LastDay, PageLimit)
  /\ last = Max(page \cup {c})
  /\ days = {d \in page : d < range[2]}
  /\ more \in BOOLEAN
  /\ more <=> /\ last > c /\ last + 1 < range[2]
              /\ Cardinality(page) = PageLimit /\ pages + 1 < MaxPages

KrakenPages(range, c, page, last, days, more) ==
  /\ page = Latest(market \cap c + 1..LastDay, KrakenCap)
  /\ last \in Latest(page, 2) \cup {c}
  /\ days = {d \in page : d < range[2]}
  /\ more \in BOOLEAN
  /\ more <=> last > c /\ last < range[2]

CryptoComparePages(range, c, pages, first, days, more) ==
  /\ first = c - PageLimit + 1
  /\ days = {d \in market \cap first..c : range[1] <= d /\ d < range[2]}
  /\ more \in BOOLEAN
  /\ more <=> first - 1 > range[1] /\ pages + 1 < MaxPages

\* Bitstamp's loop: only a start is sent, and days past the end are dropped.
LEMMA BitstampMakes ==
  ASSUME World, source = "bitstamp", NEW range \in Ranges, NEW c, NEW pages,
         NEW rows \in Seq(Days), Walked(range, c, pages, rows),
         NEW page, NEW last, NEW days, NEW more,
         BitstampPages(range, c, pages, page, last, days, more)
  PROVE  /\ days \in SUBSET Days
         /\ PageOk(range, last + 1, pages + 1, rows \o Ordered(days), more)
<1> DEFINE first == range[1]
           end == range[2]
           rest == market \cap c..LastDay
           all == rows \o Ordered(days)
<1>1. /\ first \in Nat /\ end \in Nat /\ first < end /\ end <= LastDay /\ LastDay \in Nat
      /\ PageLimit \in Nat \ {0} /\ PageLimit >= 2 /\ MaxPages \in Nat \ {0}
      /\ first \in Int /\ end \in Int
  BY RangeIs
<1>2. /\ c \in first..end /\ Range(rows) = market \cap first..c - 1
      /\ pages \in 0..MaxPages - 1
      /\ pages * PageLimit <= Cardinality(Range(rows))
  BY DEF Walked
<1>3. c \in Int /\ first <= c /\ c <= end /\ LastDay \in Int /\ market \in SUBSET Days
  BY <1>1, <1>2 DEF World
<1>4. IsPage(page, rest, market, c, PageLimit)
  <2>1. page = First(rest, PageLimit)
    BY DEF BitstampPages
  <2> QED
    BY <1>1, <1>3, <2>1, PageIs
<1> HIDE DEF first, end, rest
<1>5. /\ page \subseteq rest /\ Cardinality(page) \in Nat
      /\ page # rest => Cardinality(page) = PageLimit
      /\ page = {} => rest = {}
  BY <1>4 DEF IsPage
<1>6. \A d \in market : d \in Nat /\ d <= LastDay
  BY HistoryAssumption DEF World, Days
<1>7. days = {d \in page : d < end} /\ days \in SUBSET Days
  <2>1. days = {d \in page : d < end}
    BY DEF BitstampPages, end
  <2> QED
    BY <1>3, <1>5, <2>1 DEF rest
<1>8. /\ more \in BOOLEAN /\ last = Max(page \cup {c})
      /\ more <=> /\ last > c /\ last + 1 < end
                  /\ Cardinality(page) = PageLimit /\ pages + 1 < MaxPages
  BY DEF BitstampPages, end
<1> HIDE DEF all
<1>9. ASSUME NEW m \in Int, c <= m + 1, m < end, days = market \cap c..m,
             \/ m = end - 1
             \/ \A d \in market : d >= c => d <= m
             \/ Cardinality(market \cap first..m) >= MaxPages * PageLimit
      PROVE  Enough(range, Range(all))
  <2>1. Range(all) = market \cap first..m
    <3>1. Joined(all, rows, first, m)
      <4>1. Joined(rows \o Ordered(days), rows, first, m)
        BY <1>1, <1>2, <1>3, <1>9, PageJoins
      <4> QED
        BY <4>1 DEF all
    <3> QED
      BY <3>1 DEF Joined
  <2>2. Range(all) \subseteq market \cap first..end
    BY <1>1, <1>9, <2>1
  <2>3. ASSUME NEW d \in market \cap first..end, d \notin Range(all)
        PROVE  d \in Excused(range) \cup {end}
    <3>1. d \in Nat /\ m < d /\ d <= end /\ c <= d
      BY <1>1, <1>3, <1>6, <1>9, <2>1, <2>3
    <3>2. CASE m = end - 1
      BY <1>1, <3>1, <3>2
    <3>3. CASE \A e \in market : e >= c => e <= m
      BY <1>9, <3>1, <3>3
    <3>4. CASE Cardinality(market \cap first..m) >= MaxPages * PageLimit
      <4> DEFINE upto == market \cap first..m
                 more2 == market \cap first..d
      <4>1. upto \in SUBSET Days /\ more2 \in SUBSET Days
        BY <1>3
      <4>2. upto \cup {d} \in SUBSET more2 /\ d \notin upto
        BY <1>1, <1>6, <1>9, <2>3, <3>1
      <4> HIDE DEF upto, more2
      <4>3. /\ IsFiniteSet(upto) /\ IsFiniteSet(more2)
            /\ Cardinality(upto) \in Nat /\ Cardinality(more2) \in Nat
        BY <4>1, DaysAreFinite
      <4>4. Cardinality(upto \cup {d}) = Cardinality(upto) + 1
        BY <4>2, <4>3, FS_AddElement
      <4>5. Cardinality(upto \cup {d}) <= Cardinality(more2)
        BY <4>2, <4>3, FS_Subset
      <4>6. MaxPages * PageLimit \in Nat
        BY <1>1
      <4>7. Cardinality(more2) > MaxPages * PageLimit
        BY <3>4, <4>3, <4>4, <4>5, <4>6 DEF upto
      <4>8. Cardinality(market \cap range[1]..d) > MaxPages * PageLimit
        BY <4>7 DEF more2, first
      <4> QED
        BY <2>3, <4>8 DEF Excused
    <3> QED
      BY <1>9, <3>2, <3>3, <3>4
  <2> QED
    BY <2>2, <2>3 DEF Enough, first, end
<1>10. CASE page = {}
  <2>1. \A d \in market : ~(d >= c)
    BY <1>3, <1>5, <1>6, <1>10 DEF rest
  <2>2. ~more
    <3>1. Cardinality(page) = 0
      BY <1>10, FS_EmptySet
    <3> QED
      BY <1>1, <1>8, <3>1
  <2>3. days = market \cap c..c - 1
    BY <1>3, <1>7, <1>10, <1>6
  <2>4. c - 1 \in Int /\ c <= c - 1 + 1 /\ c - 1 < end
    BY <1>1, <1>3
  <2>5. Enough(range, Range(all))
    BY <1>9, <2>1, <2>3, <2>4
  <2> QED
    BY <1>7, <2>2, <2>5 DEF PageOk, all
<1>11. CASE page # {}
  <2>1. PICK m \in page : /\ page = market \cap c..m
                          /\ \A x \in Int : x <= m => Max(page \cup {x}) = m
    BY <1>4, <1>11 DEF IsPage
  <2>2. m \in Nat /\ m \in Int /\ c <= m /\ last = m
    <3>1. m \in market /\ m \in c..m
      BY <2>1
    <3>2. m \in Nat /\ m \in Int /\ c <= m
      BY <1>3, <1>6, <3>1
    <3> QED
      BY <1>3, <1>8, <2>1, <3>2
  <2>3. CASE m + 1 >= end
    <3>1. ~more
      BY <1>1, <1>8, <2>2, <2>3
    <3>2. days = market \cap c..end - 1
      <4>1. \A d \in market : d \in c..m /\ d < end <=> d \in c..end - 1
        BY <1>1, <1>3, <1>6, <2>2, <2>3
      <4> QED
        BY <1>7, <2>1, <4>1
    <3>3. end - 1 \in Int /\ c <= end - 1 + 1 /\ end - 1 < end
      BY <1>1, <1>3
    <3>4. Enough(range, Range(all))
      BY <1>9, <3>2, <3>3
    <3> QED
      BY <1>7, <3>1, <3>4 DEF PageOk, all
  <2>4. CASE m + 1 < end
    <3>1. days = market \cap c..m
      <4>1. \A d \in market : d \in c..m => d < end
        BY <1>1, <1>3, <1>6, <2>2, <2>4
      <4> QED
        BY <1>7, <2>1, <4>1
    <3>2. c <= m + 1 /\ m < end
      BY <1>1, <1>3, <2>2, <2>4
    <3>3. ASSUME Cardinality(page) = PageLimit
          PROVE  Cardinality(market \cap first..m) >= (pages + 1) * PageLimit
      <4> DEFINE have == Cardinality(market \cap first..c - 1)
      <4>1. Cardinality(market \cap first..m) = have + Cardinality(page)
        <5>1. first \in Int /\ first <= c /\ c <= m + 1
          BY <1>1, <1>3, <2>2
        <5>2. Cardinality(market \cap first..m)
                = Cardinality(market \cap first..c - 1) + Cardinality(market \cap c..m)
          BY <1>3, <2>2, <5>1, DaysAdd
        <5> QED
          BY <2>1, <5>2
      <4>2. have \in Nat
        <5>1. market \cap first..c - 1 \in SUBSET Days
          BY <1>3
        <5> QED
          BY <5>1, DaysAreFinite
      <4>3. pages * PageLimit <= have
        BY <1>2
      <4>4. pages \in Nat /\ (pages + 1) * PageLimit = pages * PageLimit + PageLimit
            /\ pages * PageLimit \in Nat
        BY <1>1, <1>2
      <4> HIDE DEF have
      <4>5. Cardinality(market \cap first..m) = have + PageLimit
        BY <3>3, <4>1
      <4> QED
        BY <1>1, <4>2, <4>3, <4>4, <4>5
    <3>4. CASE more
      <4>1. Cardinality(page) = PageLimit /\ pages + 1 < MaxPages
        BY <1>8, <3>4
      <4>2. Range(all) = market \cap first..m
        <5>1. Joined(all, rows, first, m)
          <6>1. Joined(rows \o Ordered(days), rows, first, m)
            BY <1>1, <1>2, <1>3, <2>2, <3>1, <3>2, PageJoins
          <6> QED
            BY <6>1 DEF all
        <5> QED
          BY <5>1 DEF Joined
      <4>3. (m + 1) - 1 = m /\ m + 1 \in first..end /\ pages + 1 \in 0..MaxPages - 1
        BY <1>1, <1>2, <1>3, <2>2, <2>4, <4>1
      <4>4. Range(all) = market \cap first..(m + 1) - 1
        BY <4>2, <4>3
      <4>5. (pages + 1) * PageLimit <= Cardinality(Range(all))
        <5>1. Cardinality(Range(all)) >= (pages + 1) * PageLimit
          BY <3>3, <4>1, <4>2
        <5>2. Range(all) \in SUBSET Days
          BY <1>3, <4>2
        <5>3. Cardinality(Range(all)) \in Nat /\ (pages + 1) * PageLimit \in Nat
          BY <1>1, <1>2, <5>2, DaysAreFinite
        <5> QED
          BY <5>1, <5>3
      <4>6. Walked(range, m + 1, pages + 1, all)
        BY <4>3, <4>4, <4>5 DEF Walked, first, end
      <4> QED
        BY <1>7, <2>2, <3>4, <4>6 DEF PageOk, all
    <3>5. CASE ~more
      <4>1. \/ page = rest
            \/ Cardinality(page) = PageLimit /\ pages + 1 = MaxPages
        <5>1. CASE m = c
          <6>1. page = {c}
            BY <1>3, <2>1, <2>2, <5>1
          <6>2. Cardinality(page) = 1
            BY <6>1, FS_Singleton
          <6> QED
            BY <1>1, <1>5, <6>2
        <5>2. CASE m # c
          <6>1. last > c /\ last + 1 < end
            BY <1>3, <2>2, <2>4, <5>2
          <6>2. ~(Cardinality(page) = PageLimit /\ pages + 1 < MaxPages)
            BY <1>8, <3>5, <6>1
          <6>3. pages + 1 < MaxPages \/ pages + 1 = MaxPages
            BY <1>1, <1>2
          <6> QED
            BY <1>5, <6>2, <6>3
        <5> QED
          BY <5>1, <5>2
      <4>2. \/ \A d \in market : d >= c => d <= m
            \/ Cardinality(market \cap first..m) >= MaxPages * PageLimit
        <5>1. ASSUME page = rest, NEW d \in market, d >= c PROVE d <= m
          <6>1. d \in rest
            BY <1>1, <1>3, <1>6, <5>1 DEF rest
          <6>2. d \in c..m
            BY <2>1, <5>1, <6>1
          <6> QED
            BY <6>2
        <5> QED
          BY <3>3, <4>1, <5>1
      <4>3. Enough(range, Range(all))
        BY <1>9, <2>2, <3>1, <3>2, <4>2
      <4> QED
        BY <1>7, <3>5, <4>3 DEF PageOk, all
    <3> QED
      BY <3>4, <3>5
  <2> QED
    BY <1>1, <2>2, <2>3, <2>4
<1> QED
  BY <1>10, <1>11

\* Kraken's loop: a day that a page leaves out, the service no longer has.
LEMMA KrakenMakes ==
  ASSUME World, source = "kraken", NEW range \in Ranges, NEW c, NEW pages,
         NEW rows \in Seq(Days), Walked(range, c, pages, rows),
         NEW page, NEW last, NEW days, NEW more,
         KrakenPages(range, c, page, last, days, more)
  PROVE  /\ days \in SUBSET Days
         /\ PageOk(range, last, pages + 1, rows \o Ordered(days), more)
<1> DEFINE first == range[1]
           end == range[2]
           rest == market \cap c + 1..LastDay
           all == rows \o Ordered(days)
<1>1. /\ first \in Nat /\ end \in Nat /\ first < end /\ end <= LastDay /\ LastDay \in Nat
      /\ KrakenCap \in Nat \ {0}
  BY RangeIs
<1>2. /\ c \in Int /\ c >= first - 1
      /\ Range(rows) \subseteq market \cap first..end - 1
      /\ \A d \in market \cap first..end - 1 : d <= c => d \in Range(rows) \cup Excused(range)
  BY DEF Walked
<1>3. market \in SUBSET Days /\ \A d \in market : d \in Nat /\ d <= LastDay
  BY HistoryAssumption DEF World, Days
<1>4. page = {d \in rest : Cardinality({e \in rest : e > d}) < KrakenCap}
  BY DEF KrakenPages, Latest
<1>0. /\ days = {d \in page : d < end} /\ more \in BOOLEAN
      /\ more <=> last > c /\ last < end
  BY DEF KrakenPages
<1> HIDE DEF first, end, all
<1>5. last \in Int
  <2>1. last \in page \cup {c}
    BY DEF KrakenPages, Latest
  <2>2. \A d \in page : d \in Int
    BY <1>3, <1>4
  <2> QED
    BY <1>2, <2>1, <2>2
<1>6. days \in SUBSET Days /\ days \subseteq market \cap first..end - 1
  <2>1. \A d \in days : d \in market /\ c + 1 <= d /\ d < end
    BY <1>0, <1>2, <1>4
  <2>2. \A d \in days : d \in market /\ d \in Nat /\ first <= d /\ d < end
    BY <1>1, <1>2, <1>3, <2>1
  <2> QED
    BY <1>1, <1>3, <2>2
<1>7. Range(all) = Range(rows) \cup days
  BY <1>6, RowsAppend DEF all
<1>8. ASSUME NEW d \in market \cap first..end - 1 PROVE d \in Range(all) \cup Excused(range)
  <2>1. CASE d <= c
    BY <1>2, <1>7, <2>1
  <2>2. CASE d > c /\ d \in page
    BY <1>0, <1>1, <1>3, <1>7, <2>2
  <2>3. CASE d > c /\ d \notin page
    <3> DEFINE later == {e \in rest : e > d}
               served == market \cap d..LastDay
    <3>1. d \in rest
      BY <1>2, <1>3, <2>3
    <3>2. ~(Cardinality(later) < KrakenCap)
      BY <1>4, <2>3, <3>1
    <3>3. later \in SUBSET Days /\ served \in SUBSET Days
      BY <1>3
    <3>4. later \cup {d} \in SUBSET served /\ d \notin later
      BY <1>3
    <3> HIDE DEF later, served
    <3>5. /\ IsFiniteSet(later) /\ IsFiniteSet(served)
          /\ Cardinality(later) \in Nat /\ Cardinality(served) \in Nat
      BY <3>3, DaysAreFinite
    <3>6. Cardinality(later \cup {d}) = Cardinality(later) + 1
      BY <3>4, <3>5, FS_AddElement
    <3>7. Cardinality(later \cup {d}) <= Cardinality(served)
      BY <3>4, <3>5, FS_Subset
    <3>8. Cardinality(served) > KrakenCap
      BY <1>1, <3>2, <3>5, <3>6, <3>7
    <3>9. Cardinality(market \cap d..LastDay) > KrakenCap
      BY <3>8 DEF served
    <3> QED
      BY <3>9 DEF Excused
  <2> QED
    BY <1>2, <1>3, <2>1, <2>2, <2>3
<1>9. Range(all) \subseteq market \cap first..end - 1
  BY <1>2, <1>6, <1>7
<1>10. ASSUME more PROVE Walked(range, last, pages + 1, all)
  <2>1. last >= first - 1
    BY <1>0, <1>1, <1>2, <1>5, <1>10
  <2> QED
    BY <1>5, <1>8, <1>9, <2>1 DEF Walked, first, end
<1>11. Enough(range, Range(all))
  <2>1. Range(all) \subseteq market \cap first..end
    BY <1>1, <1>3, <1>9
  <2>2. \A d \in market \cap first..end : d \in first..end - 1 \/ d = end
    BY <1>1, <1>3
  <2> QED
    BY <1>8, <2>1, <2>2 DEF Enough, first, end
<1> QED
  BY <1>0, <1>6, <1>10, <1>11 DEF PageOk, all

\* CryptoCompare's loop goes back in time; it stops at the page that begins on the
\* first day or before it, which is when that day may be left out.
LEMMA CryptoCompareMakes ==
  ASSUME World, source = "cryptocompare", NEW range \in Ranges, NEW c, NEW pages,
         NEW rows \in Seq(Days), Walked(range, c, pages, rows),
         NEW first, NEW days, NEW more,
         CryptoComparePages(range, c, pages, first, days, more)
  PROVE  /\ days \in SUBSET Days
         /\ PageOk(range, first - 1, pages + 1, rows \o Ordered(days), more)
<1> DEFINE opening == range[1]
           end == range[2]
           all == rows \o Ordered(days)
<1>1. /\ opening \in Nat /\ end \in Nat /\ opening < end
      /\ PageLimit \in Nat \ {0} /\ MaxPages \in Nat \ {0}
  BY RangeIs
<1>2. /\ pages \in 0..MaxPages - 1 /\ c = end - pages * PageLimit
      /\ Range(rows) = {d \in market : opening <= d /\ c < d /\ d < end}
  BY DEF Walked
<1>3. market \in SUBSET Days /\ \A d \in market : d \in Nat
  BY HistoryAssumption DEF World, Days
<1>0. /\ first = c - PageLimit + 1
      /\ days = {d \in market \cap first..c : opening <= d /\ d < end}
      /\ more \in BOOLEAN
      /\ more <=> first - 1 > opening /\ pages + 1 < MaxPages
  BY DEF CryptoComparePages
<1> HIDE DEF opening, end, all
<1>4. pages * PageLimit \in Nat /\ (pages + 1) * PageLimit = pages * PageLimit + PageLimit
      /\ pages + 1 \in Nat /\ (pages + 1) * PageLimit \in Nat
  BY <1>1, <1>2
<1>5. first - 1 = end - (pages + 1) * PageLimit /\ first - 1 = c - PageLimit
      /\ c \in Int /\ first \in Int
  BY <1>0, <1>1, <1>2, <1>4
<1>6. days \in SUBSET Days
  BY <1>0, <1>3
<1>7. Range(all) = Range(rows) \cup days
  BY <1>6, RowsAppend DEF all
<1>8. Range(all) = {d \in market : opening <= d /\ first - 1 < d /\ d < end}
  <2>1. \A d \in market : d \in Range(rows) <=> opening <= d /\ c < d /\ d < end
    BY <1>2
  <2>2. \A d \in market : d \in days <=> first <= d /\ d <= c /\ opening <= d /\ d < end
    BY <1>0, <1>1, <1>3, <1>5
  <2>3. \A d \in market : (c < d \/ (first <= d /\ d <= c)) <=> first - 1 < d
    <3>1. c \in Int /\ first \in Int /\ first <= c
      BY <1>0, <1>1, <1>5
    <3>2. ASSUME NEW d \in Int PROVE (c < d \/ (first <= d /\ d <= c)) <=> first - 1 < d
      BY <3>1
    <3> QED
      BY <1>3, <3>2
  <2>4. Range(rows) \subseteq market /\ days \subseteq market
    BY <1>0, <1>2
  <2>5. \A d \in market : d \in Range(all) <=> opening <= d /\ first - 1 < d /\ d < end
    <3> TAKE d \in market
    <3>1. d \in Range(all) <=> d \in Range(rows) \/ d \in days
      BY <1>7
    <3>2. (c < d \/ (first <= d /\ d <= c)) <=> first - 1 < d
      BY <2>3
    <3> QED
      BY <2>1, <2>2, <3>1, <3>2
  <2> QED
    BY <1>7, <2>4, <2>5
<1>9. ASSUME more PROVE Walked(range, first - 1, pages + 1, all)
  <2>1. pages + 1 \in 0..MaxPages - 1
    BY <1>0, <1>1, <1>2, <1>9
  <2> QED
    BY <1>5, <1>8, <2>1 DEF Walked, opening, end
<1>10. ASSUME ~more PROVE Enough(range, Range(all))
  <2>1. Range(all) \subseteq market \cap opening..end
    BY <1>1, <1>3, <1>8
  <2>2. ASSUME NEW d \in market \cap opening..end, d \notin Range(all)
        PROVE  d \in Excused(range) \cup {end}
    <3>1. d \in Nat /\ opening <= d /\ d <= end
      BY <1>1, <1>3
    <3>2. CASE d = end
      BY <3>2
    <3>3. CASE d # end
      <4>1. d <= first - 1
        BY <1>1, <1>5, <1>8, <2>2, <3>1, <3>3
      <4>2. CASE first - 1 <= opening
        <5>1. d = opening
          BY <1>1, <1>5, <3>1, <4>1, <4>2
        <5> QED
          BY <5>1 DEF Excused, opening
      <4>3. CASE ~(first - 1 <= opening)
        <5>1. ~(pages + 1 < MaxPages)
          BY <1>0, <1>1, <1>5, <1>10, <4>3
        <5>2. pages + 1 = MaxPages
          BY <1>1, <1>2, <5>1
        <5>3. d <= end - MaxPages * PageLimit
          BY <1>5, <4>1, <5>2
        <5> QED
          BY <2>2, <5>3 DEF Excused, end
      <4> QED
        BY <4>2, <4>3
    <3> QED
      BY <3>2, <3>3
  <2> QED
    BY <2>1, <2>2 DEF Enough, opening, end
<1> QED
  BY <1>0, <1>6, <1>9, <1>10 DEF PageOk, all

(***************************************************************************)
(* The fetches of every source, from the first cursor to the last page.    *)
(***************************************************************************)
\* Where a loader of this record stands in its loop.
LoaderOk(r) ==
  /\ r.pc \in {"read", "corrupt"} =>
       r.got = <<>> /\ r.cursor = FirstCursor(r.range) /\ r.pages = 0
  /\ r.pc = "fetch" => r.got \in Seq(Days) /\ Walked(r.range, r.cursor, r.pages, r.got)
  /\ r.pc \in {"store", "write", "rename"} => Complete(r.range, r.got)

FetchInv == World /\ \A l \in Loaders : LoaderOk(load[l])

\* A page leaves the loop where PageOk says, tidied if it ends there.
LEMMA AnswerMakes ==
  ASSUME CacheInv, World, UNCHANGED world,
         NEW l \in Loaders, load[l].pc = "fetch", load[l].got \in Seq(Days),
         NEW days \in SUBSET Days, NEW next, NEW more \in BOOLEAN,
         Answer(l, days, next, more),
         PageOk(load[l].range, next, load[l].pages + 1, load[l].got \o Ordered(days), more)
  PROVE  LoaderOk(load[l])'
<1> DEFINE rows == load[l].got \o Ordered(days)
           got == IF more THEN rows ELSE Tidy(rows)
           cursor == IF more THEN next ELSE 0
           pages == IF more THEN load[l].pages + 1 ELSE 0
           pc == IF more THEN "fetch" ELSE "store"
<1>1. load' = [load EXCEPT ![l].got = got, ![l].cursor = cursor,
                           ![l].pages = pages, ![l].pc = pc]
  BY DEF Answer
<1>2. DOMAIN load = Loaders /\ DOMAIN load[l] = Fields
  BY DEF CacheInv, CacheShape
<1>3. rows \in Seq(Days)
  BY RowsAppend
<1>4. PageOk(load[l].range, next, load[l].pages + 1, rows, more)
  OBVIOUS
<1> HIDE DEF rows
<1>5. more => got = rows /\ cursor = next /\ pages = load[l].pages + 1 /\ pc = "fetch"
  OBVIOUS
<1>6. ~more => got = Tidy(rows) /\ pc = "store"
  OBVIOUS
<1> HIDE DEF got, cursor, pages, pc
<1>7. /\ load'[l].got = got /\ load'[l].cursor = cursor /\ load'[l].pages = pages
      /\ load'[l].pc = pc /\ load'[l].range = load[l].range
  BY <1>1, <1>2 DEF Fields
<1>8. CASE more
  <2>1. Walked(load[l].range, next, load[l].pages + 1, rows)
    BY <1>4, <1>8 DEF PageOk
  <2>2. Walked(load[l].range, load[l].cursor, load[l].pages, load[l].got)'
    BY <1>5, <1>7, <1>8, <2>1 DEF Walked, Excused, Increasing, world
  <2>3. load'[l].pc = "fetch" /\ (load[l].got \in Seq(Days))'
    BY <1>3, <1>5, <1>7, <1>8 DEF Days
  <2> QED
    BY <2>2, <2>3 DEF LoaderOk
<1>9. CASE ~more
  <2>1. Enough(load[l].range, Range(rows)) /\ (source \in {"alpaca", "binance"} => Increasing(rows))
    BY <1>4, <1>9 DEF PageOk
  <2>2. Increasing(Tidy(rows)) /\ Range(Tidy(rows)) = Range(rows)
    BY <1>3, <2>1, TidyIs
  <2>3. Complete(load[l].range, Tidy(rows))
    BY <2>1, <2>2 DEF Complete, Enough, Increasing
  <2>4. Complete(load[l].range, load[l].got)'
    BY <1>6, <1>7, <1>9, <2>3 DEF Complete, Excused, world
  <2>5. load'[l].pc = "store"
    BY <1>6, <1>7, <1>9
  <2> QED
    BY <2>4, <2>5 DEF LoaderOk
<1> QED
  BY <1>8, <1>9

\* The loop of each source, on the record of its loader.
LEMMA PageMakes ==
  ASSUME CacheInv, FetchInv, NEW l \in Loaders, Page(l)
  PROVE  LoaderOk(load[l])'
<1>1. load[l].pc = "fetch" /\ UNCHANGED world
  BY DEF Page
<1>2. World /\ market \in SUBSET Days /\ load[l].range \in Ranges
  BY <1>1 DEF FetchInv, World, CacheInv, CacheShape, Busy
<1>3. /\ load[l].got \in Seq(Days)
      /\ Walked(load[l].range, load[l].cursor, load[l].pages, load[l].got)
  BY <1>1 DEF FetchInv, LoaderOk
<1>4. PICK range \in Ranges : range = load[l].range
  BY <1>2
<1>5. PICK c, pages, rows : c = load[l].cursor /\ pages = load[l].pages /\ rows = load[l].got
  OBVIOUS
<1>6. rows \in Seq(Days) /\ Walked(range, c, pages, rows)
  BY <1>3, <1>4, <1>5
<1>7. ASSUME NEW days \in SUBSET Days, NEW next, NEW more \in BOOLEAN,
             Answer(l, days, next, more),
             PageOk(range, next, pages + 1, rows \o Ordered(days), more)
      PROVE  LoaderOk(load[l])'
  BY <1>1, <1>2, <1>3, <1>4, <1>5, <1>7, AnswerMakes
<1>8. Start(l) = range[1] /\ End(l) = range[2]
  BY <1>4 DEF Start, End
<1>9. CASE AlpacaPage(l) \/ BinancePage(l)
  <2> DEFINE rest == market \cap c..range[2]
             page == First(rest, PageLimit)
             all == rows \o Ordered(page)
  <2>1. source \in {"alpaca", "binance"}
    BY <1>9 DEF AlpacaPage, BinancePage
  <2>2. /\ page \in SUBSET Days /\ Increasing(all)
        /\ page = rest => Enough(range, Range(all))
        /\ page # {} =>
             /\ Max(page) \in Int
             /\ Max(page) + 1 >= range[2] => Enough(range, Range(all))
             /\ \A n : Walked(range, Max(page) + 1, n, all)
             /\ Max(page \cup {0}) = Max(page)
        /\ page # rest => Cardinality(page) = PageLimit
        /\ page = {} => page = rest
    BY <1>2, <1>6, <2>1, AscendingPage
  <2>3. \E more \in BOOLEAN :
          /\ Answer(l, page, Max(page \cup {0}) + 1, more)
          /\ more => page # {}
          /\ ~more => page = rest \/ (page # {} /\ Max(page) + 1 >= range[2])
    <3>1. CASE AlpacaPage(l)
      <4>1. Answer(l, page, Max(page \cup {0}) + 1, page # rest)
        BY <1>5, <1>8, <3>1 DEF AlpacaPage
      <4> QED
        BY <2>2, <4>1
    <3>2. CASE BinancePage(l)
      <4> DEFINE more == Cardinality(page) = PageLimit /\ Max(page) + 1 < range[2]
      <4>1. Answer(l, page, Max(page \cup {0}) + 1, more)
        BY <1>5, <1>8, <3>2 DEF BinancePage
      <4>2. ASSUME more PROVE page # {}
        <5>1. Cardinality({}) = 0 /\ PageLimit # 0
          BY FS_EmptySet, HistoryAssumption
        <5> QED
          BY <4>2, <5>1
      <4>3. ASSUME ~more PROVE page = rest \/ (page # {} /\ Max(page) + 1 >= range[2])
        <5>1. range[2] \in Int
          BY RangeIs
        <5> HIDE DEF page, rest, all
        <5>2. Cardinality(page) # PageLimit \/ ~(Max(page) + 1 < range[2])
          BY <4>3
        <5> QED
          BY <2>2, <5>1, <5>2
      <4>4. more \in BOOLEAN
        OBVIOUS
      <4> HIDE DEF page, rest, more
      <4> QED
        BY <4>1, <4>2, <4>3, <4>4
    <3> QED
      BY <1>9, <3>1, <3>2
  <2> HIDE DEF page, rest, all
  <2>4. PICK more \in BOOLEAN :
          /\ Answer(l, page, Max(page \cup {0}) + 1, more)
          /\ more => page # {}
          /\ ~more => page = rest \/ (page # {} /\ Max(page) + 1 >= range[2])
    BY <2>3
  <2>5. PageOk(range, Max(page \cup {0}) + 1, pages + 1, all, more)
    BY <2>2, <2>4 DEF PageOk
  <2> QED
    BY <1>7, <2>2, <2>4, <2>5 DEF all
<1>10. CASE BitstampPage(l)
  <2> DEFINE page == First(market \cap c..LastDay, PageLimit)
             last == Max(page \cup {c})
             days == {d \in page : d < range[2]}
             more == /\ last > c /\ last + 1 < range[2]
                     /\ Cardinality(page) = PageLimit /\ pages + 1 < MaxPages
  <2>1. source = "bitstamp" /\ Answer(l, days, last + 1, more)
    BY <1>5, <1>8, <1>10 DEF BitstampPage
  <2>2. BitstampPages(range, c, pages, page, last, days, more)
    BY DEF BitstampPages
  <2>3. more \in BOOLEAN
    OBVIOUS
  <2> HIDE DEF page, last, days, more
  <2>4. days \in SUBSET Days /\ PageOk(range, last + 1, pages + 1, rows \o Ordered(days), more)
    BY <1>2, <1>6, <2>1, <2>2, BitstampMakes
  <2> QED
    BY <1>7, <2>1, <2>3, <2>4
<1>11. CASE KrakenPage(l)
  <2> DEFINE page == Latest(market \cap c + 1..LastDay, KrakenCap)
             days == {d \in page : d < range[2]}
  <2>1. source = "kraken"
    BY <1>11 DEF KrakenPage
  <2>2. PICK last \in Latest(page, 2) \cup {c} :
          Answer(l, days, last, last > c /\ last < range[2])
    BY <1>5, <1>8, <1>11 DEF KrakenPage
  <2> DEFINE more == last > c /\ last < range[2]
  <2>3. KrakenPages(range, c, page, last, days, more) /\ more \in BOOLEAN
    BY DEF KrakenPages
  <2>4. Answer(l, days, last, more)
    BY <2>2
  <2> HIDE DEF page, days, more
  <2>5. days \in SUBSET Days /\ PageOk(range, last, pages + 1, rows \o Ordered(days), more)
    BY <1>2, <1>6, <2>1, <2>3, KrakenMakes
  <2> QED
    BY <1>7, <2>3, <2>4, <2>5
<1>12. CASE CryptoComparePage(l)
  <2> DEFINE first == c - PageLimit + 1
             days == {d \in market \cap first..c : range[1] <= d /\ d < range[2]}
             more == first - 1 > range[1] /\ pages + 1 < MaxPages
  <2>1. source = "cryptocompare" /\ Answer(l, days, first - 1, more)
    BY <1>5, <1>8, <1>12 DEF CryptoComparePage
  <2>2. CryptoComparePages(range, c, pages, first, days, more) /\ more \in BOOLEAN
    BY DEF CryptoComparePages
  <2> HIDE DEF first, days, more
  <2>3. days \in SUBSET Days /\ PageOk(range, first - 1, pages + 1, rows \o Ordered(days), more)
    BY <1>2, <1>6, <2>1, <2>2, CryptoCompareMakes
  <2> QED
    BY <1>7, <2>1, <2>2, <2>3
<1>13. CASE CoinGeckoPage(l)
  <2> DEFINE days == market \cap range[1]..range[2]
  <2>1. source = "coingecko" /\ Answer(l, days, 0, FALSE)
    BY <1>8, <1>13 DEF CoinGeckoPage
  <2>2. Range(rows) = {}
    BY <1>6, <2>1 DEF Walked
  <2>3. days \in SUBSET Days
    BY <1>2
  <2>4. Range(rows \o Ordered(days)) = days
    BY <1>6, <2>2, <2>3, RowsAppend
  <2>5. Enough(range, days)
    BY DEF Enough
  <2>6. PageOk(range, 0, pages + 1, rows \o Ordered(days), FALSE)
    BY <2>1, <2>4, <2>5 DEF PageOk
  <2> HIDE DEF days
  <2> QED
    BY <1>7, <2>1, <2>3, <2>6
<1> QED
  BY <1>9, <1>10, <1>11, <1>12, <1>13 DEF Page

\* A loader that stands still stays right.
LEMMA FetchStays ==
  ASSUME FetchInv, NEW l \in Loaders, UNCHANGED world, load'[l] = load[l]
  PROVE  LoaderOk(load[l])'
<1>1. LoaderOk(load[l])
  BY DEF FetchInv
<1>2. (load[l].pc \in {"read", "corrupt"} =>
         load[l].got = <<>> /\ load[l].cursor = FirstCursor(load[l].range) /\ load[l].pages = 0)'
  BY <1>1 DEF LoaderOk, FirstCursor, world
<1>3. (load[l].pc = "fetch" =>
         /\ load[l].got \in Seq(Days)
         /\ Walked(load[l].range, load[l].cursor, load[l].pages, load[l].got))'
  BY <1>1 DEF LoaderOk, Days, Walked, Excused, Increasing, world
<1>4. (load[l].pc \in {"store", "write", "rename"} => Complete(load[l].range, load[l].got))'
  BY <1>1 DEF LoaderOk, Complete, Excused, world
<1> QED
  BY <1>2, <1>3, <1>4 DEF LoaderOk

LEMMA FetchMoves ==
  ASSUME FetchInv, NEW l \in Loaders, UNCHANGED world, LoaderOk(load[l])',
         \A p \in Loaders : p # l => load'[p] = load[p]
  PROVE  FetchInv'
<1>1. World'
  BY DEF FetchInv, World, Days, world
<1>2. ASSUME NEW p \in Loaders PROVE LoaderOk(load[p])'
  <2>1. CASE p = l
    BY <2>1
  <2>2. CASE p # l
    BY <2>2, FetchStays
  <2> QED
    BY <2>1, <2>2
<1> QED
  BY <1>1, <1>2 DEF FetchInv

\* A new record: a failed load, a crash, a load that begins.
LEMMA FreshIsOk ==
  ASSUME CacheInv, FetchInv, NEW l \in Loaders, UNCHANGED world,
         NEW r, load' = [load EXCEPT ![l] = r],
         r.pc \notin {"read", "corrupt", "fetch", "store", "write", "rename"}
  PROVE  FetchInv'
<1>1. /\ load'[l] = r
      /\ \A p \in Loaders : p # l => load'[p] = load[p]
  BY DEF CacheInv, CacheShape
<1>2. LoaderOk(load[l])'
  BY <1>1 DEF LoaderOk
<1> QED
  BY <1>1, <1>2, FetchMoves

LEMMA FailIsOk ==
  ASSUME CacheInv, FetchInv, NEW l \in Loaders, UNCHANGED world, Fail(l)
  PROVE  FetchInv'
<1>1. [Idle EXCEPT !.pc = "failed"].pc = "failed"
  BY DEF Idle
<1> QED
  BY <1>1, FreshIsOk DEF Fail

\* What has not begun is walked from the first cursor.
LEMMA BeginsIsOk ==
  ASSUME World, UNCHANGED world, NEW l \in Loaders, load'[l].range \in Ranges,
         load'[l].got = <<>>, load'[l].pages = 0,
         load'[l].cursor = FirstCursor(load'[l].range),
         load'[l].pc \in {"read", "corrupt", "fetch"}
  PROVE  LoaderOk(load[l])'
<1>1. PICK range \in Ranges : range = load'[l].range
  OBVIOUS
<1>2. PICK c : c = FirstCursor(range)
  OBVIOUS
<1>3. Walked(range, c, 0, <<>>)
  BY <1>2, Begins
<1>4. load'[l].cursor = c
  BY <1>1, <1>2
<1>5. FirstCursor(range)' = FirstCursor(range)
  BY DEF FirstCursor, world
<1>6. (load[l].cursor = FirstCursor(load[l].range))'
  BY <1>1, <1>5 DEF FirstCursor
<1>7. Walked(load[l].range, load[l].cursor, load[l].pages, load[l].got)'
  BY <1>1, <1>3, <1>4 DEF Walked, Excused, Increasing, world
<1>8. (load[l].got \in Seq(Days))'
  BY DEF Days
<1>9. load'[l].pc \notin {"store", "write", "rename"}
  OBVIOUS
<1> QED
  BY <1>6, <1>7, <1>8, <1>9 DEF LoaderOk

LEMMA FetchStep ==
  ASSUME CacheInv, FetchInv, HistoryNext
  PROVE  FetchInv'
<1>1. PICK l \in Loaders :
        \/ \E range \in Ranges, refresh \in BOOLEAN : Load(l, range, refresh)
        \/ Page(l) \/ PageFails(l) \/ Read(l) \/ Discard(l)
        \/ OpenTmp(l) \/ Write(l) \/ Rename(l) \/ Crash(l)
  BY DEF HistoryNext
<1>2. World /\ LoaderOk(load[l])
  BY DEF FetchInv
<1>3. /\ DOMAIN load = Loaders /\ DOMAIN load[l] = Fields
      /\ load[l].pc \in Busy => load[l].range \in Ranges
  BY DEF CacheInv, CacheShape
<1>4. ASSUME NEW range \in Ranges, NEW refresh \in BOOLEAN, Load(l, range, refresh)
      PROVE  FetchInv'
  <2> DEFINE pc == IF file[Key(range)] # 0 /\ ~refresh THEN "read" ELSE "fetch"
             cursor == FirstCursor(range)
             r == [Idle EXCEPT !.range = range, !.pc = pc, !.cursor = cursor]
  <2>1. load' = [load EXCEPT ![l] = r] /\ UNCHANGED world
    BY <1>4 DEF Load
  <2>2. pc \in {"read", "corrupt", "fetch"} /\ cursor = FirstCursor(range)
    OBVIOUS
  <2> HIDE DEF pc, cursor
  <2>3. r.range = range /\ r.pc = pc /\ r.cursor = cursor /\ r.got = <<>> /\ r.pages = 0
    BY DEF Idle
  <2> HIDE DEF r
  <2>4. load'[l] = r /\ \A p \in Loaders : p # l => load'[p] = load[p]
    BY <1>3, <2>1
  <2>5. FirstCursor(range)' = FirstCursor(range)
    BY <2>1 DEF FirstCursor, world
  <2>6. LoaderOk(load[l])'
    BY <1>2, <2>1, <2>2, <2>3, <2>4, <2>5, BeginsIsOk
  <2> QED
    BY <2>1, <2>4, <2>6, FetchMoves
<1>5. CASE Page(l)
  <2>1. load[l].pc = "fetch" /\ UNCHANGED world
    BY <1>5 DEF Page
  <2>2. \E days, next, more : Answer(l, days, next, more)
    BY <1>5 DEF Page, AlpacaPage, BinancePage, BitstampPage, KrakenPage,
           CryptoComparePage, CoinGeckoPage
  <2>3. \A p \in Loaders : p # l => load'[p] = load[p]
    BY <2>1, <2>2, AnswerMoves
  <2> QED
    BY <1>5, <2>1, <2>3, PageMakes, FetchMoves
<1>6. CASE PageFails(l)
  BY <1>6, FailIsOk DEF PageFails, Fail
<1>7. CASE Crash(l)
  <2>1. load' = [load EXCEPT ![l] = Idle] /\ UNCHANGED world /\ Idle.pc = "idle"
    BY <1>7 DEF Crash, Idle
  <2> QED
    BY <2>1, FreshIsOk
<1>8. CASE Read(l)
  <2>1. CASE file[NameOf(l)] = 0
    BY <1>8, <2>1, FailIsOk DEF Read
  <2>2. CASE file[NameOf(l)] # 0
    <3> DEFINE i == file[NameOf(l)]
               pc == IF disk[i].whole THEN "done" ELSE "corrupt"
               got == IF disk[i].whole THEN disk[i].bars ELSE <<>>
    <3>1. /\ load' = [load EXCEPT ![l].pc = pc, ![l].got = got]
          /\ load[l].pc = "read" /\ UNCHANGED world
      BY <1>8, <2>2 DEF Read
    <3>2. pc = "done" \/ (pc = "corrupt" /\ got = <<>>)
      OBVIOUS
    <3> HIDE DEF i, pc, got
    <3>3. /\ load'[l].pc = pc /\ load'[l].got = got
          /\ load'[l].cursor = load[l].cursor /\ load'[l].pages = load[l].pages
          /\ load'[l].range = load[l].range
          /\ \A p \in Loaders : p # l => load'[p] = load[p]
      BY <1>3, <3>1 DEF Fields
    <3>4. load[l].cursor = FirstCursor(load[l].range) /\ load[l].pages = 0
      BY <1>2, <3>1 DEF LoaderOk
    <3>5. LoaderOk(load[l])'
      BY <3>1, <3>2, <3>3, <3>4 DEF LoaderOk, FirstCursor, world
    <3> QED
      BY <3>1, <3>3, <3>5, FetchMoves
  <2> QED
    BY <2>1, <2>2
<1>9. CASE Discard(l)
  <2>1. load' = [load EXCEPT ![l].pc = "fetch"] /\ load[l].pc = "corrupt" /\ UNCHANGED world
    BY <1>9 DEF Discard
  <2>2. /\ load'[l].pc = "fetch" /\ load'[l].got = load[l].got
        /\ load'[l].cursor = load[l].cursor /\ load'[l].pages = load[l].pages
        /\ load'[l].range = load[l].range
        /\ \A p \in Loaders : p # l => load'[p] = load[p]
    BY <1>3, <2>1 DEF Fields
  <2>3. /\ load[l].got = <<>> /\ load[l].pages = 0 /\ load[l].range \in Ranges
        /\ load[l].cursor = FirstCursor(load[l].range)
    BY <1>2, <1>3, <2>1 DEF LoaderOk, Busy
  <2>4. LoaderOk(load[l])'
    BY <1>2, <2>1, <2>2, <2>3, BeginsIsOk
  <2> QED
    BY <2>1, <2>2, <2>4, FetchMoves
<1>10. ASSUME load[l].pc \in {"store", "write", "rename"}, UNCHANGED world,
              load'[l].got = load[l].got, load'[l].range = load[l].range,
              load'[l].pc \in {"write", "rename", "done"},
              \A p \in Loaders : p # l => load'[p] = load[p]
       PROVE  FetchInv'
  <2>1. Complete(load[l].range, load[l].got)
    BY <1>2, <1>10 DEF LoaderOk
  <2>2. Complete(load[l].range, load[l].got)'
    BY <1>10, <2>1 DEF Complete, Excused, world
  <2>3. LoaderOk(load[l])'
    BY <1>10, <2>2 DEF LoaderOk
  <2> QED
    BY <1>10, <2>3, FetchMoves
<1>11. CASE OpenTmp(l)
  <2>1. \E i : load' = [load EXCEPT ![l].pc = "write", ![l].inode = i]
    BY <1>11 DEF OpenTmp, Truncate
  <2>2. load[l].pc = "store" /\ UNCHANGED world
    BY <1>11 DEF OpenTmp
  <2> QED
    BY <1>3, <1>10, <2>1, <2>2 DEF Fields
<1>12. CASE Write(l)
  <2>1. load' = [load EXCEPT ![l].pc = "rename"] /\ load[l].pc = "write" /\ UNCHANGED world
    BY <1>12 DEF Write
  <2> QED
    BY <1>3, <1>10, <2>1 DEF Fields
<1>13. CASE Rename(l)
  <2>1. CASE tmp[NameOf(l)] = 0
    BY <1>13, <2>1, FailIsOk DEF Rename
  <2>2. CASE tmp[NameOf(l)] # 0
    <3>1. load' = [load EXCEPT ![l].pc = "done", ![l].inode = 0]
          /\ load[l].pc = "rename" /\ UNCHANGED world
      BY <1>13, <2>2 DEF Rename
    <3> QED
      BY <1>3, <1>10, <3>1 DEF Fields
  <2> QED
    BY <2>1, <2>2
<1> QED
  BY <1>1, <1>4, <1>5, <1>6, <1>7, <1>8, <1>9, <1>11, <1>12, <1>13

LEMMA FetchesHold == Spec => []FetchInv
<1>1. Init => CacheInv /\ FetchInv
  <2> SUFFICES ASSUME Init PROVE FetchInv
    BY CacheInit DEF Init
  <2>1. World
    BY DEF Init, HistoryInit, World, Days
  <2>2. \A l \in Loaders : load[l].pc = "idle"
    BY DEF Init, HistoryInit, Idle
  <2> QED
    BY <2>1, <2>2 DEF FetchInv, LoaderOk
<1>2. CacheInv /\ FetchInv /\ [Next]_<<history, backtest>> => CacheInv' /\ FetchInv'
  <2> SUFFICES ASSUME CacheInv, FetchInv, [Next]_<<history, backtest>> PROVE FetchInv'
    BY CacheStep
  <2>1. CASE HistoryNext
    BY <2>1, FetchStep
  <2>2. CASE UNCHANGED history
    <3>1. UNCHANGED <<world, load>>
      BY <2>2 DEF history, world
    <3>2. World'
      BY <3>1 DEF FetchInv, World, Days, world
    <3>3. \A l \in Loaders : LoaderOk(load[l])'
      BY <3>1, FetchStays
    <3> QED
      BY <3>2, <3>3 DEF FetchInv
  <2> QED
    BY <2>1, <2>2 DEF Next
<1> QED
  BY <1>1, <1>2, PTL DEF Spec

\* Every fetch of every source ends with the bars of its range, once each and in
\* order, less only those the source is excused for, whatever days the venue has,
\* and however its pages fall: the cursor loops of bars() in the six adapters.
THEOREM FetchesAreComplete == Spec => []HistoryComplete
<1>1. FetchInv => HistoryComplete
  BY DEF FetchInv, LoaderOk, HistoryComplete
<1> QED
  BY <1>1, FetchesHold, PTL

\* So a load that returns, from the source or from the cache, has the complete
\* answer to its own range, however loaders overlap and wherever one crashes.
THEOREM EveryLoadIsWhole == Spec => []LoadsAreWhole
BY FetchesAreComplete, CacheAddsNoError, PTL

(***************************************************************************)
(* The strategies.  A loop of the code is a recursive function of Strategy *)
(* and so a run of FoldInduction: Pos, Mult and Since name the three.      *)
(* What a strategy answers has the length of the series (DecidedIs), stays *)
(* as it was when a bar is added (DecidedAgrees), and its gates hold on to *)
(* a regime (GatesStick).                                                  *)
(***************************************************************************)
\* A series of n values of T.
IsSeries(x, n, T) == n \in Nat /\ x \in [1..n -> T] /\ Len(x) = n

\* A position is flat or long, a multiplier a percentage.
LEMMA PositionType == ASSUME NEW pos \in {0, 1}, NEW r \in Int PROVE NextPosition(pos, r) \in {0, 1}
BY DEF NextPosition

\* The loop of the hysteresis, and what it is.
Pos(signal) == CHOOSE pos : pos =
   [t \in 0..Len(signal) |-> IF t = 0 THEN 0 ELSE NextPosition(pos[t - 1], signal[t])]

IsPos(pos, signal, n) ==
  /\ pos \in [0..n -> {0, 1}] /\ pos[0] = 0
  /\ \A i \in 1..n : pos[i] = NextPosition(pos[i - 1], signal[i])

LEMMA PosRuns ==
  ASSUME NEW n, NEW signal, IsSeries(signal, n, Int)
  PROVE  IsPos(Pos(signal), signal, n) /\ Hysteresis(signal) = [t \in 1..n |-> Pos(signal)[t]]
<1> USE DEF IsSeries
<1> DEFINE step == [p \in {0, 1} \X Int |-> NextPosition(p[1], p[2])]
<1>1. \A pos \in {0, 1}, r \in Int : step[<<pos, r>>] = NextPosition(pos, r)
  OBVIOUS
<1>2. step \in [{0, 1} \X Int -> {0, 1}]
  BY PositionType
<1> HIDE DEF step
<1>3. IsStep(n, {0, 1}, Int, 0, step, signal)
  BY <1>2 DEF IsStep
<1>4. PICK f \in [0..n -> {0, 1}] : IsRun(f, n, 0, step, signal)
  BY <1>3, RunExists
<1>5. f[0] = 0 /\ \A i \in 1..n : f[i] = NextPosition(f[i - 1], signal[i])
  <2>1. \A i \in 1..n : f[i - 1] \in {0, 1} /\ signal[i] \in Int
    BY <1>4
  <2> QED
    BY <1>1, <1>4, <2>1 DEF IsRun
<1>6. f = [t \in 0..Len(signal) |-> IF t = 0 THEN 0 ELSE NextPosition(f[t - 1], signal[t])]
  BY <1>4, <1>5
<1> DEFINE g == Pos(signal)
<1>7. g = [t \in 0..Len(signal) |-> IF t = 0 THEN 0 ELSE NextPosition(g[t - 1], signal[t])]
  BY <1>6 DEF Pos
<1> HIDE DEF g
<1>8. g[0] = 0 /\ \A i \in 1..n : g[i] = NextPosition(g[i - 1], signal[i])
  BY <1>7
<1>9. SameSteps(g, f, n)
  BY <1>5, <1>8 DEF SameSteps
<1>10. \A i \in 0..n : g[i] = f[i]
  BY <1>9, RunsAgree
<1>11. g \in [0..n -> {0, 1}]
  BY <1>4, <1>7, <1>10
<1> QED
  BY <1>8, <1>11 DEF IsPos, g, Pos, Hysteresis

LEMMA MultiplierType ==
  ASSUME NEW mult \in 0..100, NEW vol \in Nat
  PROVE  NextMultiplier(mult, vol) \in 0..100
<1> DEFINE aim == (100 * TargetVol) \div vol
           goal == IF vol = 0 THEN 0 ELSE Min({100, aim})
<1>1. goal \in 0..100
  <2>1. CASE vol = 0
    BY <2>1
  <2>2. CASE vol # 0
    <3>1. 100 * TargetVol \in Nat
      BY WindowsAssumption
    <3>2. aim \in Nat
      BY <2>2, <3>1
    <3> HIDE DEF aim
    <3>3. \E x \in {100, aim} : \A y \in {100, aim} : x <= y
      <4>1. CASE aim <= 100
        BY <3>2, <4>1
      <4>2. CASE ~(aim <= 100)
        BY <3>2, <4>2
      <4> QED
        BY <4>1, <4>2
    <3>4. Min({100, aim}) \in {100, aim} /\ \A y \in {100, aim} : Min({100, aim}) <= y
      BY <3>3 DEF Min
    <3> QED
      BY <2>2, <3>2, <3>4
  <2> QED
    BY <2>1, <2>2
<1>2. NextMultiplier(mult, vol) \in {goal, mult}
  BY DEF NextMultiplier
<1> HIDE DEF goal
<1> QED
  BY <1>1, <1>2

\* The loop of the volatility target.
Mult(vol) == CHOOSE mult : mult =
   [i \in 0..Len(vol) |-> IF i = 0 THEN 0 ELSE NextMultiplier(mult[i - 1], vol[i])]

IsMult(mult, vol, n) ==
  /\ mult \in [0..n -> 0..100] /\ mult[0] = 0
  /\ \A i \in 1..n : mult[i] = NextMultiplier(mult[i - 1], vol[i])

LEMMA MultRuns ==
  ASSUME NEW n, NEW vol, IsSeries(vol, n, Nat)
  PROVE  IsMult(Mult(vol), vol, n)
<1> USE DEF IsSeries
<1> DEFINE step == [p \in (0..100) \X Nat |-> NextMultiplier(p[1], p[2])]
<1>1. \A mult \in 0..100, v \in Nat : step[<<mult, v>>] = NextMultiplier(mult, v)
  OBVIOUS
<1>2. step \in [(0..100) \X Nat -> 0..100]
  BY MultiplierType
<1> HIDE DEF step
<1>3. IsStep(n, 0..100, Nat, 0, step, vol)
  <2>1. 0 \in 0..100 /\ n \in Nat /\ vol \in [1..n -> Nat]
    OBVIOUS
  <2> QED
    BY <1>2, <2>1, Zenon DEF IsStep
<1>4. PICK f \in [0..n -> 0..100] : IsRun(f, n, 0, step, vol)
  BY <1>3, RunExists
<1>5. f[0] = 0 /\ \A i \in 1..n : f[i] = NextMultiplier(f[i - 1], vol[i])
  <2>1. \A i \in 1..n : f[i - 1] \in 0..100 /\ vol[i] \in Nat
    BY <1>4
  <2> QED
    BY <1>1, <1>4, <2>1 DEF IsRun
<1>6. f = [i \in 0..Len(vol) |-> IF i = 0 THEN 0 ELSE NextMultiplier(f[i - 1], vol[i])]
  BY <1>4, <1>5
<1> DEFINE g == Mult(vol)
<1>7. g = [i \in 0..Len(vol) |-> IF i = 0 THEN 0 ELSE NextMultiplier(g[i - 1], vol[i])]
  BY <1>6 DEF Mult
<1> HIDE DEF g
<1>8. g[0] = 0 /\ \A i \in 1..n : g[i] = NextMultiplier(g[i - 1], vol[i])
  BY <1>7
<1>9. SameSteps(g, f, n)
  BY <1>5, <1>8 DEF SameSteps
<1>10. \A i \in 0..n : g[i] = f[i]
  BY <1>9, RunsAgree
<1>11. g \in [0..n -> 0..100]
  BY <1>4, <1>7, <1>10
<1> QED
  BY <1>8, <1>11 DEF IsMult, g

\* The loop of the gates.
Since(known, hot, cool) == CHOOSE since : since =
   [i \in 0..Len(known) |-> IF i = 0 THEN 0 ELSE NextSince(i, since[i - 1], known, hot, cool)]

IsSince(since, n, known, hot, cool) ==
  /\ since \in [0..n -> 0..n] /\ since[0] = 0
  /\ \A i \in 1..n : since[i] = NextSince(i, since[i - 1], known, hot, cool)

LEMMA SinceRuns ==
  ASSUME NEW n \in Nat, NEW known, NEW hot, NEW cool, Len(known) = n
  PROVE  /\ IsSince(Since(known, hot, cool), n, known, hot, cool)
         /\ StickyGate(known, hot, cool) =
              [i \in 1..n |->
                 IF known[i] /\ RiskOffAt(i, Since(known, hot, cool)[i - 1], hot, cool)
                 THEN RiskOff ELSE RiskOn]
<1> DEFINE step == [p \in (0..n) \X (1..n) |-> NextSince(p[2], p[1], known, hot, cool)]
           bar == [i \in 1..n |-> i]
<1>1. \A since \in 0..n, i \in 1..n : step[<<since, i>>] = NextSince(i, since, known, hot, cool)
  OBVIOUS
<1>2. step \in [(0..n) \X (1..n) -> 0..n]
  BY DEF NextSince
<1>3. \A i \in 1..n : bar[i] = i
  OBVIOUS
<1> HIDE DEF step
<1>4. IsStep(n, 0..n, 1..n, 0, step, bar)
  BY <1>2 DEF IsStep
<1> HIDE DEF bar
<1>5. PICK f \in [0..n -> 0..n] : IsRun(f, n, 0, step, bar)
  BY <1>4, RunExists
<1>6. f[0] = 0 /\ \A i \in 1..n : f[i] = NextSince(i, f[i - 1], known, hot, cool)
  <2>1. f[0] = 0 /\ \A i \in 1..n : f[i] = step[<<f[i - 1], bar[i]>>]
    BY <1>5 DEF IsRun
  <2>2. ASSUME NEW i \in 1..n PROVE f[i] = NextSince(i, f[i - 1], known, hot, cool)
    <3>1. f[i - 1] \in 0..n
      BY <1>5
    <3>2. f[i] = step[<<f[i - 1], i>>]
      BY <1>3, <2>1
    <3> QED
      BY <1>1, <3>1, <3>2
  <2> QED
    BY <2>1, <2>2
<1>7. f = [i \in 0..Len(known) |->
             IF i = 0 THEN 0 ELSE NextSince(i, f[i - 1], known, hot, cool)]
  BY <1>5, <1>6
<1> DEFINE g == Since(known, hot, cool)
<1>8. g = [i \in 0..Len(known) |->
             IF i = 0 THEN 0 ELSE NextSince(i, g[i - 1], known, hot, cool)]
  BY <1>7 DEF Since
<1> HIDE DEF g
<1>9. g[0] = 0 /\ \A i \in 1..n : g[i] = NextSince(i, g[i - 1], known, hot, cool)
  <2>1. 0 \in 0..Len(known) /\ \A i \in 1..n : i \in 0..Len(known) /\ i # 0
    OBVIOUS
  <2> QED
    BY <1>8, <2>1, Zenon
<1>10. SameSteps(g, f, n)
  BY <1>6, <1>9 DEF SameSteps
<1>11. \A i \in 0..n : g[i] = f[i]
  BY <1>10, RunsAgree
<1>12. g \in [0..n -> 0..n]
  BY <1>5, <1>8, <1>11
<1> QED
  BY <1>9, <1>12 DEF IsSince, g, Since, StickyGate

\* Each part of a strategy answers a series.
LEMMA MaxOfTwo ==
  ASSUME NEW a \in Int, NEW b \in Int
  PROVE  Max({a, b}) \in {a, b} /\ Max({a, b}) >= a /\ Max({a, b}) >= b
<1>1. \E x \in {a, b} : \A y \in {a, b} : x >= y
  <2>1. CASE a >= b
    BY <2>1
  <2>2. CASE ~(a >= b)
    BY <2>2
  <2> QED
    BY <2>1, <2>2
<1> QED
  BY <1>1 DEF Max

LEMMA RetsAre ==
  ASSUME NEW n, NEW bars, IsSeries(bars, n, Closes), n # 0
  PROVE  IsSeries(Rets(bars), n - 1, Int)
<1> USE DEF IsSeries
<1>1. n - 1 \in Nat
  OBVIOUS
<1>2. ASSUME NEW i \in 1..n - 1
      PROVE  (Scale * (bars[i + 1] - bars[i])) \div bars[i] \in Int
  <2>1. bars[i] \in Closes /\ bars[i + 1] \in Closes
    OBVIOUS
  <2>2. bars[i] \in Nat \ {0} /\ bars[i + 1] \in Nat /\ Scale \in Nat
    BY <2>1, ClosesAssumption
  <2> DEFINE x == Scale * (bars[i + 1] - bars[i])
  <2>3. x \in Int
    BY <2>2
  <2> HIDE DEF x
  <2>4. x \div bars[i] \in Int
    BY <2>2, <2>3
  <2> QED
    BY <2>4 DEF x
<1> QED
  BY <1>1, <1>2 DEF Rets

LEMMA RealizedAre ==
  ASSUME NEW n, NEW rets, IsSeries(rets, n, Int)
  PROVE  IsSeries(RealizedVol(rets), n, Nat)
<1> USE DEF IsSeries
<1>1. ASSUME NEW i \in 1..n
      PROVE  (IF i < VolLookback THEN 0 ELSE Distance(rets[i], rets[i - 1])) \in Nat
  <2>1. CASE i < VolLookback
    BY <2>1
  <2>2. CASE ~(i < VolLookback)
    <3>1. rets[i] \in Int /\ rets[i - 1] \in Int
      BY <2>2 DEF VolLookback
    <3> QED
      BY <2>2, <3>1 DEF Distance
  <2> QED
    BY <2>1, <2>2
<1> QED
  BY <1>1 DEF RealizedVol

LEMMA Shifted ==
  ASSUME NEW n, NEW x, IsSeries(x, n, Nat)
  PROVE  /\ IsSeries(<<0>> \o x, n + 1, Nat)
         /\ (<<0>> \o x)[1] = 0
         /\ \A i \in 1..n : (<<0>> \o x)[i + 1] = x[i]
<1> USE DEF IsSeries
<1>1. x \in Seq(Nat) /\ <<0>> \in Seq(Nat) /\ Len(<<0>>) = 1
  OBVIOUS
<1> DEFINE y == <<0>> \o x
<1>2. y \in Seq(Nat) /\ Len(y) = n + 1
  BY <1>1
<1>3. y[1] = 0
  BY <1>1
<1>4. \A i \in 1..n : y[i + 1] = x[i]
  BY <1>1
<1> HIDE DEF y
<1>5. IsSeries(y, n + 1, Nat)
  BY <1>2
<1> QED
  BY <1>3, <1>4, <1>5 DEF y

LEMMA VolAtBarIs ==
  ASSUME NEW n, NEW bars, IsSeries(bars, n, Closes), n # 0
  PROVE  /\ IsSeries(VolAtBar(bars), n, Nat)
         /\ IsSeries(RealizedVol(Rets(bars)), n - 1, Nat)
         /\ VolAtBar(bars)[1] = 0
         /\ \A i \in 1..n - 1 : VolAtBar(bars)[i + 1] = RealizedVol(Rets(bars))[i]
<1> DEFINE m == n - 1
           x == RealizedVol(Rets(bars))
<1>1. IsSeries(x, m, Nat) /\ m + 1 = n
  <2>1. IsSeries(Rets(bars), m, Int)
    BY RetsAre
  <2>2. IsSeries(x, m, Nat)
    BY <2>1, RealizedAre
  <2> QED
    BY <2>2 DEF IsSeries
<1> HIDE DEF m, x
<1>2. /\ IsSeries(<<0>> \o x, m + 1, Nat)
      /\ (<<0>> \o x)[1] = 0
      /\ \A i \in 1..m : (<<0>> \o x)[i + 1] = x[i]
  BY <1>1, Shifted
<1> QED
  BY <1>1, <1>2 DEF VolAtBar, x, m

LEMMA LookbacksAreFinite == /\ IsFiniteSet(Lookbacks) /\ Cardinality(Lookbacks) \in Nat
                            /\ Max(Lookbacks) \in Lookbacks
                            /\ \A l \in Lookbacks : l \in Nat \ {0} /\ l <= Max(Lookbacks)
<1>1. PICK longest \in Lookbacks : \A l \in Lookbacks : l <= longest
  BY WindowsAssumption
<1>2. Lookbacks \subseteq Nat \ {0}
  BY WindowsAssumption
<1>3. Lookbacks \subseteq 1..longest
  BY <1>1, <1>2
<1>4. IsFiniteSet(1..longest)
  BY <1>2, FS_Interval
<1>5. IsFiniteSet(Lookbacks)
  BY <1>3, <1>4, FS_Subset
<1>6. \E x \in Lookbacks : \A y \in Lookbacks : x >= y
  BY <1>1, <1>2
<1>7. Max(Lookbacks) \in Lookbacks /\ \A y \in Lookbacks : Max(Lookbacks) >= y
  BY <1>6 DEF Max
<1> QED
  BY <1>2, <1>5, <1>7, FS_CardinalityType

LEMMA SignalIs ==
  ASSUME NEW n, NEW bars, IsSeries(bars, n, Closes)
  PROVE  IsSeries(Signal(bars), n, Int)
<1> USE DEF IsSeries
<1> DEFINE Votes(t, sign) ==
        Cardinality({L \in Lookbacks : LookbackSign(bars, t, L) = sign})
           signal == [t \in 1..Len(bars) |->
             IF t <= Max(Lookbacks) THEN 0 ELSE Votes(t, 1) - Votes(t, -1)]
<1>1. \A t, sign : Votes(t, sign) \in Nat
  <2> TAKE t, sign
  <2>1. IsFiniteSet({L \in Lookbacks : LookbackSign(bars, t, L) = sign})
    BY LookbacksAreFinite, FS_Subset
  <2> QED
    BY <2>1, FS_CardinalityType
<1>2. Signal(bars) = signal
  BY DEF Signal
<1> HIDE DEF Votes
<1>3. IsSeries(signal, n, Int)
  BY <1>1
<1> QED
  BY <1>2, <1>3

LEMMA MomentumIs ==
  ASSUME NEW n, NEW bars, IsSeries(bars, n, Closes)
  PROVE  IsSeries(Momentum(bars), n, {0, 1})
<1>1. IsSeries(Signal(bars), n, Int)
  BY SignalIs
<1>2. /\ IsPos(Pos(Signal(bars)), Signal(bars), n)
      /\ Momentum(bars) = [t \in 1..n |-> Pos(Signal(bars))[t]]
  BY <1>1, PosRuns DEF Momentum
<1> QED
  BY <1>2 DEF IsPos, IsSeries

LEMMA VolTargetIs ==
  ASSUME NEW n, NEW bars, IsSeries(bars, n, Closes), n # 0
  PROVE  IsSeries(VolTarget(bars), n, 0..100)
<1>1. IsSeries(VolAtBar(bars), n, Nat)
  BY VolAtBarIs
<1>2. IsMult(Mult(VolAtBar(bars)), VolAtBar(bars), n)
  BY <1>1, MultRuns
<1>3. VolTarget(bars) = [i \in 1..n |-> Mult(VolAtBar(bars))[i]]
  BY <1>1 DEF VolTarget, Mult, IsSeries
<1> QED
  BY <1>2, <1>3 DEF IsMult, IsSeries

LEMMA GatesAre ==
  ASSUME NEW n, NEW bars, IsSeries(bars, n, Closes), n # 0
  PROVE  /\ IsSeries(RatioGate(bars), n, {RiskOff, RiskOn})
         /\ IsSeries(PercentileGate(bars), n, {RiskOff, RiskOn})
<1>1. IsSeries(VolAtBar(bars), n, Nat)
  BY VolAtBarIs
<1>2. DOMAIN VolAtBar(bars) = 1..n /\ n \in Nat
  BY <1>1 DEF IsSeries
<1>3. \A known, hot, cool : Len(known) = n =>
         IsSeries(StickyGate(known, hot, cool), n, {RiskOff, RiskOn})
  BY <1>2, SinceRuns DEF IsSeries
<1>4. Len(RatioLevels(bars).known) = n
  BY <1>2 DEF RatioLevels
<1>5. Len(PercentileLevels(bars).known) = n
  BY <1>2 DEF PercentileLevels
<1> QED
  BY <1>3, <1>4, <1>5 DEF RatioGate, PercentileGate

\* What run_fold checks of a strategy, that it returns one position for each bar
\* it is given, and that the position is from flat to all of it.
LEMMA DecidedIs ==
  ASSUME NEW n, NEW bars, IsSeries(bars, n, Closes), n # 0,
         NEW s \in TrendStrategies \cup PlainStrategies
  PROVE  IsSeries(Decided(s, bars), n, 0..FullSize)
<1> DEFINE m == Momentum(bars)
           v == VolTarget(bars)
           g == RatioGate(bars)
           p == PercentileGate(bars)
<1>1. /\ IsSeries(m, n, {0, 1}) /\ IsSeries(v, n, 0..100)
      /\ IsSeries(g, n, {1, 2}) /\ IsSeries(p, n, {1, 2})
  BY MomentumIs, VolTargetIs, GatesAre DEF RiskOff, RiskOn
<1>2. \A a \in {0, 1}, b \in 0..100, c \in {1, 2} : a * FullSize \in 0..FullSize /\ a * b * c \in 0..FullSize
  <2> TAKE a \in {0, 1}, b \in 0..100, c \in {1, 2}
  <2>1. CASE a = 0
    BY <2>1 DEF FullSize
  <2>2. CASE a = 1 /\ c = 1
    BY <2>2 DEF FullSize
  <2>3. CASE a = 1 /\ c = 2
    BY <2>3 DEF FullSize
  <2> QED
    BY <2>1, <2>2, <2>3
<1> HIDE DEF m, v, g, p
<1> USE DEF IsSeries
<1>3. ASSUME NEW i \in 1..n
      PROVE  /\ m[i] * FullSize \in 0..FullSize
             /\ m[i] * v[i] * RiskOn \in 0..FullSize
             /\ m[i] * v[i] * g[i] \in 0..FullSize
             /\ m[i] * v[i] * p[i] \in 0..FullSize
  <2>1. m[i] \in {0, 1} /\ v[i] \in 0..100 /\ g[i] \in {1, 2} /\ p[i] \in {1, 2}
    BY <1>1
  <2>2. RiskOn \in {1, 2}
    BY DEF RiskOn
  <2> QED
    BY <1>2, <2>1, <2>2, Zenon
<1>4. DOMAIN m = 1..n /\ n \in Nat
  BY <1>1
<1> DEFINE a1 == [i \in 1..n |-> m[i] * FullSize]
           a2 == [i \in 1..n |-> m[i] * v[i] * RiskOn]
           a3 == [i \in 1..n |-> m[i] * v[i] * g[i]]
           a4 == [i \in 1..n |-> m[i] * v[i] * p[i]]
<1>5. /\ a1 \in [1..n -> 0..FullSize] /\ a2 \in [1..n -> 0..FullSize]
      /\ a3 \in [1..n -> 0..FullSize] /\ a4 \in [1..n -> 0..FullSize]
  BY <1>3, Zenon
<1>6. /\ IsSeries(a1, n, 0..FullSize) /\ IsSeries(a2, n, 0..FullSize)
      /\ IsSeries(a3, n, 0..FullSize) /\ IsSeries(a4, n, 0..FullSize)
  <2>1. Len(a1) = n /\ Len(a2) = n /\ Len(a3) = n /\ Len(a4) = n
    BY <1>4
  <2> QED
    BY <1>4, <1>5, <2>1, Zenon
<1>7. IsSeries([i \in DOMAIN bars |-> FullSize], n, 0..FullSize) /\ IsSeries([i \in DOMAIN bars |-> 0], n, 0..FullSize)
  BY DEF FullSize
<1> HIDE DEF IsSeries
<1>8. CASE s = "tsmom"
  BY <1>4, <1>6, <1>8 DEF Decided, Tsmom, m
<1>9. CASE s = "tsmom_voltarget"
  BY <1>4, <1>6, <1>9 DEF Decided, TsmomVoltarget, m, v
<1>10. CASE s = "tsmom_full"
  BY <1>4, <1>6, <1>10 DEF Decided, TsmomFull, m, v, g
<1>11. CASE s = "tsmom_full_v2"
  BY <1>4, <1>6, <1>11 DEF Decided, TsmomFullV2, m, v, p
<1>12. CASE s = "buy_and_hold"
  BY <1>7, <1>12 DEF Decided, BuyAndHold
<1>13. CASE s = "flat"
  BY <1>7, <1>13 DEF Decided, Flat
<1> QED
  BY <1>8, <1>9, <1>10, <1>11, <1>12, <1>13 DEF TrendStrategies, PlainStrategies

(***************************************************************************)
(* No look-ahead: on a series and the same with one bar more, each part of *)
(* a strategy agrees up to the last bar of the shorter one.                *)
(***************************************************************************)
\* Two series that agree up to bar n.
Agree(x, y, n) == \A i \in 1..n : x[i] = y[i]

\* A series of bars and the same with one bar more.
Longer(bars, more, n) ==
  /\ n # 0
  /\ IsSeries(bars, n, Closes) /\ IsSeries(more, n + 1, Closes)
  /\ Agree(bars, more, n)

LEMMA RetsAgree ==
  ASSUME NEW n, NEW bars, NEW more, Longer(bars, more, n)
  PROVE  Agree(Rets(bars), Rets(more), n - 1)
<1> USE DEF Longer, IsSeries, Agree
<1>1. ASSUME NEW i \in 1..n - 1 PROVE Rets(bars)[i] = Rets(more)[i]
  <2>1. i \in 1..n /\ i + 1 \in 1..n /\ i \in 1..Len(bars) - 1 /\ i \in 1..Len(more) - 1
    OBVIOUS
  <2>2. bars[i] = more[i] /\ bars[i + 1] = more[i + 1]
    BY <2>1
  <2> QED
    BY <2>1, <2>2 DEF Rets
<1> QED
  BY <1>1

LEMMA VolsAgree ==
  ASSUME NEW n, NEW bars, NEW more, Longer(bars, more, n)
  PROVE  /\ Agree(VolAtBar(bars), VolAtBar(more), n)
         /\ Agree(RealizedVol(Rets(bars)), RealizedVol(Rets(more)), n - 1)
<1>1. /\ n \in Nat \ {0} /\ n + 1 # 0 /\ n + 1 - 1 = n
      /\ IsSeries(bars, n, Closes) /\ IsSeries(more, n + 1, Closes)
  BY DEF Longer, IsSeries
<1> DEFINE r == Rets(bars)
           q == Rets(more)
           x == RealizedVol(r)
           y == RealizedVol(q)
           v == VolAtBar(bars)
           w == VolAtBar(more)
<1>2. IsSeries(r, n - 1, Int) /\ IsSeries(q, n, Int) /\ Agree(r, q, n - 1)
  <2>1. IsSeries(q, n + 1 - 1, Int)
    BY <1>1, RetsAre
  <2> QED
    BY <1>1, <2>1, RetsAre, RetsAgree
<1>3. v[1] = 0 /\ \A i \in 1..n - 1 : v[i + 1] = x[i]
  BY <1>1, VolAtBarIs
<1>4. w[1] = 0 /\ \A i \in 1..n : w[i + 1] = y[i]
  <2>1. w[1] = 0 /\ \A i \in 1..n + 1 - 1 : w[i + 1] = y[i]
    BY <1>1, VolAtBarIs
  <2> QED
    BY <1>1, <2>1
<1> HIDE DEF r, q, v, w
<1>5. ASSUME NEW i \in 1..n - 1 PROVE x[i] = y[i]
  <2>1. i \in DOMAIN r /\ i \in DOMAIN q
    BY <1>1, <1>2 DEF IsSeries
  <2>2. i >= VolLookback => i - 1 \in 1..n - 1
    BY <1>1 DEF VolLookback
  <2>3. r[i] = q[i] /\ (i >= VolLookback => r[i - 1] = q[i - 1])
    BY <1>2, <2>2 DEF Agree
  <2>4. x[i] = IF i < VolLookback THEN 0 ELSE Distance(r[i], r[i - 1])
    BY <2>1 DEF RealizedVol
  <2>5. y[i] = IF i < VolLookback THEN 0 ELSE Distance(q[i], q[i - 1])
    BY <2>1 DEF RealizedVol
  <2> QED
    BY <1>1, <2>3, <2>4, <2>5 DEF VolLookback
<1> HIDE DEF x, y
<1>6. ASSUME NEW i \in 1..n PROVE v[i] = w[i]
  <2>1. CASE i = 1
    BY <1>3, <1>4, <2>1
  <2>2. CASE i # 1
    <3> DEFINE j == i - 1
    <3>1. j \in 1..n - 1 /\ j \in 1..n /\ i = j + 1
      BY <1>1, <2>2
    <3> HIDE DEF j
    <3> QED
      BY <1>3, <1>4, <1>5, <3>1
  <2> QED
    BY <2>1, <2>2
<1> QED
  BY <1>5, <1>6 DEF Agree, x, y, v, w, r, q

LEMMA SignalsAgree ==
  ASSUME NEW n, NEW bars, NEW more, Longer(bars, more, n)
  PROVE  Agree(Signal(bars), Signal(more), n)
<1>1. /\ n \in Nat \ {0} /\ Len(bars) = n /\ Len(more) = n + 1
      /\ \A i \in 1..n : bars[i] = more[i]
  BY DEF Longer, IsSeries, Agree
<1>2. \A i \in 1..n - 1 : Rets(bars)[i] = Rets(more)[i]
  BY RetsAgree DEF Agree
<1>3. ASSUME NEW t \in 1..n, ~(t <= Max(Lookbacks)), NEW L \in Lookbacks
      PROVE  LookbackSign(bars, t, L) = LookbackSign(more, t, L)
  <2>1. L \in Nat \ {0} /\ L <= Max(Lookbacks) /\ Max(Lookbacks) \in Nat
    BY LookbacksAreFinite
  <2>2. t - L \in 1..n - 1 /\ t - L \in 1..n /\ \A i \in t - L..t - 1 : i \in 1..n - 1
    BY <1>1, <1>3, <2>1
  <2>3. \A i \in t - L..t - 1 : Rets(bars)[i] = Rets(more)[i]
    BY <1>2, <2>2
  <2>4. Rets(bars)[t - L] = Rets(more)[t - L] /\ bars[t] = more[t] /\ bars[t - L] = more[t - L]
    BY <1>1, <1>2, <2>2
  <2> QED
    BY <2>3, <2>4 DEF LookbackSign
<1> DEFINE For(b, t, sign) == {L \in Lookbacks : LookbackSign(b, t, L) = sign}
<1>4. ASSUME NEW t \in 1..n PROVE Signal(bars)[t] = Signal(more)[t]
  <2>1. t \in 1..Len(bars) /\ t \in 1..Len(more)
    BY <1>1
  <2>2. /\ Signal(bars)[t] = IF t <= Max(Lookbacks) THEN 0
             ELSE Cardinality(For(bars, t, 1)) - Cardinality(For(bars, t, -1))
        /\ Signal(more)[t] = IF t <= Max(Lookbacks) THEN 0
             ELSE Cardinality(For(more, t, 1)) - Cardinality(For(more, t, -1))
    BY <2>1 DEF Signal
  <2>3. CASE t <= Max(Lookbacks)
    BY <2>2, <2>3
  <2>4. CASE ~(t <= Max(Lookbacks))
    <3>1. For(bars, t, 1) = For(more, t, 1) /\ For(bars, t, -1) = For(more, t, -1)
      BY <1>3, <2>4
    <3> HIDE DEF For
    <3> QED
      BY <2>2, <2>4, <3>1
  <2> QED
    BY <2>3, <2>4
<1> QED
  BY <1>4 DEF Agree

LEMMA MomentumAgrees ==
  ASSUME NEW n, NEW bars, NEW more, Longer(bars, more, n)
  PROVE  Agree(Momentum(bars), Momentum(more), n)
<1> DEFINE x == Signal(bars)
           y == Signal(more)
<1>1. n \in Nat /\ IsSeries(bars, n, Closes) /\ IsSeries(more, n + 1, Closes)
  BY DEF Longer, IsSeries
<1>2. IsSeries(x, n, Int) /\ IsSeries(y, n + 1, Int) /\ Agree(x, y, n)
  BY <1>1, SignalIs, SignalsAgree
<1>3. IsPos(Pos(x), x, n) /\ Momentum(bars) = [t \in 1..n |-> Pos(x)[t]]
  BY <1>2, PosRuns DEF Momentum
<1>4. IsPos(Pos(y), y, n + 1) /\ Momentum(more) = [t \in 1..n + 1 |-> Pos(y)[t]]
  BY <1>2, PosRuns DEF Momentum
<1> HIDE DEF x, y
<1>5. SameSteps(Pos(x), Pos(y), n)
  <2>1. \A i \in 1..n : i \in 1..n + 1 /\ x[i] = y[i]
    BY <1>1, <1>2 DEF Agree
  <2> QED
    BY <1>1, <1>3, <1>4, <2>1 DEF SameSteps, IsPos
<1>6. \A i \in 0..n : Pos(x)[i] = Pos(y)[i]
  BY <1>5, RunsAgree
<1> QED
  BY <1>1, <1>3, <1>4, <1>6 DEF Agree

LEMMA VolTargetsAgree ==
  ASSUME NEW n, NEW bars, NEW more, Longer(bars, more, n)
  PROVE  Agree(VolTarget(bars), VolTarget(more), n)
<1> DEFINE x == VolAtBar(bars)
           y == VolAtBar(more)
<1>1. n \in Nat /\ n + 1 # 0 /\ n # 0 /\ IsSeries(bars, n, Closes) /\ IsSeries(more, n + 1, Closes)
  BY DEF Longer, IsSeries
<1>2. IsSeries(x, n, Nat) /\ IsSeries(y, n + 1, Nat) /\ Agree(x, y, n)
  BY <1>1, VolAtBarIs, VolsAgree
<1>3. IsMult(Mult(x), x, n) /\ VolTarget(bars) = [t \in 1..n |-> Mult(x)[t]]
  BY <1>2, MultRuns DEF VolTarget, Mult, IsSeries
<1>4. IsMult(Mult(y), y, n + 1) /\ VolTarget(more) = [t \in 1..n + 1 |-> Mult(y)[t]]
  BY <1>2, MultRuns DEF VolTarget, Mult, IsSeries
<1> HIDE DEF x, y
<1>5. SameSteps(Mult(x), Mult(y), n)
  <2>1. \A i \in 1..n : i \in 1..n + 1 /\ x[i] = y[i]
    BY <1>1, <1>2 DEF Agree
  <2> QED
    BY <1>1, <1>3, <1>4, <2>1 DEF SameSteps, IsMult
<1>6. \A i \in 0..n : Mult(x)[i] = Mult(y)[i]
  BY <1>5, RunsAgree
<1> QED
  BY <1>1, <1>3, <1>4, <1>6 DEF Agree

\* The values of a window, and so what is made of them, are those of both series.
LEMMA PositivesAgree ==
  ASSUME NEW n \in Nat, NEW x, NEW y, Agree(x, y, n),
         NEW i \in 1..n, NEW first \in Int, first >= 1
  PROVE  Positive(x, first, i) = Positive(y, first, i)
<1>1. \A j \in first..i : x[j] = y[j]
  BY DEF Agree
<1>2. {j \in first..i : x[j] > 0} = {j \in first..i : y[j] > 0}
  BY <1>1
<1> DEFINE at == {j \in first..i : x[j] > 0}
<1>3. Positive(x, first, i) = [j \in at |-> x[j]] /\ Positive(y, first, i) = [j \in at |-> y[j]]
  BY <1>2 DEF Positive
<1>4. at \subseteq first..i
  OBVIOUS
<1> HIDE DEF at
<1> QED
  BY <1>1, <1>3, <1>4

LEMMA MediansAgree ==
  ASSUME NEW n, NEW m, NEW x, NEW y, IsSeries(x, n, Nat), IsSeries(y, m, Nat), m >= n,
         Agree(x, y, n), NEW window \in Nat
  PROVE  Agree(RollingMedian(x, window), RollingMedian(y, window), n)
<1>1. n \in Nat /\ m \in Nat /\ DOMAIN x = 1..n /\ DOMAIN y = 1..m
  BY DEF IsSeries
<1>2. ASSUME NEW i \in 1..n PROVE RollingMedian(x, window)[i] = RollingMedian(y, window)[i]
  <2>1. i \in DOMAIN x /\ i \in DOMAIN y
    BY <1>1
  <2>2. CASE i < window
    BY <2>1, <2>2 DEF RollingMedian
  <2>3. CASE ~(i < window)
    <3>1. i - window + 1 \in Int /\ i - window + 1 >= 1
      BY <2>3
    <3>2. Positive(x, i - window + 1, i) = Positive(y, i - window + 1, i)
      BY <1>1, <3>1, PositivesAgree
    <3> QED
      BY <2>1, <3>2 DEF RollingMedian
  <2> QED
    BY <2>2, <2>3
<1> QED
  BY <1>2 DEF Agree

LEMMA PercentilesAgree ==
  ASSUME NEW n, NEW m, NEW x, NEW y, IsSeries(x, n, Nat), IsSeries(y, m, Nat), m >= n,
         Agree(x, y, n)
  PROVE  Agree(RollingPercentile(x), RollingPercentile(y), n)
<1>1. n \in Nat /\ m \in Nat /\ DOMAIN x = 1..n /\ DOMAIN y = 1..m
  BY DEF IsSeries
<1>2. ASSUME NEW i \in 1..n PROVE RollingPercentile(x)[i] = RollingPercentile(y)[i]
  <2> DEFINE first == Max({1, i - LongBaseline + 1})
  <2>1. i \in DOMAIN x /\ i \in DOMAIN y
    BY <1>1
  <2>2. 1 \in Int /\ i - LongBaseline + 1 \in Int
    BY WindowsAssumption
  <2>3. first \in Int /\ first >= 1
    BY <2>2, MaxOfTwo
  <2>4. RollingPercentile(x)[i] =
         LET value == Positive(x, first, i)
             k == Cardinality(DOMAIN value)
         IN  IF k < MinSamples THEN 0 ELSE Kth(value, (Percentile * (k - 1)) \div 100 + 1)
    BY <2>1 DEF RollingPercentile
  <2>5. RollingPercentile(y)[i] =
         LET value == Positive(y, first, i)
             k == Cardinality(DOMAIN value)
         IN  IF k < MinSamples THEN 0 ELSE Kth(value, (Percentile * (k - 1)) \div 100 + 1)
    BY <2>1 DEF RollingPercentile
  <2> HIDE DEF first
  <2>6. Positive(x, first, i) = Positive(y, first, i)
    BY <1>1, <2>3, PositivesAgree
  <2> QED
    BY <2>4, <2>5, <2>6
<1> QED
  BY <1>2 DEF Agree

(***************************************************************************)
(* The levels of the gates are numbers, because the value that a median or *)
(* a percentile chooses is there.                                          *)
(***************************************************************************)
LEMMA PositiveIs ==
  ASSUME NEW n, NEW x, IsSeries(x, n, Nat), NEW i \in 1..n, NEW first \in Int, first >= 1
  PROVE  \E at \in SUBSET (0..n) :
           /\ Positive(x, first, i) \in [at -> Nat]
           /\ DOMAIN Positive(x, first, i) = at
           /\ Cardinality(at) \in Nat
<1> DEFINE at == {j \in first..i : x[j] > 0}
<1>1. n \in Nat /\ at \subseteq 1..n /\ at \subseteq 0..n /\ x \in [1..n -> Nat]
  BY DEF IsSeries
<1>2. Positive(x, first, i) = [j \in at |-> x[j]]
  BY DEF Positive
<1> HIDE DEF at
<1>3. \A j \in at : x[j] \in Nat
  BY <1>1
<1>4. IsFiniteSet(at)
  <2>1. IsFiniteSet(1..n)
    BY <1>1, FS_Interval
  <2> QED
    BY <1>1, <2>1, FS_Subset
<1>5. Cardinality(at) \in Nat
  BY <1>4, FS_CardinalityType
<1> QED
  BY <1>1, <1>2, <1>3, <1>5

LEMMA MediansAre ==
  ASSUME NEW n, NEW x, IsSeries(x, n, Nat), NEW window \in Nat
  PROVE  IsSeries(RollingMedian(x, window), n, Nat)
<1>1. n \in Nat /\ DOMAIN x = 1..n
  BY DEF IsSeries
<1>2. ASSUME NEW i \in 1..n PROVE RollingMedian(x, window)[i] \in Nat
  <2>1. CASE i < window
    BY <1>1, <2>1 DEF RollingMedian
  <2>2. CASE ~(i < window)
    <3> DEFINE value == Positive(x, i - window + 1, i)
               c == Cardinality(DOMAIN value)
    <3>1. i - window + 1 \in Int /\ i - window + 1 >= 1
      BY <2>2
    <3>2. PICK at \in SUBSET (0..n) : value \in [at -> Nat] /\ DOMAIN value = at /\ Cardinality(at) \in Nat
      BY <3>1, PositiveIs
    <3>3. RollingMedian(x, window)[i] =
            IF c = 0 THEN 0 ELSE Kth(value, (c + 1) \div 2) + Kth(value, c \div 2 + 1)
      BY <1>1, <2>2 DEF RollingMedian
    <3>4. c = Cardinality(at) /\ c \in Nat
      BY <3>2
    <3> HIDE DEF value, c
    <3>5. CASE c = 0
      BY <3>3, <3>5
    <3>6. CASE c # 0
      <4> DEFINE k1 == (c + 1) \div 2
                 k2 == c \div 2 + 1
      <4>1. k1 \in Nat \ {0} /\ k1 <= c /\ k2 \in Nat \ {0} /\ k2 <= c
        BY <3>4, <3>6
      <4>2. RollingMedian(x, window)[i] = Kth(value, k1) + Kth(value, k2)
        BY <3>3, <3>6
      <4> HIDE DEF k1, k2
      <4>3. Kth(value, k1) \in {value[j] : j \in at} /\ Kth(value, k2) \in {value[j] : j \in at}
        BY <1>1, <3>2, <3>4, <4>1, KthIs
      <4>4. Kth(value, k1) \in Nat /\ Kth(value, k2) \in Nat
        BY <3>2, <4>3
      <4> QED
        BY <4>2, <4>4
    <3> QED
      BY <3>5, <3>6
  <2> QED
    BY <2>1, <2>2
<1>3. RollingMedian(x, window) \in [1..n -> Nat] /\ Len(RollingMedian(x, window)) = n
  <2> DEFINE y == RollingMedian(x, window)
  <2>1. \E body \in [1..n -> {y[i] : i \in 1..n}] : y = body
    BY <1>1 DEF RollingMedian
  <2>2. DOMAIN y = 1..n /\ y = [i \in 1..n |-> y[i]]
    BY <2>1
  <2> HIDE DEF y
  <2>3. y \in [1..n -> Nat]
    BY <1>2, <2>2 DEF y
  <2> QED
    BY <1>1, <2>3 DEF y
<1> QED
  BY <1>1, <1>3 DEF IsSeries

LEMMA PercentilesAre ==
  ASSUME NEW n, NEW x, IsSeries(x, n, Nat)
  PROVE  IsSeries(RollingPercentile(x), n, Nat)
<1>1. n \in Nat /\ DOMAIN x = 1..n
  BY DEF IsSeries
<1>2. ASSUME NEW i \in 1..n PROVE RollingPercentile(x)[i] \in Nat
  <2> DEFINE first == Max({1, i - LongBaseline + 1})
             value == Positive(x, first, i)
             c == Cardinality(DOMAIN value)
  <2>1. RollingPercentile(x)[i] =
          IF c < MinSamples THEN 0 ELSE Kth(value, (Percentile * (c - 1)) \div 100 + 1)
    BY <1>1 DEF RollingPercentile
  <2>2. 1 \in Int /\ i - LongBaseline + 1 \in Int
    BY WindowsAssumption
  <2>3. first \in Int /\ first >= 1
    BY <2>2, MaxOfTwo
  <2> HIDE DEF first
  <2>4. PICK at \in SUBSET (0..n) : value \in [at -> Nat] /\ DOMAIN value = at /\ Cardinality(at) \in Nat
    BY <2>3, PositiveIs
  <2>5. c = Cardinality(at) /\ c \in Nat
    BY <2>4
  <2> HIDE DEF value, c
  <2>6. CASE c < MinSamples
    BY <2>1, <2>6
  <2>7. CASE ~(c < MinSamples)
    <3> DEFINE k == (Percentile * (c - 1)) \div 100 + 1
    <3>1. c >= 1
      BY <2>5, <2>7, WindowsAssumption
    <3>2. k \in Nat \ {0} /\ k <= c
      BY <2>5, <3>1 DEF Percentile
    <3>3. RollingPercentile(x)[i] = Kth(value, k)
      BY <2>1, <2>7
    <3> HIDE DEF k
    <3>4. Kth(value, k) \in {value[j] : j \in at}
      BY <1>1, <2>4, <2>5, <3>2, KthIs
    <3> QED
      BY <2>4, <3>3, <3>4
  <2> QED
    BY <2>6, <2>7
<1>3. RollingPercentile(x) \in [1..n -> Nat] /\ Len(RollingPercentile(x)) = n
  <2> DEFINE y == RollingPercentile(x)
  <2>1. \E body \in [1..n -> {y[i] : i \in 1..n}] : y = body
    BY <1>1 DEF RollingPercentile
  <2>2. DOMAIN y = 1..n /\ y = [i \in 1..n |-> y[i]]
    BY <2>1
  <2> HIDE DEF y
  <2>3. y \in [1..n -> Nat]
    BY <1>2, <2>2 DEF y
  <2> QED
    BY <1>1, <2>3 DEF y
<1> QED
  BY <1>1, <1>3 DEF IsSeries

LEMMA LevelsAre ==
  ASSUME NEW n, NEW bars, IsSeries(bars, n, Closes), n # 0
  PROVE  /\ IsSeries(<<0>> \o RollingMedian(RealizedVol(Rets(bars)), Baseline), n, Nat)
         /\ IsSeries(RollingPercentile(VolAtBar(bars)), n, Nat)
<1> DEFINE m == n - 1
           x == RealizedVol(Rets(bars))
<1>1. IsSeries(VolAtBar(bars), n, Nat) /\ IsSeries(x, m, Nat)
  BY VolAtBarIs
<1>2. m + 1 = n
  BY DEF IsSeries
<1> HIDE DEF m, x
<1>3. IsSeries(RollingMedian(x, Baseline), m, Nat)
  BY <1>1, MediansAre, WindowsAssumption
<1>4. IsSeries(<<0>> \o RollingMedian(x, Baseline), m + 1, Nat)
  BY <1>3, Shifted
<1> QED
  BY <1>1, <1>2, <1>4, PercentilesAre DEF x

LEMMA LevelsAgree ==
  ASSUME NEW n, NEW bars, NEW more, Longer(bars, more, n)
  PROVE  /\ Agree(<<0>> \o RollingMedian(RealizedVol(Rets(bars)), Baseline),
                  <<0>> \o RollingMedian(RealizedVol(Rets(more)), Baseline), n)
         /\ Agree(RollingPercentile(VolAtBar(bars)), RollingPercentile(VolAtBar(more)), n)
<1> DEFINE m == n - 1
           x == RealizedVol(Rets(bars))
           y == RealizedVol(Rets(more))
<1>1. /\ n \in Nat \ {0} /\ n + 1 # 0 /\ n + 1 >= n /\ m \in Nat /\ n >= m
      /\ IsSeries(bars, n, Closes) /\ IsSeries(more, n + 1, Closes)
  BY DEF Longer, IsSeries
<1>2. IsSeries(x, m, Nat) /\ IsSeries(VolAtBar(bars), n, Nat)
  BY <1>1, VolAtBarIs
<1>3. IsSeries(y, n, Nat) /\ IsSeries(VolAtBar(more), n + 1, Nat)
  <2>1. IsSeries(y, n + 1 - 1, Nat) /\ IsSeries(VolAtBar(more), n + 1, Nat)
    BY <1>1, VolAtBarIs
  <2>2. n + 1 - 1 = n
    BY <1>1
  <2> HIDE DEF y
  <2> QED
    BY <2>1, <2>2
<1>4. Agree(x, y, m) /\ Agree(VolAtBar(bars), VolAtBar(more), n)
  BY VolsAgree
<1>5. Agree(RollingPercentile(VolAtBar(bars)), RollingPercentile(VolAtBar(more)), n)
  BY <1>1, <1>2, <1>3, <1>4, PercentilesAgree
<1> HIDE DEF m, x, y
<1> DEFINE p == RollingMedian(x, Baseline)
           q == RollingMedian(y, Baseline)
<1>6. Agree(p, q, m) /\ IsSeries(p, m, Nat) /\ IsSeries(q, n, Nat)
  BY <1>1, <1>2, <1>3, <1>4, MediansAre, MediansAgree, WindowsAssumption
<1> HIDE DEF p, q
<1>7. (<<0>> \o p)[1] = 0 /\ \A i \in 1..m : (<<0>> \o p)[i + 1] = p[i]
  BY <1>6, Shifted
<1>8. (<<0>> \o q)[1] = 0 /\ \A i \in 1..n : (<<0>> \o q)[i + 1] = q[i]
  BY <1>6, Shifted
<1>9. ASSUME NEW i \in 1..n PROVE (<<0>> \o p)[i] = (<<0>> \o q)[i]
  <2>1. CASE i = 1
    BY <1>7, <1>8, <2>1
  <2>2. CASE i # 1
    <3> DEFINE j == i - 1
    <3>1. j \in 1..m /\ j \in 1..n /\ i = j + 1
      BY <1>1, <2>2 DEF m
    <3> HIDE DEF j
    <3>2. p[j] = q[j]
      BY <1>6, <3>1 DEF Agree
    <3> QED
      BY <1>7, <1>8, <3>1, <3>2
  <2> QED
    BY <2>1, <2>2
<1> QED
  BY <1>5, <1>9 DEF Agree, p, q, x, y

\* The loop of the gates takes the same steps on the same levels.
LEMMA SticksAgree ==
  ASSUME NEW n \in Nat, NEW m \in Nat, m >= n, NEW k, NEW h, NEW c, NEW k2, NEW h2, NEW c2,
         Len(k) = n, Len(k2) = m, Agree(k, k2, n), Agree(h, h2, n), Agree(c, c2, n)
  PROVE  Agree(StickyGate(k, h, c), StickyGate(k2, h2, c2), n)
<1> DEFINE f == Since(k, h, c)
           g == Since(k2, h2, c2)
           out == StickyGate(k, h, c)
           out2 == StickyGate(k2, h2, c2)
<1>1. /\ IsSince(f, n, k, h, c)
      /\ out = [i \in 1..n |-> IF k[i] /\ RiskOffAt(i, f[i - 1], h, c) THEN RiskOff ELSE RiskOn]
  BY SinceRuns
<1>2. /\ IsSince(g, m, k2, h2, c2)
      /\ out2 = [i \in 1..m |-> IF k2[i] /\ RiskOffAt(i, g[i - 1], h2, c2) THEN RiskOff ELSE RiskOn]
  BY SinceRuns
<1> HIDE DEF f, g, out, out2
<1>3. ASSUME NEW i \in 1..n
      PROVE  /\ i \in 1..m
             /\ k[i] = k2[i]
             /\ \A s : /\ RiskOffAt(i, s, h, c) = RiskOffAt(i, s, h2, c2)
                       /\ NextSince(i, s, k, h, c) = NextSince(i, s, k2, h2, c2)
  <2>1. i \in 1..m /\ k[i] = k2[i] /\ h[i] = h2[i] /\ c[i] = c2[i]
    BY DEF Agree
  <2> QED
    BY <2>1 DEF RiskOffAt, NextSince
<1>4. SameSteps(f, g, n)
  <2>1. f[0] = g[0]
    BY <1>1, <1>2 DEF IsSince
  <2>2. ASSUME NEW i \in 1..n, f[i - 1] = g[i - 1] PROVE f[i] = g[i]
    <3>1. f[i] = NextSince(i, f[i - 1], k, h, c)
      BY <1>1 DEF IsSince
    <3>2. g[i] = NextSince(i, g[i - 1], k2, h2, c2)
      BY <1>2, <1>3 DEF IsSince
    <3>3. NextSince(i, f[i - 1], k, h, c) = NextSince(i, f[i - 1], k2, h2, c2)
      BY <1>3
    <3> QED
      BY <2>2, <3>1, <3>2, <3>3
  <2> QED
    BY <2>1, <2>2 DEF SameSteps
<1>5. \A i \in 0..n : f[i] = g[i]
  BY <1>4, RunsAgree
<1>6. ASSUME NEW i \in 1..n PROVE out[i] = out2[i]
  <2>1. f[i - 1] = g[i - 1]
    <3>1. i - 1 \in 0..n
      OBVIOUS
    <3> QED
      BY <1>5, <3>1
  <2>2. out[i] = IF k[i] /\ RiskOffAt(i, f[i - 1], h, c) THEN RiskOff ELSE RiskOn
    BY <1>1
  <2>3. out2[i] = IF k2[i] /\ RiskOffAt(i, g[i - 1], h2, c2) THEN RiskOff ELSE RiskOn
    BY <1>2, <1>3
  <2>4. k[i] = k2[i] /\ RiskOffAt(i, f[i - 1], h, c) = RiskOffAt(i, f[i - 1], h2, c2)
    BY <1>3
  <2> QED
    BY <2>1, <2>2, <2>3, <2>4
<1> QED
  BY <1>6 DEF Agree, out, out2

LEMMA GatesAgree ==
  ASSUME NEW n, NEW bars, NEW more, Longer(bars, more, n)
  PROVE  /\ Agree(RatioGate(bars), RatioGate(more), n)
         /\ Agree(PercentileGate(bars), PercentileGate(more), n)
<1> DEFINE Base(b) == <<0>> \o RollingMedian(RealizedVol(Rets(b)), Baseline)
           v == VolAtBar(bars)
           w == VolAtBar(more)
           b1 == Base(bars)
           b2 == Base(more)
           l1 == RollingPercentile(v)
           l2 == RollingPercentile(w)
<1>1. /\ n \in Nat /\ n # 0 /\ n + 1 # 0 /\ n + 1 \in Nat /\ n + 1 >= n
      /\ IsSeries(bars, n, Closes) /\ IsSeries(more, n + 1, Closes)
  BY DEF Longer, IsSeries
<1>2. DOMAIN v = 1..n /\ DOMAIN w = 1..n + 1
  <2>1. IsSeries(v, n, Nat) /\ IsSeries(w, n + 1, Nat)
    BY <1>1, VolAtBarIs
  <2> QED
    BY <2>1 DEF IsSeries
<1>3. \A i \in 1..n : v[i] = w[i] /\ b1[i] = b2[i] /\ l1[i] = l2[i]
  <2>1. Agree(v, w, n) /\ Agree(b1, b2, n) /\ Agree(l1, l2, n)
    BY VolsAgree, LevelsAgree
  <2> QED
    BY <2>1 DEF Agree
<1>4. /\ RatioLevels(bars) =
           [known |-> [i \in 1..n |-> b1[i] > 0],
            hot |-> [i \in 1..n |-> 200 * v[i] > Ratio * b1[i]],
            cool |-> [i \in 1..n |-> 200 * v[i] < Ratio * b1[i]]]
      /\ RatioLevels(more) =
           [known |-> [i \in 1..n + 1 |-> b2[i] > 0],
            hot |-> [i \in 1..n + 1 |-> 200 * w[i] > Ratio * b2[i]],
            cool |-> [i \in 1..n + 1 |-> 200 * w[i] < Ratio * b2[i]]]
  BY <1>2 DEF RatioLevels
<1>5. /\ PercentileLevels(bars) =
           [known |-> [i \in 1..n |-> l1[i] > 0 /\ v[i] > 0],
            hot |-> [i \in 1..n |-> v[i] >= l1[i]],
            cool |-> [i \in 1..n |-> v[i] < l1[i]]]
      /\ PercentileLevels(more) =
           [known |-> [i \in 1..n + 1 |-> l2[i] > 0 /\ w[i] > 0],
            hot |-> [i \in 1..n + 1 |-> w[i] >= l2[i]],
            cool |-> [i \in 1..n + 1 |-> w[i] < l2[i]]]
  BY <1>2 DEF PercentileLevels
<1> HIDE DEF v, w, b1, b2, l1, l2
<1>6. /\ Len(RatioLevels(bars).known) = n /\ Len(RatioLevels(more).known) = n + 1
      /\ Len(PercentileLevels(bars).known) = n /\ Len(PercentileLevels(more).known) = n + 1
  BY <1>1, <1>4, <1>5
<1>7. /\ Agree(RatioLevels(bars).known, RatioLevels(more).known, n)
      /\ Agree(RatioLevels(bars).hot, RatioLevels(more).hot, n)
      /\ Agree(RatioLevels(bars).cool, RatioLevels(more).cool, n)
  <2>1. \A i \in 1..n : i \in 1..n + 1
    BY <1>1
  <2> QED
    BY <1>3, <1>4, <2>1 DEF Agree
<1>8. /\ Agree(PercentileLevels(bars).known, PercentileLevels(more).known, n)
      /\ Agree(PercentileLevels(bars).hot, PercentileLevels(more).hot, n)
      /\ Agree(PercentileLevels(bars).cool, PercentileLevels(more).cool, n)
  <2>1. \A i \in 1..n : i \in 1..n + 1
    BY <1>1
  <2> QED
    BY <1>3, <1>5, <2>1 DEF Agree
<1>9. Agree(RatioGate(bars), RatioGate(more), n)
  BY <1>1, <1>6, <1>7, SticksAgree DEF RatioGate
<1>10. Agree(PercentileGate(bars), PercentileGate(more), n)
  BY <1>1, <1>6, <1>8, SticksAgree DEF PercentileGate
<1> QED
  BY <1>9, <1>10

LEMMA SeriesAreSequences ==
  ASSUME NEW n, NEW T, NEW x, IsSeries(x, n, T)
  PROVE  x \in Seq(T) /\ Len(x) = n
BY DEF IsSeries

LEMMA SequencesAreSeries ==
  ASSUME NEW T, NEW x \in Seq(T)
  PROVE  IsSeries(x, Len(x), T)
BY DEF IsSeries

LEMMA DecidedAgrees ==
  ASSUME NEW n, NEW bars, NEW more, Longer(bars, more, n), NEW s \in TrendStrategies
  PROVE  IsPrefix(Decided(s, bars), Decided(s, more))
<1> DEFINE m == Momentum(bars)
           v == VolTarget(bars)
           g == RatioGate(bars)
           p == PercentileGate(bars)
           m2 == Momentum(more)
           v2 == VolTarget(more)
           g2 == RatioGate(more)
           p2 == PercentileGate(more)
           d == Decided(s, bars)
           d2 == Decided(s, more)
<1>1. /\ n \in Nat \ {0} /\ n + 1 # 0 /\ n + 1 \in Nat
      /\ IsSeries(bars, n, Closes) /\ IsSeries(more, n + 1, Closes)
  BY DEF Longer, IsSeries
<1>2. DOMAIN m = 1..n /\ DOMAIN m2 = 1..n + 1
  BY <1>1, MomentumIs DEF IsSeries
<1>3. \A i \in 1..n : m[i] = m2[i] /\ v[i] = v2[i] /\ g[i] = g2[i] /\ p[i] = p2[i]
  BY MomentumAgrees, VolTargetsAgree, GatesAgree DEF Agree
<1>4. IsSeries(d, n, 0..FullSize) /\ IsSeries(d2, n + 1, 0..FullSize)
  BY <1>1, DecidedIs
<1> HIDE DEF m, v, g, p, m2, v2, g2, p2
<1>5. ASSUME NEW i \in 1..n PROVE d[i] = d2[i]
  <2>1. i \in DOMAIN m /\ i \in DOMAIN m2
    BY <1>1, <1>2
  <2>2. m[i] = m2[i] /\ v[i] = v2[i] /\ g[i] = g2[i] /\ p[i] = p2[i]
    BY <1>3
  <2>3. CASE s = "tsmom"
    <3>1. d[i] = m[i] * FullSize /\ d2[i] = m2[i] * FullSize
      BY <2>1, <2>3 DEF Decided, Tsmom, m, m2
    <3> QED
      BY <2>2, <3>1
  <2>4. CASE s = "tsmom_voltarget"
    <3>1. d[i] = m[i] * v[i] * RiskOn /\ d2[i] = m2[i] * v2[i] * RiskOn
      BY <2>1, <2>4 DEF Decided, TsmomVoltarget, m, m2, v, v2
    <3> QED
      BY <2>2, <3>1
  <2>5. CASE s = "tsmom_full"
    <3>1. d[i] = m[i] * v[i] * g[i] /\ d2[i] = m2[i] * v2[i] * g2[i]
      BY <2>1, <2>5 DEF Decided, TsmomFull, m, m2, v, v2, g, g2
    <3> QED
      BY <2>2, <3>1
  <2>6. CASE s = "tsmom_full_v2"
    <3>1. d[i] = m[i] * v[i] * p[i] /\ d2[i] = m2[i] * v2[i] * p2[i]
      BY <2>1, <2>6 DEF Decided, TsmomFullV2, m, m2, v, v2, p, p2
    <3> QED
      BY <2>2, <3>1
  <2> QED
    BY <2>3, <2>4, <2>5, <2>6 DEF TrendStrategies
<1> HIDE DEF d, d2
<1>6. /\ d \in Seq(0..FullSize) /\ Len(d) = n
      /\ d2 \in Seq(0..FullSize) /\ Len(d2) = n + 1
  BY <1>4, SeriesAreSequences
<1>7. SubSeq(d, 1, n) = SubSeq(d2, 1, n)
  <2>1. SubSeq(d, 1, n) = [i \in 1..n |-> d[i]] /\ SubSeq(d2, 1, n) = [i \in 1..n |-> d2[i]]
    BY <1>1, <1>6
  <2> QED
    BY <1>5, <2>1
<1> QED
  BY <1>1, <1>6, <1>7 DEF IsPrefix, d, d2

(***************************************************************************)
(* The gates.  While the regime lasts every bar since its first is risk-   *)
(* off, or has no estimate.                                                *)
(***************************************************************************)
IsOut(out, since, n, known, hot, cool) ==
  out = [i \in 1..n |->
           IF known[i] /\ RiskOffAt(i, since[i - 1], hot, cool) THEN RiskOff ELSE RiskOn]

LEMMA RegimeLasts ==
  ASSUME NEW n \in Nat, NEW since, NEW known, NEW hot, NEW cool, NEW out,
         IsSince(since, n, known, hot, cool), IsOut(out, since, n, known, hot, cool)
  PROVE  \A i \in 0..n :
           /\ since[i] \in 0..i
           /\ since[i] > 0 => \A k \in since[i]..i : known[k] => out[k] = RiskOff
<1> DEFINE R == {i \in 0..n :
                   /\ since[i] \in 0..i
                   /\ since[i] > 0 => \A k \in since[i]..i : known[k] => out[k] = RiskOff}
<1>1. 0 \in R
  BY DEF IsSince
<1>2. ASSUME NEW i \in 0..n - 1, i \in R PROVE i + 1 \in R
  <2>1. i + 1 \in 1..n /\ i + 1 - 1 = i /\ i \in 0..n /\ i + 1 \in 0..n
    OBVIOUS
  <2>2. /\ since[i + 1] = NextSince(i + 1, since[i], known, hot, cool)
        /\ out[i + 1] = IF known[i + 1] /\ RiskOffAt(i + 1, since[i], hot, cool)
                        THEN RiskOff ELSE RiskOn
    BY <2>1 DEF IsSince, IsOut
  <2>3. since[i] \in 0..i /\ (since[i] > 0 => \A k \in since[i]..i : known[k] => out[k] = RiskOff)
    BY <1>2
  <2>4. since[i + 1] \in {0, since[i], i + 1} /\ since[i + 1] \in 0..i + 1
    BY <2>2, <2>3 DEF NextSince
  <2>5. ASSUME since[i + 1] > 0, NEW k \in since[i + 1]..i + 1, known[k]
        PROVE  out[k] = RiskOff
    <3>1. CASE k = i + 1
      BY <2>2, <2>5, <3>1 DEF NextSince
    <3>2. CASE k # i + 1
      <4>1. since[i + 1] = since[i] /\ k \in since[i]..i
        BY <2>3, <2>4, <2>5, <3>2
      <4> QED
        BY <2>3, <2>5, <4>1
    <3> QED
      BY <3>1, <3>2
  <2> QED
    BY <2>1, <2>4, <2>5
<1>3. 0..n \subseteq R
  <2> HIDE DEF R
  <2> QED
    BY <1>1, <1>2, UpToInduction
<1> QED
  BY <1>3

\* Bars without an estimate leave the beginning of the regime where it was.
LEMMA UnknownBarsKeep ==
  ASSUME NEW n \in Nat, NEW since, NEW known, NEW hot, NEW cool,
         IsSince(since, n, known, hot, cool),
         NEW i \in 1..n, NEW j \in i..n, \A k \in i + 1..j : ~known[k]
  PROVE  since[j] = since[i]
<1> DEFINE R == {k \in 0..n : i <= k /\ k <= j => since[k] = since[i]}
<1>1. 0 \in R
  OBVIOUS
<1>2. ASSUME NEW k \in 0..n - 1, k \in R PROVE k + 1 \in R
  <2>1. k + 1 \in 1..n /\ k + 1 \in 0..n /\ k + 1 - 1 = k
    OBVIOUS
  <2>2. since[k + 1] = NextSince(k + 1, since[k], known, hot, cool)
    BY <2>1 DEF IsSince
  <2>3. ASSUME i <= k + 1, k + 1 <= j PROVE since[k + 1] = since[i]
    <3>1. CASE k + 1 = i
      BY <3>1
    <3>2. CASE k + 1 # i
      <4>1. i <= k /\ k <= j /\ k + 1 \in i + 1..j
        BY <2>3, <3>2
      <4>2. since[k] = since[i] /\ ~known[k + 1]
        BY <1>2, <4>1
      <4> QED
        BY <2>2, <4>2 DEF NextSince
    <3> QED
      BY <3>1, <3>2
  <2> QED
    BY <2>1, <2>3
<1>3. 0..n \subseteq R
  <2> HIDE DEF R
  <2> QED
    BY <1>1, <1>2, UpToInduction
<1> QED
  BY <1>3

\* What the property asks of a gate's answer.
Sticks(out, l) ==
  \A j \in DOMAIN out :
    /\ l.known[j] /\ l.hot[j] => out[j] = RiskOff
    /\ \A i \in 1..j - 1 :
         /\ l.known[j] /\ out[j] = RiskOn /\ out[i] = RiskOff
         /\ \A k \in i + 1..j - 1 : ~l.known[k]
         => /\ j > Sticky
            /\ \A k \in j - Sticky..j - 1 : l.known[k] => out[k] = RiskOff

LEMMA StickyGateSticks ==
  ASSUME NEW n \in Nat, NEW l, Len(l.known) = n,
         \A i \in 1..n : l.hot[i] => ~l.cool[i]
  PROVE  Sticks(StickyGate(l.known, l.hot, l.cool), l)
<1> DEFINE known == l.known
           hot == l.hot
           cool == l.cool
           since == Since(known, hot, cool)
           out == StickyGate(known, hot, cool)
<1>1. IsSince(since, n, known, hot, cool) /\ IsOut(out, since, n, known, hot, cool)
  BY SinceRuns DEF IsOut
<1>2. \A i \in 1..n : hot[i] => ~cool[i]
  OBVIOUS
<1> HIDE DEF known, hot, cool, since, out
<1>3. ASSUME NEW i \in 0..n
      PROVE  /\ since[i] \in 0..i
             /\ since[i] > 0 => \A k \in since[i]..i : known[k] => out[k] = RiskOff
  BY <1>1, RegimeLasts
<1>4. Sticky \in Nat \ {0}
  BY WindowsAssumption
<1>5. ASSUME NEW i \in 1..n
      PROVE  /\ i - 1 \in 0..n /\ i \in 0..n
             /\ since[i] = NextSince(i, since[i - 1], known, hot, cool)
             /\ out[i] = IF known[i] /\ RiskOffAt(i, since[i - 1], hot, cool)
                         THEN RiskOff ELSE RiskOn
  BY <1>1 DEF IsSince, IsOut
<1>6. ASSUME NEW j \in 1..n, known[j], hot[j] PROVE out[j] = RiskOff
  BY <1>2, <1>5, <1>6 DEF RiskOffAt, Held
<1>7. ASSUME NEW j \in 1..n, NEW i \in 1..j - 1, known[j], out[j] = RiskOn, out[i] = RiskOff,
             \A k \in i + 1..j - 1 : ~known[k]
      PROVE  j > Sticky /\ \A k \in j - Sticky..j - 1 : known[k] => out[k] = RiskOff
  <2>1. i \in 1..n /\ j - 1 \in i..n /\ i \in 0..n /\ j - 1 \in 0..n
    BY <1>7
  <2>2. known[i] /\ RiskOffAt(i, since[i - 1], hot, cool)
    BY <1>5, <1>7, <2>1 DEF RiskOff, RiskOn
  <2>3. since[i] > 0
    <3>1. since[i - 1] \in 0..i - 1
      BY <1>3, <1>5, <2>1
    <3>2. since[i] = IF since[i - 1] = 0 THEN i ELSE since[i - 1]
      BY <1>5, <2>1, <2>2 DEF NextSince
    <3> QED
      BY <2>1, <3>1, <3>2
  <2>4. since[j - 1] = since[i]
    <3>1. PICK m \in i..n : m = j - 1
      BY <2>1
    <3>2. \A k \in i + 1..m : ~known[k]
      BY <1>7, <3>1
    <3>3. since[m] = since[i]
      BY <1>1, <2>1, <3>2, UnknownBarsKeep
    <3> QED
      BY <3>1, <3>3
  <2> DEFINE b == since[j - 1]
  <2>5. b \in 0..j - 1 /\ b > 0 /\ \A k \in b..j - 1 : known[k] => out[k] = RiskOff
    BY <1>3, <2>1, <2>3, <2>4
  <2>6. ~RiskOffAt(j, b, hot, cool)
    BY <1>5, <1>7 DEF RiskOff, RiskOn
  <2> HIDE DEF b
  <2>7. ~(j - b < Sticky)
    BY <2>5, <2>6 DEF RiskOffAt, Held
  <2>8. j - Sticky >= b
    BY <1>4, <2>5, <2>7
  <2> QED
    BY <1>4, <2>5, <2>8
<1>8. DOMAIN out = 1..n
  BY <1>1 DEF IsOut
<1> QED
  BY <1>6, <1>7, <1>8 DEF Sticks, out, known, hot, cool

\* The gates of a series of bars are such answers.
LEMMA GatesStick ==
  ASSUME NEW n, NEW bars, IsSeries(bars, n, Closes), n # 0
  PROVE  /\ Sticks(RatioGate(bars), RatioLevels(bars))
         /\ Sticks(PercentileGate(bars), PercentileLevels(bars))
<1> DEFINE v == VolAtBar(bars)
           b == <<0>> \o RollingMedian(RealizedVol(Rets(bars)), Baseline)
           p == RollingPercentile(v)
<1>1. IsSeries(v, n, Nat) /\ IsSeries(b, n, Nat) /\ IsSeries(p, n, Nat) /\ n \in Nat
  BY VolAtBarIs, LevelsAre DEF IsSeries
<1>2. RatioLevels(bars) =
           [known |-> [i \in DOMAIN v |-> b[i] > 0],
            hot |-> [i \in DOMAIN v |-> 200 * v[i] > Ratio * b[i]],
            cool |-> [i \in DOMAIN v |-> 200 * v[i] < Ratio * b[i]]]
  BY DEF RatioLevels
<1>3. PercentileLevels(bars) =
           [known |-> [i \in DOMAIN v |-> p[i] > 0 /\ v[i] > 0],
            hot |-> [i \in DOMAIN v |-> v[i] >= p[i]],
            cool |-> [i \in DOMAIN v |-> v[i] < p[i]]]
  BY DEF PercentileLevels
<1> HIDE DEF v, b, p
<1>4. DOMAIN v = 1..n /\ \A i \in 1..n : v[i] \in Nat /\ b[i] \in Nat /\ p[i] \in Nat
  BY <1>1 DEF IsSeries
<1>5. Len(RatioLevels(bars).known) = n /\ Len(PercentileLevels(bars).known) = n
  BY <1>1, <1>2, <1>3, <1>4
<1>6. ASSUME NEW i \in 1..n
      PROVE  /\ RatioLevels(bars).hot[i] => ~RatioLevels(bars).cool[i]
             /\ PercentileLevels(bars).hot[i] => ~PercentileLevels(bars).cool[i]
  <2>1. v[i] \in Nat /\ b[i] \in Nat /\ p[i] \in Nat /\ i \in DOMAIN v
    BY <1>4
  <2>2. 200 * v[i] > Ratio * b[i] => ~(200 * v[i] < Ratio * b[i])
    BY <2>1 DEF Ratio
  <2>3. v[i] >= p[i] => ~(v[i] < p[i])
    BY <2>1
  <2>4. /\ RatioLevels(bars).hot[i] = (200 * v[i] > Ratio * b[i])
        /\ RatioLevels(bars).cool[i] = (200 * v[i] < Ratio * b[i])
    <3>1. /\ RatioLevels(bars).hot = [k \in DOMAIN v |-> 200 * v[k] > Ratio * b[k]]
          /\ RatioLevels(bars).cool = [k \in DOMAIN v |-> 200 * v[k] < Ratio * b[k]]
      BY <1>2
    <3> QED
      BY <3>1, <2>1, Zenon
  <2>5. /\ PercentileLevels(bars).hot[i] = (v[i] >= p[i])
        /\ PercentileLevels(bars).cool[i] = (v[i] < p[i])
    <3>1. /\ PercentileLevels(bars).hot = [k \in DOMAIN v |-> v[k] >= p[k]]
          /\ PercentileLevels(bars).cool = [k \in DOMAIN v |-> v[k] < p[k]]
      BY <1>3
    <3> QED
      BY <3>1, <2>1, Zenon
  <2> QED
    BY <2>2, <2>3, <2>4, <2>5, Zenon
<1> QED
  BY <1>1, <1>5, <1>6, StickyGateSticks DEF RatioGate, PercentileGate

(***************************************************************************)
(* The books: those of every strategy, the random ones being sets of       *)
(* positions of the right type.                                            *)
(***************************************************************************)
\* What a book's columns say of each other, whatever bar it is at.
Balanced(b, costs) ==
  /\ b.bought - b.sold = b.pos
  /\ b.turnover = b.bought + b.sold
  /\ b.gross - b.net = b.turnover * OneWayCost(costs) * Scale

StudyInv ==
  /\ closes \in Seq(Closes) /\ Len(closes) <= MaxBars
  /\ study \in Study /\ pass \in Passes /\ start \in Nat
  /\ pass = "benchmark" => study.benchmark \in PlainStrategies
  /\ phase = "ledger" => Fits(start)

BooksInv ==
  /\ ledger \in Ledger
  /\ phase = "ledger" => Balanced(ledger, study.costs)
  /\ books \in Seq(Ledger)
  /\ phase = "bars" => books = <<>> /\ pass = "strategy"
  /\ \A k \in 1..Len(books) : books[k].pos = 0 /\ Balanced(books[k], study.costs)

LEMMA CostIsInt == ASSUME NEW costs \in Costs PROVE OneWayCost(costs) \in Int
  BY DEF Costs, OneWayCost, Fee, Spread

\* Charging one more change of position keeps gross and net in step.
LEMMA CostOfSum ==
  ASSUME NEW t \in Int, NEW s \in Int, NEW c \in Int, NEW u \in Int
  PROVE  (t + s) * c * u = t * c * u + s * c * u
  OBVIOUS

LEMMA TradeBalances ==
  ASSUME NEW b \in Ledger, NEW goal \in Nat, NEW costs \in Costs, Balanced(b, costs)
  PROVE  /\ Trade(b, goal, costs) \in Ledger
         /\ Trade(b, goal, costs).pos = goal
         /\ Balanced(Trade(b, goal, costs), costs)
         /\ Trade(b, goal, costs).gross = b.gross
<1> DEFINE size == Distance(b.pos, goal)
           up == IF goal > b.pos THEN size ELSE 0
           down == IF goal < b.pos THEN size ELSE 0
           cost == size * OneWayCost(costs) * Scale
           r == Trade(b, goal, costs)
<1>1. /\ b.pos \in Nat /\ b.turnover \in Nat /\ b.bought \in Nat /\ b.sold \in Nat
      /\ b.gross \in Int /\ b.net \in Int
  BY DEF Ledger
<1>2. size \in Nat /\ up \in Nat /\ down \in Nat /\ size = up + down /\ up - down = goal - b.pos
  BY <1>1 DEF Distance
<1>3. OneWayCost(costs) \in Int /\ Scale \in Int
  BY CostIsInt, ClosesAssumption
<1>4. cost \in Int
  BY <1>2, <1>3
<1>5. r = [b EXCEPT !.pos = goal, !.turnover = @ + size, !.bought = @ + up,
                    !.sold = @ + down, !.net = @ - cost]
  BY DEF Trade
<1>6. (b.turnover + size) * OneWayCost(costs) * Scale
        = b.turnover * OneWayCost(costs) * Scale + cost
  BY <1>1, <1>2, <1>3, CostOfSum
<1> HIDE DEF size, up, down, cost, r
<1>7. /\ r.pos = goal /\ r.turnover = b.turnover + size
      /\ r.bought = b.bought + up /\ r.sold = b.sold + down
      /\ r.gross = b.gross /\ r.net = b.net - cost
  BY <1>5 DEF Ledger
<1>8. r \in Ledger
  <2>1. /\ b.turnover + size \in Nat /\ b.bought + up \in Nat
        /\ b.sold + down \in Nat /\ b.net - cost \in Int
    BY <1>1, <1>2, <1>4
  <2>2. r = [b EXCEPT !.pos = goal, !.turnover = b.turnover + size,
                      !.bought = b.bought + up, !.sold = b.sold + down,
                      !.net = b.net - cost]
    BY <1>5 DEF Ledger
  <2>3. \A v1, v2, v3 \in Nat, v4 \in Int :
          [b EXCEPT !.pos = goal, !.turnover = v1, !.bought = v2, !.sold = v3,
                    !.net = v4] \in Ledger
    BY DEF Ledger
  <2> QED
    BY <2>1, <2>2, <2>3
<1>9. r.bought - r.sold = r.pos /\ r.turnover = r.bought + r.sold
  BY <1>1, <1>2, <1>7 DEF Balanced
<1>10. r.gross - r.net = r.turnover * OneWayCost(costs) * Scale
  <2>1. b.gross - b.net = b.turnover * OneWayCost(costs) * Scale
    BY DEF Balanced
  <2> DEFINE x == b.turnover * OneWayCost(costs) * Scale
  <2>2. x \in Int
    BY <1>1, <1>3
  <2>3. r.turnover * OneWayCost(costs) * Scale = x + cost
    BY <1>6, <1>7
  <2> HIDE DEF x
  <2>4. b.gross - b.net = x
    BY <2>1 DEF x
  <2> QED
    BY <1>1, <1>4, <1>7, <2>2, <2>3, <2>4
<1> QED
  BY <1>7, <1>8, <1>9, <1>10 DEF Balanced, r

LEMMA NewLedgerBalances ==
  ASSUME NEW p \in Passes, NEW positions \in [1..Test -> Nat], NEW costs \in Costs
  PROVE  NewLedger(p, positions) \in Ledger /\ Balanced(NewLedger(p, positions), costs)
<1>1. NewLedger(p, positions) \in Ledger
  BY FoldsAssumption DEF NewLedger, Ledger
<1>2. 0 * OneWayCost(costs) * Scale = 0
  BY CostIsInt, ClosesAssumption
<1> QED
  BY <1>1, <1>2 DEF NewLedger, Balanced

LEMMA ReturnsAreInts ==
  ASSUME StudyInv, Fits(start), NEW i \in 1..Test, i < Test
  PROVE  BarReturn(i) \in Int
<1> DEFINE n == Len(closes)
           k == start + Train + Val + i
<1>1. n \in Nat /\ k \in 1..n - 1
  BY FoldsAssumption DEF StudyInv, Fits
<1>2. IsSeries(closes, n, Closes)
  BY SequencesAreSeries DEF StudyInv
<1> HIDE DEF n
<1>3. IsSeries(Rets(closes), n - 1, Int)
  BY <1>1, <1>2, RetsAre
<1>4. Rets(closes)[k] \in Int
  BY <1>1, <1>3 DEF IsSeries
<1> QED
  BY <1>4 DEF BarReturn

LEMMA WarmupIsNat == StudyInv => Warmup(pass) \in Nat
<1>1. Max(Lookbacks) \in Nat
  BY LookbacksAreFinite
<1>2. \A a, b, c \in Nat : Max({a, b, c}) \in Nat
  <2> TAKE a, b, c \in Nat
  <2>1. \E x \in {a, b, c} : \A y \in {a, b, c} : x >= y
    <3>1. CASE a >= b /\ a >= c
      BY <3>1
    <3>2. CASE b >= a /\ b >= c
      BY <3>2
    <3>3. CASE c >= a /\ c >= b
      BY <3>3
    <3> QED
      BY <3>1, <3>2, <3>3
  <2>2. Max({a, b, c}) \in {a, b, c}
    BY <2>1 DEF Max
  <2> QED
    BY <2>2
<1> DEFINE base == IF study.strategy = "tsmom_full_v2" THEN LongBaseline ELSE Baseline
<1>3. base \in Nat /\ VolLookback \in Nat /\ WarmupExtra \in Nat
  BY WindowsAssumption, FoldsAssumption DEF VolLookback
<1>4. Warmup(pass) = WarmupExtra + Max({Max(Lookbacks), VolLookback, base}) \/ Warmup(pass) = 0
  BY DEF Warmup
<1> HIDE DEF base
<1>5. Max({Max(Lookbacks), VolLookback, base}) \in Nat
  BY <1>1, <1>2, <1>3
<1> QED
  BY <1>3, <1>4, <1>5

\* Whatever runs in a pass answers one position for each bar it is given.
LEMMA PositionsAreTyped ==
  ASSUME StudyInv, NEW n, NEW bars, IsSeries(bars, n, Closes), n # 0,
         NEW all \in PositionsOf(Runs(pass), bars)
  PROVE  all \in [1..n -> Nat]
<1>1. Runs(pass) \in TrendStrategies \cup PlainStrategies \cup {"random", "null"}
  BY DEF StudyInv, Runs, Passes, Study, Strategies
<1>2. Random(n) \subseteq [1..n -> Nat] /\ Null(n) \subseteq Random(n)
  BY DEF Random, Null, FullSize
<1>0. Len(bars) = n
  BY DEF IsSeries
<1>3. CASE Runs(pass) \in {"random", "null"}
  <2>1. all \in Random(n) \cup Null(n)
    BY <1>0, <1>3 DEF PositionsOf
  <2> QED
    BY <1>2, <2>1
<1>4. CASE Runs(pass) \in TrendStrategies \cup PlainStrategies
  <2>1. Runs(pass) # "random" /\ Runs(pass) # "null"
    BY <1>4 DEF TrendStrategies, PlainStrategies
  <2>2. all = Decided(Runs(pass), bars)
    BY <2>1 DEF PositionsOf
  <2>3. Decided(Runs(pass), bars) \in [1..n -> 0..FullSize]
    BY <1>4, DecidedIs DEF IsSeries
  <2>4. 0..FullSize \subseteq Nat
    BY DEF FullSize
  <2>5. \A f \in [1..n -> 0..FullSize] : f \in [1..n -> Nat]
    BY <2>4
  <2> QED
    BY <2>2, <2>3, <2>5
<1> QED
  BY <1>1, <1>3, <1>4

\* The warm-up and the test window are within the bars, and the positions kept
\* are those of the test window.
LEMMA RunFoldKeeps ==
  ASSUME StudyInv, BooksInv, RunFold
  PROVE  StudyInv' /\ BooksInv'
<1> DEFINE test == start + Train + Val
           from == Max({0, test - Warmup(pass)})
           bars == SubSeq(closes, from + 1, test + Test)
           n == test + Test - from
<1>1. /\ phase = "folds" /\ Fits(start) /\ phase' = "ledger"
      /\ UNCHANGED <<closes, study, pass, start, books>>
  BY DEF RunFold
<1>2. PICK all \in PositionsOf(Runs(pass), bars) :
        ledger' = NewLedger(pass, [i \in 1..Test |-> all[test - from + i]])
  BY DEF RunFold
<1>3. from \in Nat /\ from <= test /\ test \in Nat /\ test + Test <= Len(closes)
  <2>1. Warmup(pass) \in Nat /\ test \in Nat /\ test + Test <= Len(closes)
    BY <1>1, WarmupIsNat, FoldsAssumption DEF StudyInv, Fits
  <2> HIDE DEF test
  <2>2. from \in {0, test - Warmup(pass)} /\ from >= 0
    <3>1. 0 \in Int /\ test - Warmup(pass) \in Int
      BY <2>1
    <3> QED
      BY <3>1, MaxOfTwo
  <2> HIDE DEF from
  <2> QED
    BY <2>1, <2>2
<1> HIDE DEF from, test
<1>4. IsSeries(bars, n, Closes) /\ n # 0 /\ test - from + Test = n
  <2>1. closes \in Seq(Closes) /\ Len(closes) \in Nat
    BY DEF StudyInv
  <2>2. /\ from + 1 \in Int /\ test + Test \in Int /\ from + 1 >= 1
        /\ test + Test <= Len(closes) /\ n \in Nat /\ n >= 1
    BY <1>3, FoldsAssumption
  <2>3. \A i \in from + 1..test + Test : closes[i] \in Closes
    BY <2>1, <2>2, <1>3
  <2>4. bars \in Seq(Closes) /\ Len(bars) = n
    <3> DEFINE lo == from + 1
               hi == test + Test
    <3>1. lo \in Int /\ hi \in Int /\ lo <= hi /\ hi - lo + 1 = n
      BY <1>3, <2>2, FoldsAssumption
    <3>2. \A i \in lo..hi : closes[i] \in Closes
      BY <2>3
    <3>3. bars = SubSeq(closes, lo, hi)
      OBVIOUS
    <3> HIDE DEF bars, lo, hi, n
    <3>4. /\ SubSeq(closes, lo, hi) \in Seq(Closes)
          /\ Len(SubSeq(closes, lo, hi)) = IF lo <= hi THEN hi - lo + 1 ELSE 0
      BY <3>1, <3>2, SubSeqProperties
    <3> QED
      BY <3>1, <3>3, <3>4
  <2> HIDE DEF bars
  <2>5. IsSeries(bars, n, Closes)
    BY <2>4, SequencesAreSeries
  <2> QED
    BY <1>3, <2>2, <2>5, FoldsAssumption
<1> HIDE DEF bars
<1>5. all \in [1..n -> Nat]
  BY <1>2, <1>4, PositionsAreTyped
<1> DEFINE kept == [i \in 1..Test |-> all[test - from + i]]
<1>6. kept \in [1..Test -> Nat]
  <2>1. \A i \in 1..Test : test - from + i \in 1..n
    BY <1>3, <1>4, FoldsAssumption
  <2> QED
    BY <1>5, <2>1
<1> HIDE DEF kept, n
<1>7. ledger' \in Ledger /\ Balanced(ledger, study.costs)'
  <2>1. study.costs \in Costs /\ pass \in Passes
    BY DEF StudyInv, Study
  <2>2. ledger' = NewLedger(pass, kept)
    BY <1>2 DEF kept
  <2>3. ledger' \in Ledger /\ Balanced(ledger', study.costs)
    BY <1>6, <2>1, <2>2, NewLedgerBalances
  <2> QED
    BY <1>1, <2>3 DEF Balanced, OneWayCost
<1>8. StudyInv'
  BY <1>1 DEF StudyInv, Fits, Runs
<1>9. BooksInv'
  BY <1>1, <1>7 DEF BooksInv, Balanced
<1> QED
  BY <1>8, <1>9

LEMMA HoldBarKeeps ==
  ASSUME StudyInv, BooksInv, HoldBar
  PROVE  StudyInv' /\ BooksInv'
<1> DEFINE i == ledger.at
           goal == ledger.positions[i]
           earned == goal * BarReturn(i) * 20000
           traded == Trade(ledger, goal, study.costs)
<1>1. /\ phase = "ledger" /\ i < Test
      /\ ledger' = [traded EXCEPT !.at = i + 1, !.gross = @ + earned, !.net = @ + earned]
      /\ UNCHANGED <<phase, closes, study, pass, start, books>>
  BY DEF HoldBar
<1>2. /\ ledger \in Ledger /\ Balanced(ledger, study.costs) /\ Fits(start)
      /\ study.costs \in Costs
  BY <1>1 DEF BooksInv, StudyInv, Study
<1>3. i \in 1..Test /\ goal \in Nat
  BY <1>2 DEF Ledger
<1>4. earned \in Int
  <2>1. BarReturn(i) \in Int
    BY <1>1, <1>2, <1>3, ReturnsAreInts
  <2> HIDE DEF goal
  <2>2. goal * BarReturn(i) \in Int
    BY <1>3, <2>1
  <2> QED
    BY <2>2
<1>5. traded \in Ledger /\ Balanced(traded, study.costs)
  BY <1>2, <1>3, TradeBalances
<1> HIDE DEF i, goal, earned, traded
<1>6. i + 1 \in 1..Test
  BY <1>1, <1>3, FoldsAssumption
<1>7. traded.gross \in Int /\ traded.net \in Int
  BY <1>5 DEF Ledger
<1>8. ledger' = [traded EXCEPT !.at = i + 1, !.gross = traded.gross + earned,
                               !.net = traded.net + earned]
  BY <1>1, <1>5 DEF Ledger
<1>9. ledger' \in Ledger
  <2>1. \A at \in 1..Test, gross, net \in Int :
          [traded EXCEPT !.at = at, !.gross = gross, !.net = net] \in Ledger
    BY <1>5 DEF Ledger
  <2>2. traded.gross + earned \in Int /\ traded.net + earned \in Int
    BY <1>4, <1>7
  <2> QED
    BY <1>6, <1>8, <2>1, <2>2
<1>10. /\ ledger'.pos = traded.pos /\ ledger'.turnover = traded.turnover
       /\ ledger'.bought = traded.bought /\ ledger'.sold = traded.sold
       /\ ledger'.gross = traded.gross + earned /\ ledger'.net = traded.net + earned
  BY <1>5, <1>8 DEF Ledger
<1>11. ledger'.gross - ledger'.net = traded.gross - traded.net
  BY <1>4, <1>7, <1>10
<1>12. Balanced(ledger', study.costs)
  BY <1>5, <1>10, <1>11 DEF Balanced
<1>13. StudyInv'
  BY <1>1 DEF StudyInv, Fits
<1>14. BooksInv'
  BY <1>1, <1>9, <1>12 DEF BooksInv, Balanced
<1> QED
  BY <1>13, <1>14

LEMMA EndFoldKeeps ==
  ASSUME StudyInv, BooksInv, EndFold
  PROVE  StudyInv' /\ BooksInv'
<1> DEFINE closed == Unwind(ledger, study.costs)
<1>1. /\ phase = "ledger" /\ phase' = "folds"
      /\ books' = Append(books, closed) /\ start' = start + Advance
      /\ UNCHANGED <<closes, study, pass, ledger>>
  BY DEF EndFold
<1>2. /\ ledger \in Ledger /\ Balanced(ledger, study.costs)
      /\ study.costs \in Costs /\ books \in Seq(Ledger)
  BY <1>1 DEF BooksInv, StudyInv, Study
<1>3. closed \in Ledger /\ closed.pos = 0 /\ Balanced(closed, study.costs)
  BY <1>2, TradeBalances DEF Unwind
<1> HIDE DEF closed
<1>4. StudyInv'
  BY <1>1, FoldsAssumption DEF StudyInv
<1>5. /\ books' \in Seq(Ledger) /\ Len(books') = Len(books) + 1
      /\ \A k \in 1..Len(books) : books'[k] = books[k]
      /\ books'[Len(books) + 1] = closed
  BY <1>1, <1>2, <1>3
<1>6. \A k \in 1..Len(books') : books'[k].pos = 0 /\ Balanced(books'[k], study.costs)
  <2> TAKE k \in 1..Len(books')
  <2>1. k \in 1..Len(books) \/ k = Len(books) + 1
    BY <1>2, <1>5
  <2>2. \A j \in 1..Len(books) : books[j].pos = 0 /\ Balanced(books[j], study.costs)
    BY DEF BooksInv
  <2>3. CASE k \in 1..Len(books)
    BY <1>5, <2>2, <2>3
  <2>4. CASE k = Len(books) + 1
    BY <1>3, <1>5, <2>4
  <2> QED
    BY <2>1, <2>3, <2>4
<1>7. BooksInv'
  BY <1>1, <1>2, <1>5, <1>6 DEF BooksInv, Balanced
<1> QED
  BY <1>4, <1>7

LEMMA StudyHolds == Spec => [](StudyInv /\ BooksInv)
<1>1. Init => StudyInv /\ BooksInv
  <2> SUFFICES ASSUME Init PROVE StudyInv /\ BooksInv
    OBVIOUS
  <2>1. /\ closes = <<>> /\ books = <<>> /\ study = NoStudy /\ pass = "strategy"
        /\ start = 0 /\ phase \in {"off", "bars"}
        /\ ledger = NewLedger("strategy", [i \in 1..Test |-> 0])
    BY DEF Init, BacktestInit
  <2>2. NoStudy \in Study
    BY DEF NoStudy, Study, Strategies, Costs, Benchmarks, PlainStrategies, TrendStrategies
  <2>3. StudyInv
    BY <2>1, <2>2, BarsAssumption DEF StudyInv, Passes
  <2>4. ledger \in Ledger
    <3>1. "strategy" \in Passes /\ "none" \in Costs /\ [i \in 1..Test |-> 0] \in [1..Test -> Nat]
      BY DEF Passes, Costs
    <3> QED
      BY <2>1, <3>1, NewLedgerBalances
  <2> QED
    BY <2>1, <2>3, <2>4 DEF BooksInv
<1>2. StudyInv /\ BooksInv /\ [Next]_<<history, backtest>> => StudyInv' /\ BooksInv'
  <2> SUFFICES ASSUME StudyInv, BooksInv, [Next]_<<history, backtest>>
               PROVE  StudyInv' /\ BooksInv'
    OBVIOUS
  <2>1. ASSUME NEW c \in Closes, NextBar(c) PROVE StudyInv' /\ BooksInv'
    <3>1. /\ closes' = Append(closes, c) /\ Len(closes) < MaxBars /\ phase = "bars"
          /\ UNCHANGED <<phase, study, pass, start, ledger, books>>
      BY <2>1 DEF NextBar
    <3>2. closes' \in Seq(Closes) /\ Len(closes') <= MaxBars
      BY <3>1, BarsAssumption DEF StudyInv
    <3>3. StudyInv'
      BY <3>1, <3>2 DEF StudyInv
    <3> QED
      BY <3>1, <3>3 DEF BooksInv, Balanced
  <2>2. ASSUME NEW s \in Asked, Begin(s) PROVE StudyInv' /\ BooksInv'
    <3>1. /\ phase = "bars" /\ phase' = "folds" /\ study' = s
          /\ UNCHANGED <<closes, pass, start, ledger, books>>
      BY <2>2 DEF Begin
    <3>2. s \in Study /\ pass = "strategy" /\ books = <<>>
      BY <3>1, AskedAssumption DEF BooksInv
    <3> QED
      BY <3>1, <3>2 DEF StudyInv, BooksInv
  <2>3. CASE RunFold
    BY <2>3, RunFoldKeeps
  <2>4. CASE HoldBar
    BY <2>4, HoldBarKeeps
  <2>5. CASE EndFold
    BY <2>5, EndFoldKeeps
  <2>6. CASE NextPass
    <3>1. /\ phase = "folds" /\ phase' \in {"folds", "done"}
          /\ UNCHANGED <<closes, study, ledger, books>>
          /\ pass' \in Passes /\ start' \in Nat
          /\ pass' = "benchmark" => pass = "benchmark" \/ study.benchmark \notin {"none", study.strategy}
      BY <2>6 DEF NextPass, StudyInv, Passes
    <3>2. study.benchmark \in PlainStrategies \cup {"none"}
      BY DEF StudyInv, Study, Benchmarks
    <3> QED
      BY <3>1, <3>2 DEF StudyInv, BooksInv, Balanced
  <2>7. CASE UNCHANGED backtest
    <3>1. UNCHANGED <<phase, closes, study, pass, start, ledger, books>>
      BY <2>7 DEF backtest
    <3> QED
      BY <3>1 DEF StudyInv, BooksInv, Balanced, Fits
  <2> QED
    BY <2>1, <2>2, <2>3, <2>4, <2>5, <2>6, <2>7 DEF Next, BacktestNext, history
<1> QED
  BY <1>1, <1>2, PTL DEF Spec

\* A bar more changes no position already decided.
LEMMA NextBarOnlyAdds ==
  ASSUME StudyInv, closes # <<>>, NEW c \in Closes, closes' = Append(closes, c),
         NEW s \in TrendStrategies
  PROVE  IsPrefix(Decided(s, closes), Decided(s, closes'))
<1>1. PICK bars : bars = closes
  OBVIOUS
<1>2. PICK more : more = closes'
  OBVIOUS
<1>3. bars \in Seq(Closes) /\ bars # <<>> /\ more = Append(bars, c)
  BY <1>1, <1>2 DEF StudyInv
<1>4. Longer(bars, more, Len(bars))
  <2>1. Len(bars) \in Nat /\ Len(bars) # 0 /\ Len(more) = Len(bars) + 1
    BY <1>3
  <2>2. IsSeries(bars, Len(bars), Closes) /\ IsSeries(more, Len(bars) + 1, Closes)
    <3>1. more \in Seq(Closes)
      BY <1>3
    <3>2. IsSeries(more, Len(more), Closes)
      BY <3>1, SequencesAreSeries
    <3> QED
      BY <1>3, <2>1, <3>2, SequencesAreSeries
  <2>3. \A i \in 1..Len(bars) : bars[i] = more[i]
    BY <1>3
  <2> QED
    BY <2>1, <2>2, <2>3 DEF Longer, Agree
<1>5. IsPrefix(Decided(s, bars), Decided(s, more))
  BY <1>4, DecidedAgrees
<1> QED
  BY <1>1, <1>2, <1>5

LEMMA BarsStick == StudyInv => GateIsSticky
<1> SUFFICES ASSUME StudyInv, closes # <<>>
             PROVE  /\ Sticks(RatioGate(closes), RatioLevels(closes))
                    /\ Sticks(PercentileGate(closes), PercentileLevels(closes))
  BY DEF GateIsSticky, Sticks
<1>1. Len(closes) # 0 /\ IsSeries(closes, Len(closes), Closes)
  BY DEF StudyInv, IsSeries
<1> QED
  BY <1>1, GatesStick

\* Every fold of every backtest ends flat, with its turnover and its costs
\* accounted for: for every series of closes, windows, costs and strategy.
THEOREM FoldsBalance == Spec => []LedgerBalances
<1>1. StudyInv /\ BooksInv => LedgerBalances
  <2> SUFFICES ASSUME StudyInv, BooksInv, NEW k \in DOMAIN books
               PROVE  /\ books[k].pos = 0 /\ books[k].bought = books[k].sold
                      /\ books[k].turnover = books[k].bought + books[k].sold
                      /\ books[k].gross - books[k].net
                           = books[k].turnover * OneWayCost(study.costs) * Scale
    BY DEF LedgerBalances
  <2>1. k \in 1..Len(books) /\ books[k] \in Ledger
    BY DEF BooksInv
  <2>2. books[k].pos = 0 /\ Balanced(books[k], study.costs)
    BY <2>1 DEF BooksInv
  <2>3. books[k].bought \in Nat /\ books[k].sold \in Nat
    BY <2>1 DEF Ledger
  <2>4. books[k].bought - books[k].sold = 0
    BY <2>2 DEF Balanced
  <2> QED
    BY <2>2, <2>3, <2>4 DEF Balanced
<1> QED
  BY <1>1, StudyHolds, PTL

\* Both regime gates are sticky, on every series of closes and for every window,
\* level and number of sticky bars: a bar past the level is risk-off, and full
\* exposure returns only after Sticky bars that were risk-off or had no estimate.
THEOREM GatesAreSticky == Spec => []GateIsSticky
BY BarsStick, StudyHolds, PTL

\* No strategy looks ahead: a later bar never changes a position decided on the
\* bars before it, whatever the bars and the windows.
THEOREM StrategiesDoNotPeek == Spec => NoPeeking
<1> DEFINE Keeps == phase = "bars" /\ closes # <<>> =>
                      \A s \in TrendStrategies :
                        IsPrefix(Decided(s, closes), Decided(s, closes'))
<1>1. StudyInv /\ [Next]_<<history, backtest>> => [Keeps]_closes
  <2> SUFFICES ASSUME StudyInv, [Next]_<<history, backtest>>, phase = "bars", closes # <<>>,
                      closes' # closes, NEW s \in TrendStrategies
               PROVE  IsPrefix(Decided(s, closes), Decided(s, closes'))
    OBVIOUS
  <2>1. \E c \in Closes : NextBar(c)
    BY DEF Next, BacktestNext, Begin, RunFold, HoldBar, EndFold, NextPass, backtest
  <2>2. PICK c \in Closes : closes' = Append(closes, c)
    BY <2>1 DEF NextBar
  <2> QED
    BY <2>2, NextBarOnlyAdds
<1>2. Spec => [][Next]_<<history, backtest>>
  BY DEF Spec
<1> QED
  BY <1>1, <1>2, StudyHolds, PTL DEF NoPeeking
=============================================================================
