------------------------------- MODULE History --------------------------------
(***************************************************************************)
(* Loading daily bars: the adapters of six sources, each a cursor loop     *)
(* over a paged service, behind one file cache that every process of the   *)
(* machine shares.  A loader reads the file of its source and range if     *)
(* there is one, fetches otherwise, and stores through a temporary file    *)
(* whose name depends on nothing but the range: two loaders share it.      *)
(*                                                                         *)
(* A bar is its day.  The venue has the bars of market, the same for the   *)
(* whole behaviour: ranges end in the past.  A file is an inode, whole or  *)
(* torn; a torn one never parses.  Loaders crash between any two steps.    *)
(*                                                                         *)
(* MaxLoads and MaxCrashes bound loads and crashes, Inodes the files.      *)
(***************************************************************************)
EXTENDS Integers, Sequences, FiniteSets, SequencesExt, Ranks

CONSTANTS
  Loaders,    \* processes that load bars
  LastDay,    \* the venues have bars of days 0..LastDay
  Ranges,     \* the ranges asked for: <<start, end>>
  PageLimit,  \* rows of a page (1000, 2000)
  KrakenCap,  \* Kraken serves this many latest bars only (720)
  MaxPages,   \* pages after which a loop gives up (3000, 20)
  Inodes, MaxLoads, MaxCrashes

ASSUME HistoryAssumption ==
  /\ LastDay \in Nat
  /\ Ranges \subseteq {r \in (0..LastDay) \X (0..LastDay) : r[1] < r[2]}
  /\ PageLimit \in Nat /\ PageLimit >= 2
  /\ {KrakenCap, MaxPages} \subseteq Nat \ {0}
  /\ Inodes \subseteq Nat \ {0}
  /\ {MaxLoads, MaxCrashes} \subseteq Nat

VARIABLES
  market,    \* the days the venue has a bar for
  source,    \* the venue asked
  load,      \* load[l]: where loader l stands
  tmp, file, \* tmp[k], file[k]: inodes of the two names of a key, 0 if none
  disk,      \* disk[i]: whether inode i is whole, its bars, who truncated it last
  shared,    \* history: keys two loaders were storing at once
  left, crashes \* loads and crashes still to come

history == <<market, source, load, tmp, file, disk, shared, left, crashes>>
world == <<market, source>>

Sources == {"alpaca", "binance", "bitstamp", "kraken", "cryptocompare", "coingecko"}

\* A bug: the file's name is made of the start of the range.
KeyByStart(range) == CHOOSE r \in Ranges : r[1] = range[1]

\* The digest in the file's name is of the source and the whole range.
Key(range) == range

Idle == [pc |-> "idle", range |-> <<0, 0>>, cursor |-> 0, got |-> <<>>,
         pages |-> 0, inode |-> 0]

HistoryInit ==
  /\ market \in SUBSET (0..LastDay)
  /\ source \in Sources
  /\ load = [l \in Loaders |-> Idle]
  /\ tmp = [k \in Ranges |-> 0]
  /\ file = [k \in Ranges |-> 0]
  /\ disk = [i \in Inodes |-> [whole |-> FALSE, bars |-> <<>>, by |-> 0]]
  /\ shared = {}
  /\ left \in {0, MaxLoads}
  /\ crashes = 0

Start(l) == load[l].range[1]
End(l) == load[l].range[2]

\* Where a fetch begins: Kraken's since is exclusive, CryptoCompare goes back.
FirstCursor(range) ==
  CASE source = "kraken" -> range[1] - 1
    [] source = "cryptocompare" -> range[2]
    [] OTHER -> range[1]

-------------------------------------------------------------------------------
(* Pages.  Each disjunct is the loop's body, and whether it goes on. *)

Ordered(days) == Sorted([d \in days |-> d])
First(days, n) ==
  {d \in days : Cardinality({e \in days : e < d}) < n}
Latest(days, n) ==
  {d \in days : Cardinality({e \in days : e > d}) < n}

\* What bars() returns from the rows it has collected.
Tidy(rows) ==
  CASE source = "binance" -> rows
    [] source = "alpaca" -> Sorted(rows)
    [] OTHER -> Ordered(Range(rows))

\* The rows are kept, and the loop goes on from next or ends.
Answer(l, days, next, more) ==
  LET rows == load[l].got \o Ordered(days)
  IN  load' = [load EXCEPT
        ![l].got = IF more THEN rows ELSE Tidy(rows),
        ![l].cursor = IF more THEN next ELSE 0,
        ![l].pages = IF more THEN @ + 1 ELSE 0,
        ![l].pc = IF more THEN "fetch" ELSE "store"]

\* The token says whether the range has more.
AlpacaPage(l) ==
  LET rest == market \cap load[l].cursor..End(l)
      page == First(rest, PageLimit)
  IN  /\ source = "alpaca"
      /\ Answer(l, page, Max(page \cup {0}) + 1, page # rest)

\* A bug: the next page begins with the last bar of this one.
BinanceRefetches(l) ==
  LET page == First(market \cap load[l].cursor..End(l), PageLimit)
  IN  /\ source = "binance"
      /\ Answer(l, page, Max(page \cup {0}),
                Cardinality(page) = PageLimit /\ Max(page) + 1 < End(l))

BinancePage(l) ==
  LET page == First(market \cap load[l].cursor..End(l), PageLimit)
  IN  /\ source = "binance"
      /\ Answer(l, page, Max(page \cup {0}) + 1,
                Cardinality(page) = PageLimit /\ Max(page) + 1 < End(l))

\* Only a start is sent; rows past the end are dropped here.
BitstampPage(l) ==
  LET from == load[l].cursor
      page == First(market \cap from..LastDay, PageLimit)
      last == Max(page \cup {from})
  IN  /\ source = "bitstamp"
      /\ Answer(l, {d \in page : d < End(l)}, last + 1,
                /\ last > from /\ last + 1 < End(l)
                /\ Cardinality(page) = PageLimit
                /\ load[l].pages + 1 < MaxPages)

\* The service names the next cursor: its last bar, or the last finished one.
KrakenPage(l) ==
  LET since == load[l].cursor
      page == Latest(market \cap since + 1..LastDay, KrakenCap)
  IN  /\ source = "kraken"
      /\ \E last \in Latest(page, 2) \cup {since} :
           Answer(l, {d \in page : d < End(l)}, last, last > since /\ last < End(l))

\* Pages go back in time; days without a bar come as zeroes, and are skipped.
CryptoComparePage(l) ==
  LET to == load[l].cursor
      first == to - PageLimit + 1
  IN  /\ source = "cryptocompare"
      /\ Answer(l, {d \in market \cap first..to : Start(l) <= d /\ d < End(l)},
                first - 1,
                first - 1 > Start(l) /\ load[l].pages + 1 < MaxPages)

CoinGeckoPage(l) ==
  /\ source = "coingecko"
  /\ Answer(l, market \cap Start(l)..End(l), 0, FALSE)

Page(l) ==
  /\ load[l].pc = "fetch"
  /\ \/ AlpacaPage(l) \/ BinancePage(l) \/ BitstampPage(l) \/ KrakenPage(l)
     \/ CryptoComparePage(l) \/ CoinGeckoPage(l)
  /\ UNCHANGED <<world, tmp, file, disk, shared, left, crashes>>

\* raise_for_status, a timeout: the load fails and stores nothing.
PageFails(l) ==
  /\ load[l].pc = "fetch"
  /\ load' = [load EXCEPT ![l] = [Idle EXCEPT !.pc = "failed"]]
  /\ UNCHANGED <<world, tmp, file, disk, shared, left, crashes>>

-------------------------------------------------------------------------------
(* The cache: load_bars_cached and _atomic_write_json. *)

NameOf(l) == Key(load[l].range)
Fail(l) == load' = [load EXCEPT ![l] = [Idle EXCEPT !.pc = "failed"]]

\* A call, with or without --refresh: is there a file?
Load(l, range, refresh) ==
  /\ load[l].pc \in {"idle", "failed", "done"}
  /\ left > 0
  /\ left' = left - 1
  /\ load' = [load EXCEPT ![l] =
       [Idle EXCEPT !.range = range,
          !.pc = IF file[Key(range)] # 0 /\ ~refresh THEN "read" ELSE "fetch",
          !.cursor = FirstCursor(range)]]
  /\ UNCHANGED <<world, tmp, file, disk, shared, crashes>>

\* open and json.load: the file may be gone by now, or torn.
Read(l) ==
  LET i == file[NameOf(l)]
  IN  /\ load[l].pc = "read"
      /\ IF i = 0 THEN Fail(l)
         ELSE load' = [load EXCEPT
                ![l].pc = IF disk[i].whole THEN "done" ELSE "corrupt",
                ![l].got = IF disk[i].whole THEN disk[i].bars ELSE <<>>]
      /\ UNCHANGED <<world, tmp, file, disk, shared, left, crashes>>

\* A file that does not parse is unlinked, and the range fetched.
Discard(l) ==
  /\ load[l].pc = "corrupt"
  /\ file' = [file EXCEPT ![NameOf(l)] = 0]
  /\ load' = [load EXCEPT ![l].pc = "fetch"]
  /\ UNCHANGED <<world, tmp, disk, shared, left, crashes>>

Free(i) ==
  /\ \A l \in Loaders : load[l].inode # i
  /\ \A k \in Ranges : i \notin {tmp[k], file[k]}
Storing(l, k) == load[l].pc \in {"write", "rename"} /\ NameOf(l) = k

\* The inode a name is opened at: its own, or a new one.
Inode(name) == IF name # 0 THEN {name} ELSE First({i \in Inodes : Free(i)}, 1)

Truncate(l, i) ==
  /\ disk' = [disk EXCEPT ![i] = [whole |-> FALSE, bars |-> load[l].got, by |-> l]]
  /\ load' = [load EXCEPT ![l].pc = "write", ![l].inode = i]
  /\ shared' = shared \cup {k \in {NameOf(l)} : \E p \in Loaders : Storing(p, k)}

\* A bug: the cache file itself is opened and written.
OpenInPlace(l) ==
  /\ load[l].pc = "store"
  /\ \E i \in Inode(file[NameOf(l)]) :
       /\ Truncate(l, i)
       /\ file' = [file EXCEPT ![NameOf(l)] = i]
       /\ tmp' = [tmp EXCEPT ![NameOf(l)] = i]
  /\ UNCHANGED <<world, left, crashes>>

\* open("w"): truncates the temporary file if another run left or has it.
OpenTmp(l) ==
  /\ load[l].pc = "store"
  /\ \E i \in Inode(tmp[NameOf(l)]) :
       /\ Truncate(l, i)
       /\ tmp' = [tmp EXCEPT ![NameOf(l)] = i]
  /\ UNCHANGED <<world, file, left, crashes>>

\* json.dump and close.  What a loader writes after another truncated the file
\* may or may not make it whole.
Write(l) ==
  LET i == load[l].inode
  IN  /\ load[l].pc = "write"
      /\ \E whole \in {TRUE} \cup IF disk[i].by = l THEN {} ELSE {disk[i].whole} :
           disk' = [disk EXCEPT ![i].whole = whole]
      /\ load' = [load EXCEPT ![l].pc = "rename"]
      /\ UNCHANGED <<world, tmp, file, shared, left, crashes>>

\* os.replace by name: fails if another loader has renamed the file.
Rename(l) ==
  LET k == NameOf(l)
  IN  /\ load[l].pc = "rename"
      /\ IF tmp[k] = 0 THEN Fail(l) /\ UNCHANGED <<tmp, file>>
         ELSE /\ file' = [file EXCEPT ![k] = tmp[k]]
              /\ tmp' = [tmp EXCEPT ![k] = 0]
              /\ load' = [load EXCEPT ![l].pc = "done", ![l].inode = 0]
      /\ UNCHANGED <<world, disk, shared, left, crashes>>

Crash(l) ==
  /\ load[l].pc \notin {"idle", "failed", "done"}
  /\ crashes < MaxCrashes
  /\ crashes' = crashes + 1
  /\ load' = [load EXCEPT ![l] = Idle]
  /\ UNCHANGED <<world, tmp, file, disk, shared, left>>

HistoryNext ==
  \E l \in Loaders :
    \/ \E range \in Ranges, refresh \in BOOLEAN : Load(l, range, refresh)
    \/ Page(l) \/ PageFails(l) \/ Read(l) \/ Discard(l)
    \/ OpenTmp(l) \/ Write(l) \/ Rename(l) \/ Crash(l)

-------------------------------------------------------------------------------
(* Properties. *)

\* The bars of a range that a source may leave out: none, but for those beyond
\* the pages a loop walks, those Kraken no longer serves, and CryptoCompare's
\* first, when a page begins on the day after it.
Excused(range) ==
  CASE source = "bitstamp" ->
         {d \in market : Cardinality(market \cap range[1]..d) > MaxPages * PageLimit}
    [] source = "kraken" ->
         {d \in market : Cardinality(market \cap d..LastDay) > KrakenCap}
    [] source = "cryptocompare" ->
         {range[1]} \cup {d \in market : d <= range[2] - MaxPages * PageLimit}
    [] OTHER -> {}

Complete(range, bars) ==
  LET days == Range(bars)
      asked == market \cap range[1]..range[2]
  IN  /\ \A i, j \in DOMAIN bars : i < j => bars[i] < bars[j]
      /\ days \subseteq asked
      /\ asked \ days \subseteq Excused(range) \cup {range[2]}

\* A fetch ends with every bar of the range the source serves, once each and in
\* order, which is what the returns of the backtest are computed from.
HistoryComplete ==
  \A l \in Loaders :
    load[l].pc \in {"store", "write", "rename"} => Complete(load[l].range, load[l].got)

\* A load that returns, from the cache or from the source, returns the answer to
\* its own range, whatever other loaders did and wherever one crashed.
LoadsAreWhole ==
  \A l \in Loaders : load[l].pc = "done" => Complete(load[l].range, load[l].got)

\* A crash in the middle of a write never leaves a torn cache file, unless two
\* loaders were storing the same range at once (the comment of
\* _atomic_write_json, as far as it goes).
CrashKeepsCache ==
  \A k \in Ranges : file[k] # 0 /\ ~disk[file[k]].whole => k \in shared
===============================================================================
