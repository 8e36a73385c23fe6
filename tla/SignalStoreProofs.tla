-------------------------- MODULE SignalStoreProofs --------------------------
(***************************************************************************)
(* Theorems about SignalStore, for every number of scans, serial or        *)
(* overlapping, of symbols and of faults, and every setting.               *)
(*                                                                         *)
(* The argument: what a scan decided on came from the lock holder's rows   *)
(* if it held the lock, and from `base` if not (Basis).  Nobody else       *)
(* changes the first, and SQLite lets a promotion write only if the second *)
(* is still the database: so a promotion finds what its decision found.    *)
(***************************************************************************)
EXTENDS SignalStore, WellFoundedInduction, TLAPS

Actions == {"INSERT", "WATCH", "EXPIRE", "PROMOTE", "IGNORE"}

Decisions ==
  [action : Actions, symbol : Symbols, hour : Nat, rank : 0 .. 3,
   seen : Nat, watch : Nat, base : Rows]

Sane(rows) == rows \in Rows /\ LinksAgree(rows) /\ OneOpenWatch(rows)

StoreOK ==
  /\ Sane(db) /\ Sane(work)
  /\ writer \in Scans \cup {NoScan}
  /\ writer = NoScan => work = db
  /\ Len(db.signals) <= Len(work.signals)
  /\ snap \in [Scans -> [pinned : BOOLEAN, rows : Rows]]

ScansOK ==
  /\ clock \in Nat
  /\ scan \in [Scans -> [pc : {"idle", "expire", "score"}, now : Nat,
                         adjust : Adjusts \cup {0}, watchlist : BOOLEAN, expired : BOOLEAN]]
  /\ todo \in [Scans -> SUBSET Symbols]
  /\ DOMAIN hold = Scans

(* The rows a decision was made on, as they are now.                       *)
Basis(p) == IF writer = p THEN work ELSE hold[p].base

Sound(p) ==
  LET h == hold[p] IN
  /\ h \in Decisions
  /\ h.action \in {"INSERT", "PROMOTE"} <=> h.rank > 0
  /\ h.seen = ExistingMax(Basis(p), h.symbol, h.hour)
  /\ h.watch = GetWatching(Basis(p), h.symbol)

HoldOK(p) ==
  /\ hold[p] = NoHold \/ Sound(p)
  /\ scan[p].pc # "score" => hold[p] = NoHold

Inv == StoreOK /\ ScansOK /\ \A p \in Scans : HoldOK(p)

-----------------------------------------------------------------------------
LEMMA RowsFields ==
  ASSUME NEW rows \in Rows
  PROVE  /\ rows = [signals |-> rows.signals, watches |-> rows.watches]
         /\ rows.signals \in Seq(Signal) /\ rows.watches \in Seq(Watch)
         /\ Len(rows.signals) \in Nat /\ Len(rows.watches) \in Nat
         /\ DOMAIN rows.signals = 1 .. Len(rows.signals)
         /\ DOMAIN rows.watches = 1 .. Len(rows.watches)
  BY DEF Rows

(* The greatest element, and the reads that look for one.                  *)

LEMMA HasLeast ==
  ASSUME NEW T \in SUBSET Nat, T # {} PROVE \E m \in T : \A n \in T : m <= n
  <1> DEFINE Below == OpToRel(<, Nat)
  <1>1. \E m \in T : \A n \in T : ~ (<<n, m>> \in Below)
    BY NatLessThanWellFounded, WFMin, Zenon
  <1>2. \A a, b \in Nat : a < b => <<a, b>> \in Below
    BY DEF OpToRel
  <1>3. \E m \in T : \A n \in T : ~(n < m)
    <2> HIDE DEF Below
    <2> QED BY <1>1, <1>2, T \subseteq Nat, Zenon
  <1> QED BY <1>3

LEMMA MaxIsIn ==
  ASSUME NEW n \in Nat, NEW T \in SUBSET (0 .. n)
  PROVE  Max(T \cup {0}) \in T \cup {0}
  <1> DEFINE U == T \cup {0}
             Gaps == {t \in Nat : t <= n /\ n - t \in U}
  <1>1. Gaps \in SUBSET Nat /\ n \in Gaps
    BY n - n = 0
  <1>2. PICK g \in Gaps : \A c \in Gaps : g <= c
    <2> HIDE DEF Gaps
    <2> QED BY <1>1, HasLeast
  <1>3. ASSUME NEW t \in U PROVE n - g >= t
    <2>1. t \in Nat /\ n - t \in Nat /\ n - t <= n /\ n - (n - t) = t
      OBVIOUS
    <2>2. n - t \in Gaps /\ g \in Nat
      BY <2>1, <1>2
    <2>3. g <= n - t
      BY <1>2, <2>2
    <2> QED BY <2>1, <2>2, <2>3
  <1>4. n - g \in U /\ \A t \in U : n - g >= t
    BY <1>2, <1>3
  <1>5. \E x \in U : \A t \in U : x >= t
    BY <1>4
  <1> HIDE DEF U
  <1>6. (CHOOSE x \in U : \A t \in U : x >= t) \in U
    BY <1>5
  <1> QED BY <1>6 DEF Max, U

LEMMA ExistingMaxIsRank ==
  ASSUME NEW rows \in Rows, NEW symbol, NEW hour
  PROVE  ExistingMax(rows, symbol, hour) \in Nat
  <1>1. ASSUME NEW i \in DOMAIN rows.signals PROVE rows.signals[i].rank \in 0 .. 3
    <2>1. rows.signals[i] \in Signal
      BY RowsFields
    <2> QED BY <2>1 DEF Signal
  <1>2. CandleRanks(rows, symbol, hour) \in SUBSET (0 .. 3)
    BY <1>1 DEF CandleRanks
  <1> QED BY <1>2, MaxIsIn DEF ExistingMax

LEMMA GetWatchingFinds ==
  ASSUME NEW rows \in Rows, NEW symbol
  PROVE  /\ GetWatching(rows, symbol) \in Nat
         /\ GetWatching(rows, symbol) # None => GetWatching(rows, symbol) \in Watching(rows, symbol)
  <1>1. Watching(rows, symbol) \in SUBSET (0 .. Len(rows.watches))
    BY RowsFields DEF Watching
  <1>2. Len(rows.watches) \in Nat
    BY RowsFields
  <1> DEFINE found == Watching(rows, symbol)
  <1>3. GetWatching(rows, symbol) = Max(found \cup {0})
    BY DEF GetWatching, None
  <1> HIDE DEF found
  <1>4. Max(found \cup {0}) \in found \cup {0}
    BY <1>1, <1>2, MaxIsIn DEF found
  <1>5. found \subseteq Nat
    BY <1>1, <1>2 DEF found
  <1> QED BY <1>3, <1>4, <1>5 DEF None, found

-----------------------------------------------------------------------------
(* Every write keeps the rows sane.                                        *)

LEMMA NewSignals ==
  ASSUME NEW rows \in Rows, NEW signals
  PROVE  [rows EXCEPT !.signals = signals] = [signals |-> signals, watches |-> rows.watches]
  BY DEF Rows

LEMMA NewWatches ==
  ASSUME NEW rows \in Rows, NEW watches
  PROVE  [rows EXCEPT !.watches = watches] = [signals |-> rows.signals, watches |-> watches]
  BY DEF Rows

LEMMA StatusSet ==
  ASSUME NEW rows, NEW signals, NEW watches, rows = [signals |-> signals, watches |-> watches],
         NEW w, NEW status
  PROVE  [rows EXCEPT !.watches[w].status = status] =
           [signals |-> signals, watches |-> [watches EXCEPT ![w].status = status]]
  OBVIOUS

(* A row list with the entries of another, changed one by one.             *)
LEMMA WatchList ==
  ASSUME NEW n \in Nat, NEW f, f = [v \in 1 .. n |-> f[v]], \A v \in 1 .. n : f[v] \in Watch
  PROVE  f \in Seq(Watch)
  <1>1. f \in [1 .. n -> Watch]
    BY Zenon
  <1> QED BY <1>1

LEMMA SignalKeepsSane ==
  ASSUME NEW rows, Sane(rows), NEW h \in Decisions, h.rank > 0
  PROVE  Sane(WithSignal(rows, h, None))
  <1> DEFINE s == [symbol |-> h.symbol, hour |-> h.hour, rank |-> h.rank, watch |-> None]
             new == WithSignal(rows, h, None)
  <1>1. s \in Signal /\ s.watch = None
    BY DEF Decisions, Signal, None
  <1>2. new = [signals |-> Append(rows.signals, s), watches |-> rows.watches]
    BY NewSignals DEF WithSignal, Sane
  <1> HIDE DEF s, new
  <1>3. /\ Append(rows.signals, s) \in Seq(Signal)
        /\ Len(Append(rows.signals, s)) = Len(rows.signals) + 1
        /\ \A i \in 1 .. Len(rows.signals) : Append(rows.signals, s)[i] = rows.signals[i]
        /\ Append(rows.signals, s)[Len(rows.signals) + 1] = s
    BY <1>1, RowsFields DEF Sane
  <1>4. new \in Rows
    BY <1>2, <1>3, RowsFields DEF Sane, Rows
  <1>5. LinksAgree(new)
    BY <1>1, <1>2, <1>3, RowsFields DEF Sane, LinksAgree
  <1>6. OneOpenWatch(new)
    BY <1>2 DEF Sane, OneOpenWatch
  <1> QED BY <1>4, <1>5, <1>6 DEF Sane, new

LEMMA WatchKeepsSane ==
  ASSUME NEW rows, Sane(rows), NEW symbol \in Symbols, NEW expires \in Nat,
         Watching(rows, symbol) = {}
  PROVE  Sane(WithWatch(rows, symbol, expires))
  <1> DEFINE w == [symbol |-> symbol, status |-> "watching", expires |-> expires,
                   signal |-> None]
             new == WithWatch(rows, symbol, expires)
  <1>1. w \in Watch /\ w.signal = None /\ w.symbol = symbol /\ w.status = "watching"
    BY DEF Watch, None
  <1>2. new = [signals |-> rows.signals, watches |-> Append(rows.watches, w)]
    BY NewWatches DEF WithWatch, Sane
  <1>3. \A v \in DOMAIN rows.watches :
          ~(rows.watches[v].symbol = symbol /\ rows.watches[v].status = "watching")
    BY DEF Watching
  <1> HIDE DEF w, new
  <1>4. /\ Append(rows.watches, w) \in Seq(Watch)
        /\ Len(Append(rows.watches, w)) = Len(rows.watches) + 1
        /\ \A i \in 1 .. Len(rows.watches) : Append(rows.watches, w)[i] = rows.watches[i]
        /\ Append(rows.watches, w)[Len(rows.watches) + 1] = w
    BY <1>1, RowsFields DEF Sane
  <1>5. new \in Rows
    BY <1>2, <1>4, RowsFields DEF Sane, Rows
  <1>6. LinksAgree(new)
    BY <1>1, <1>2, <1>4, RowsFields DEF Sane, LinksAgree
  <1>7. OneOpenWatch(new)
    BY <1>1, <1>2, <1>3, <1>4, RowsFields DEF Sane, OneOpenWatch
  <1> QED BY <1>5, <1>6, <1>7 DEF Sane, new

(* Updates of watches that keep ids, symbols and links, and open nothing.  *)
Settles(old, new) ==
  /\ new.signals = old.signals
  /\ new \in Rows
  /\ DOMAIN new.watches = DOMAIN old.watches
  /\ \A w \in DOMAIN old.watches :
       /\ new.watches[w].symbol = old.watches[w].symbol
       /\ new.watches[w].signal = old.watches[w].signal
       /\ new.watches[w].status = "watching" => old.watches[w].status = "watching"

LEMMA SettlingKeepsSane ==
  ASSUME NEW old, NEW new, Sane(old), Settles(old, new) PROVE Sane(new)
  <1>1. LinksAgree(new)
    BY DEF Sane, Settles, LinksAgree
  <1>2. OneOpenWatch(new)
    BY DEF Sane, Settles, OneOpenWatch
  <1> QED BY <1>1, <1>2 DEF Sane, Settles

LEMMA RefreshSettles ==
  ASSUME NEW rows \in Rows, NEW w, NEW expires \in Nat
  PROVE  Settles(rows, [rows EXCEPT !.watches[w].expires = expires])
  <1> DEFINE ws == [rows.watches EXCEPT ![w].expires = expires]
  <1>1. [rows EXCEPT !.watches[w].expires = expires] =
          [signals |-> rows.signals, watches |-> ws]
    BY DEF Rows
  <1>2. /\ ws \in Seq(Watch) /\ DOMAIN ws = DOMAIN rows.watches
        /\ \A v \in DOMAIN rows.watches :
             /\ ws[v].symbol = rows.watches[v].symbol
             /\ ws[v].signal = rows.watches[v].signal
             /\ ws[v].status = rows.watches[v].status
    <2>1. \A v \in DOMAIN rows.watches :
            /\ rows.watches[v] \in Watch
            /\ ws[v] = IF v = w THEN [rows.watches[v] EXCEPT !.expires = expires]
                       ELSE rows.watches[v]
      BY RowsFields
    <2>2. \A v \in DOMAIN rows.watches : ws[v] \in Watch
      BY <2>1 DEF Watch
    <2>3. ws = [v \in 1 .. Len(rows.watches) |-> ws[v]]
      BY RowsFields
    <2>4. ws \in Seq(Watch)
      <3> HIDE DEF ws
      <3> QED BY <2>2, <2>3, WatchList, RowsFields
    <2> QED BY <2>1, <2>4 DEF Watch
  <1> HIDE DEF ws
  <1> QED BY <1>1, <1>2, RowsFields DEF Settles, Rows

LEMMA BelowFloorSettles ==
  ASSUME NEW rows \in Rows, NEW w PROVE Settles(rows, BelowFloor(rows, w))
  <1> DEFINE ws == [rows.watches EXCEPT ![w].status = "expired"]
  <1>1. BelowFloor(rows, w) = [signals |-> rows.signals, watches |-> ws]
    <2>1. BelowFloor(rows, w) = [rows EXCEPT !.watches[w].status = "expired"]
      BY DEF BelowFloor
    <2> QED BY <2>1, StatusSet, RowsFields
  <1>2. /\ ws \in Seq(Watch) /\ DOMAIN ws = DOMAIN rows.watches
        /\ \A v \in DOMAIN rows.watches :
             /\ ws[v].symbol = rows.watches[v].symbol
             /\ ws[v].signal = rows.watches[v].signal
             /\ ws[v].status \in {"expired", rows.watches[v].status}
    <2>1. \A v \in DOMAIN rows.watches :
            /\ rows.watches[v] \in Watch
            /\ ws[v] = IF v = w THEN [rows.watches[v] EXCEPT !.status = "expired"]
                       ELSE rows.watches[v]
      BY RowsFields
    <2>2. \A v \in DOMAIN rows.watches : ws[v] \in Watch
      BY <2>1 DEF Watch
    <2>3. ws = [v \in 1 .. Len(rows.watches) |-> ws[v]]
      BY RowsFields
    <2>4. ws \in Seq(Watch)
      <3> HIDE DEF ws
      <3> QED BY <2>2, <2>3, WatchList, RowsFields
    <2> QED BY <2>1, <2>4 DEF Watch
  <1> HIDE DEF ws
  <1> QED BY <1>1, <1>2, RowsFields DEF Settles, Rows

LEMMA ExpiringSettles ==
  ASSUME NEW rows \in Rows, NEW t PROVE Settles(rows, ExpiredRows(rows, t))
  <1> DEFINE Aged(w) == IF rows.watches[w].status = "watching" /\ rows.watches[w].expires <= t
                          THEN [rows.watches[w] EXCEPT !.status = "expired"]
                          ELSE rows.watches[w]
             ws == [w \in DOMAIN rows.watches |-> Aged(w)]
  <1>1. ExpiredRows(rows, t) = [signals |-> rows.signals, watches |-> ws]
    BY DEF ExpiredRows, Rows
  <1>2. \A v \in DOMAIN rows.watches :
          /\ Aged(v) \in Watch
          /\ Aged(v).symbol = rows.watches[v].symbol
          /\ Aged(v).signal = rows.watches[v].signal
          /\ Aged(v).status \in {"expired", rows.watches[v].status}
    <2>1. \A v \in DOMAIN rows.watches : rows.watches[v] \in Watch
      BY RowsFields
    <2> QED BY <2>1 DEF Watch
  <1> HIDE DEF Aged
  <1>3. ws \in Seq(Watch) /\ DOMAIN ws = DOMAIN rows.watches
    BY <1>2, RowsFields
  <1>4. \A v \in DOMAIN rows.watches : ws[v] = Aged(v)
    OBVIOUS
  <1> HIDE DEF ws
  <1> QED BY <1>1, <1>2, <1>3, <1>4, RowsFields DEF Settles, Rows

(* A promotion resolves the open watch it found, which no signal names.    *)
LEMMA PromotionKeepsSane ==
  ASSUME NEW rows, Sane(rows), NEW h \in Decisions, h.rank > 0,
         h.watch = GetWatching(rows, h.symbol)
  PROVE  Sane(PromotedRows(rows, h))
  <1>1. CASE h.watch = None
    <2>1. PromotedRows(rows, h) = WithSignal(rows, h, None)
      BY <1>1 DEF PromotedRows
    <2> QED BY <2>1, SignalKeepsSane
  <1>2. CASE h.watch # None
    <2> DEFINE w == h.watch
               n == Len(rows.signals) + 1
               s == [symbol |-> h.symbol, hour |-> h.hour, rank |-> h.rank, watch |-> w]
               signals == Append(rows.signals, s)
               watches == [rows.watches EXCEPT ![w].status = "promoted", ![w].signal = n]
               new == PromotedRows(rows, h)
    <2>1. w \in DOMAIN rows.watches /\ rows.watches[w].status = "watching"
      BY <1>2, GetWatchingFinds DEF Sane, Watching
    <2>2. rows.watches[w].signal = None
      BY <2>1 DEF Sane, OneOpenWatch
    <2>3. s \in Signal /\ s.watch = w /\ w \in Nat
      BY DEF Decisions, Signal
    <2>4. n \in Nat /\ n # None
      BY RowsFields DEF Sane, None
    <2> HIDE DEF s, n
    <2>5. /\ signals \in Seq(Signal) /\ Len(signals) = Len(rows.signals) + 1
          /\ DOMAIN signals = 1 .. Len(rows.signals) + 1
          /\ \A i \in 1 .. Len(rows.signals) : signals[i] = rows.signals[i]
          /\ signals[Len(rows.signals) + 1] = s
      BY <2>3, RowsFields DEF Sane
    <2>6. new = [signals |-> signals, watches |-> watches]
      <3>1. WithSignal(rows, h, w) = [signals |-> signals, watches |-> rows.watches]
        BY NewSignals DEF WithSignal, Sane, s
      <3>2. n = Len(signals)
        BY <2>5 DEF n
      <3> HIDE DEF signals
      <3> DEFINE linked == WithSignal(rows, h, w)
                 marked == [linked EXCEPT !.watches[w].status = "promoted"]
                 marks == [rows.watches EXCEPT ![w].status = "promoted"]
      <3>3. new = [marked EXCEPT !.watches[w].signal = n]
        <4>1. new = [linked EXCEPT !.watches[w].status = "promoted",
                                   !.watches[w].signal = n]
          BY <1>2, <3>1, <3>2 DEF PromotedRows
        <4> HIDE DEF linked
        <4> QED BY <3>1, <4>1
      <3> HIDE DEF new, linked
      <3>4. marked = [signals |-> signals, watches |-> marks]
        BY <3>1 DEF linked
      <3> HIDE DEF marked
      <3>5. watches = [marks EXCEPT ![w].signal = n]
        OBVIOUS
      <3> HIDE DEF marks, watches
      <3> QED BY <3>3, <3>4, <3>5
    <2>7. \A v \in DOMAIN rows.watches :
            /\ rows.watches[v] \in Watch
            /\ watches[v] = IF v = w
                 THEN [rows.watches[v] EXCEPT !.status = "promoted", !.signal = n]
                 ELSE rows.watches[v]
      <3>1. rows.watches \in Seq(Watch)
        BY RowsFields DEF Sane
      <3>2. \A v \in DOMAIN rows.watches : rows.watches[v] \in Watch
        BY <3>1
      <3>3. \A v \in DOMAIN rows.watches :
              watches[v] = IF v = w
                THEN [rows.watches[v] EXCEPT !.status = "promoted", !.signal = n]
                ELSE rows.watches[v]
        OBVIOUS
      <3> QED BY <3>2, <3>3
    <2>8. \A v \in DOMAIN rows.watches :
            /\ watches[v] \in Watch /\ watches[v].symbol = rows.watches[v].symbol
            /\ v # w => watches[v] = rows.watches[v]
      BY <2>4, <2>7 DEF Watch
    <2>9. watches[w].signal = n /\ watches[w].status = "promoted"
      BY <2>1, <2>7 DEF Watch
    <2>10. DOMAIN watches = DOMAIN rows.watches
      OBVIOUS
    <2>11. watches \in Seq(Watch)
      <3>1. watches = [v \in 1 .. Len(rows.watches) |-> watches[v]]
        BY RowsFields DEF Sane
      <3> HIDE DEF watches
      <3> QED BY <2>8, <3>1, WatchList, RowsFields DEF Sane
    <2> HIDE DEF signals, watches, new
    <2>12. new \in Rows /\ new.signals = signals /\ new.watches = watches
      BY <2>5, <2>6, <2>11 DEF Rows
    <2>13. \A i \in 1 .. Len(rows.signals) : rows.signals[i].watch # w
      BY <1>2, <2>2, RowsFields DEF Sane, LinksAgree, None
    <2>14. LinksAgree(new)
      <3>1. ASSUME NEW i \in DOMAIN signals, signals[i].watch # None
            PROVE  signals[i].watch \in DOMAIN watches /\ watches[signals[i].watch].signal = i
        <4>1. CASE i = Len(rows.signals) + 1
          BY <4>1, <2>1, <2>3, <2>5, <2>9, <2>10 DEF n
        <4>2. CASE i \in 1 .. Len(rows.signals)
          <5>1. signals[i].watch = rows.signals[i].watch /\ rows.signals[i].watch # w
            BY <4>2, <2>5, <2>13
          <5>2. /\ rows.signals[i].watch \in DOMAIN rows.watches
                /\ rows.watches[rows.signals[i].watch].signal = i
            BY <3>1, <4>2, <5>1, RowsFields DEF Sane, LinksAgree
          <5> QED BY <5>1, <5>2, <2>8, <2>10
        <4> QED BY <4>1, <4>2, <2>5, RowsFields DEF Sane
      <3>2. ASSUME NEW v \in DOMAIN watches, watches[v].signal # None
            PROVE  watches[v].signal \in DOMAIN signals /\ signals[watches[v].signal].watch = v
        <4>1. CASE v = w
          BY <4>1, <2>3, <2>5, <2>9, RowsFields DEF n, Sane
        <4>2. CASE v # w
          <5>1. v \in DOMAIN rows.watches /\ watches[v] = rows.watches[v]
            BY <4>2, <2>8, <2>10
          <5>2. /\ rows.watches[v].signal \in DOMAIN rows.signals
                /\ rows.signals[rows.watches[v].signal].watch = v
            BY <3>2, <5>1 DEF Sane, LinksAgree
          <5> QED BY <5>1, <5>2, <2>5, RowsFields DEF Sane
        <4> QED BY <4>1, <4>2
      <3> QED BY <3>1, <3>2, <2>12 DEF LinksAgree
    <2>15. OneOpenWatch(new)
      BY <2>8, <2>9, <2>10, <2>12 DEF Sane, OneOpenWatch
    <2> QED BY <2>12, <2>14, <2>15 DEF Sane, new
  <1> QED BY <1>1, <1>2

LEMMA SignalAppended ==
  ASSUME NEW rows \in Rows, NEW h, NEW watch
  PROVE  /\ Len(WithSignal(rows, h, watch).signals) = Len(rows.signals) + 1
         /\ WithSignal(rows, h, watch).watches = rows.watches
  <1> DEFINE s == [symbol |-> h.symbol, hour |-> h.hour, rank |-> h.rank, watch |-> watch]
  <1>1. WithSignal(rows, h, watch) =
          [signals |-> Append(rows.signals, s), watches |-> rows.watches]
    BY NewSignals DEF WithSignal
  <1>2. Len(Append(rows.signals, s)) = Len(rows.signals) + 1
    <2> HIDE DEF s
    <2> QED BY RowsFields
  <1> HIDE DEF s
  <1> QED BY <1>1, <1>2

LEMMA PromotionAppends ==
  ASSUME NEW rows \in Rows, NEW h
  PROVE  Len(PromotedRows(rows, h).signals) = Len(rows.signals) + 1
  <1> DEFINE new == WithSignal(rows, h, h.watch)
             marked == [new EXCEPT !.watches[h.watch].status = "promoted",
                                   !.watches[h.watch].signal = Len(new.signals)]
  <1>1. PromotedRows(rows, h) \in {new, marked}
    BY DEF PromotedRows
  <1>2. marked.signals = new.signals
    <2> HIDE DEF new
    <2> QED OBVIOUS
  <1>3. Len(new.signals) = Len(rows.signals) + 1
    BY SignalAppended
  <1> HIDE DEF new, marked
  <1> QED BY <1>1, <1>2, <1>3

-----------------------------------------------------------------------------
(* The ways the stores change.                                             *)

(* Nobody else gains or loses the lock, or changes the holder's rows.      *)
Untouched(p) == \A q \in Scans \ {p} :
  IF writer = q THEN writer' = q /\ work' = work ELSE writer' # q

LEMMA ViewIsWork ==
  ASSUME StoreOK, NEW p \in Scans, CanWrite(p)
  PROVE  View(p) = work /\ writer \in {p, NoScan}
  BY DEF StoreOK, CanWrite, View

LEMMA ViewIsRows ==
  ASSUME StoreOK, NEW p \in Scans
  PROVE  Committed(p) \in Rows /\ View(p) \in Rows
  <1>1. snap[p] \in [pinned : BOOLEAN, rows : Rows]
    BY DEF StoreOK
  <1>2. Committed(p) \in Rows
    BY <1>1 DEF StoreOK, Sane, Committed
  <1> QED BY <1>2 DEF StoreOK, Sane, View

LEMMA UnpinOK ==
  ASSUME StoreOK, NEW p \in Scans, Unpin(p)
  PROVE  snap' \in [Scans -> [pinned : BOOLEAN, rows : Rows]]
  <1>1. Live \in [pinned : BOOLEAN, rows : Rows]
    BY DEF Live, Empty, Rows
  <1> QED BY <1>1 DEF StoreOK, Unpin

LEMMA PublishOK ==
  ASSUME StoreOK, NEW p \in Scans, writer \in {p, NoScan}, NEW rows, Sane(rows),
         Publish(p, rows)
  PROVE  StoreOK' /\ Untouched(p)
  <1>1. db' = rows /\ work' = rows /\ writer' = NoScan /\ Unpin(p)
    BY DEF Publish
  <1>2. Sane(db)' /\ Sane(work)'
    BY <1>1 DEF Sane, LinksAgree, OneOpenWatch
  <1>3. Len(db'.signals) <= Len(work'.signals)
    BY <1>1, RowsFields DEF Sane
  <1>4. Untouched(p)
    BY <1>1, StoreAssumption DEF Untouched
  <1> QED BY <1>1, <1>2, <1>3, <1>4, UnpinOK DEF StoreOK

LEMMA PendOK ==
  ASSUME StoreOK, NEW p \in Scans, writer \in {p, NoScan}, NEW rows, Sane(rows),
         Len(db.signals) <= Len(rows.signals), Pend(p, rows)
  PROVE  StoreOK' /\ Untouched(p)
  <1>1. db' = db /\ work' = rows /\ writer' = p /\ Unpin(p)
    BY DEF Pend
  <1>2. Sane(db)' /\ Sane(work)'
    BY <1>1 DEF StoreOK, Sane, LinksAgree, OneOpenWatch
  <1>3. p # NoScan
    BY StoreAssumption
  <1>4. Untouched(p)
    BY <1>1, <1>3, StoreAssumption DEF Untouched
  <1> QED BY <1>1, <1>2, <1>3, <1>4, UnpinOK DEF StoreOK

LEMMA SameStoreOK ==
  ASSUME StoreOK, NEW p \in Scans, UNCHANGED <<db, work, writer>>,
         snap' \in [Scans -> [pinned : BOOLEAN, rows : Rows]]
  PROVE  StoreOK' /\ Untouched(p)
  <1>1. Sane(db)' /\ Sane(work)'
    BY DEF StoreOK, Sane, LinksAgree, OneOpenWatch
  <1> QED BY <1>1 DEF StoreOK, Untouched

LEMMA TimeoutOK ==
  ASSUME StoreOK, NEW p \in Scans, Timeout(p) PROVE StoreOK' /\ Untouched(p)
  <1>1. Pinned(Committed(p)) \in [pinned : BOOLEAN, rows : Rows]
    BY ViewIsRows DEF Pinned
  <1>2. snap' \in [Scans -> [pinned : BOOLEAN, rows : Rows]]
    BY <1>1 DEF Timeout, StoreOK
  <1> QED BY <1>2, SameStoreOK DEF Timeout

LEMMA UnchangedOK ==
  ASSUME StoreOK, NEW p \in Scans, UNCHANGED dbVars PROVE StoreOK' /\ Untouched(p)
  BY SameStoreOK DEF dbVars, StoreOK

-----------------------------------------------------------------------------
(* The decisions of the other scans stay sound.                            *)

Frame(p) == \A q \in Scans \ {p} : hold'[q] = hold[q] /\ scan'[q] = scan[q]

LEMMA OthersKeep ==
  ASSUME Inv, NEW p \in Scans, Untouched(p), Frame(p), NEW q \in Scans \ {p}
  PROVE  HoldOK(q)'
  <1>1. hold'[q] = hold[q] /\ scan'[q] = scan[q]
    BY DEF Frame
  <1>2. Basis(q)' = Basis(q)
    BY <1>1 DEF Untouched, Basis
  <1>3. HoldOK(q)
    BY DEF Inv
  <1>4. Sound(q) => Sound(q)'
    BY <1>1, <1>2 DEF Sound
  <1> QED BY <1>1, <1>3, <1>4 DEF HoldOK

LEMMA StepKeepsInv ==
  ASSUME Inv, NEW p \in Scans, StoreOK', Untouched(p), Frame(p), ScansOK', HoldOK(p)'
  PROVE  Inv'
  BY OthersKeep DEF Inv

(* The step that ends a symbol.                                            *)
LEMMA DoneKeepsInv ==
  ASSUME Inv, NEW p \in Scans, StoreOK', Untouched(p), Done(p) PROVE Inv'
  <1>1. hold' = [hold EXCEPT ![p] = NoHold] /\ UNCHANGED <<clock, scan, todo>>
    BY DEF Done
  <1>2. DOMAIN hold = Scans
    BY DEF Inv, ScansOK
  <1>3. Frame(p) /\ HoldOK(p)'
    BY <1>1, <1>2 DEF Frame, HoldOK
  <1>4. ScansOK'
    BY <1>1, <1>2 DEF Inv, ScansOK
  <1> QED BY <1>3, <1>4, StepKeepsInv

(* The step that ends a scan.                                              *)
LEMMA EndKeepsInv ==
  ASSUME Inv, NEW p \in Scans, StoreOK', Untouched(p), Ends(p), UNCHANGED clock
  PROVE  Inv'
  <1>1. /\ scan' = [scan EXCEPT ![p] = Idle]
        /\ todo' = [todo EXCEPT ![p] = {}]
        /\ hold' = [hold EXCEPT ![p] = NoHold]
    BY DEF Ends
  <1>2. ScansOK
    BY DEF Inv
  <1>3. Frame(p) /\ HoldOK(p)'
    BY <1>1, <1>2 DEF Frame, HoldOK, ScansOK
  <1>4. Idle \in [pc : {"idle", "expire", "score"}, now : Nat,
                  adjust : Adjusts \cup {0}, watchlist : BOOLEAN, expired : BOOLEAN]
    BY DEF Idle
  <1>5. ScansOK'
    BY <1>1, <1>2, <1>4 DEF ScansOK
  <1> QED BY <1>3, <1>5, StepKeepsInv

(* A scan with a decision to act on.                                       *)
LEMMA ActsSound ==
  ASSUME Inv, NEW p \in Scans, hold[p] # NoHold
  PROVE  Sound(p) /\ hold[p] \in Decisions
  BY DEF Inv, HoldOK, Sound

LEMMA ActsHolds ==
  ASSUME NEW p \in Scans, NEW action \in Actions, Acts(p, action)
  PROVE  hold[p] # NoHold /\ hold[p].action = action
  BY DEF Acts, NoHold, Actions

-----------------------------------------------------------------------------
(* One lemma for each action.                                              *)

LEMMA InitInv == ASSUME Init PROVE Inv
  <1>1. Sane(Empty) /\ Empty \in Rows
    BY DEF Empty, Sane, Rows, LinksAgree, OneOpenWatch
  <1>2. Live \in [pinned : BOOLEAN, rows : Rows]
    BY <1>1 DEF Live
  <1>3. StoreOK
    BY <1>1, <1>2 DEF Init, StoreOK, Empty
  <1>4. Idle \in [pc : {"idle", "expire", "score"}, now : Nat,
                  adjust : Adjusts \cup {0}, watchlist : BOOLEAN, expired : BOOLEAN]
    BY DEF Idle
  <1>5. ScansOK
    BY <1>4 DEF Init, ScansOK
  <1>6. \A p \in Scans : HoldOK(p)
    BY DEF Init, HoldOK
  <1> QED BY <1>3, <1>5, <1>6 DEF Inv

LEMMA StutterInv == ASSUME Inv, UNCHANGED <<dbVars, scan, todo, hold>>, clock' \in Nat PROVE Inv'
  <1>1. StoreOK'
    BY DEF Inv, dbVars, StoreOK, Sane, LinksAgree, OneOpenWatch
  <1>2. ScansOK'
    BY DEF Inv, ScansOK
  <1>3. ASSUME NEW p \in Scans PROVE HoldOK(p)'
    <2>1. HoldOK(p) /\ Basis(p)' = Basis(p)
      BY DEF Inv, dbVars, Basis
    <2>2. Sound(p) => Sound(p)'
      BY <2>1 DEF Sound
    <2> QED BY <2>1, <2>2 DEF HoldOK
  <1> QED BY <1>1, <1>2, <1>3 DEF Inv

LEMMA TickInv == ASSUME Inv, Tick PROVE Inv'
  <1>1. clock' \in Nat
    BY DEF Inv, ScansOK, Tick
  <1> QED BY <1>1, StutterInv DEF Tick

LEMMA StartScanInv == ASSUME Inv, NEW p \in Scans, StartScan(p) PROVE Inv'
  <1>1. PICK adjust \in Adjusts, enabled \in Modes :
          scan' = [scan EXCEPT ![p] =
                     [pc |-> IF enabled THEN "expire" ELSE "score", now |-> clock,
                      adjust |-> adjust, watchlist |-> enabled, expired |-> FALSE]]
    BY DEF StartScan
  <1>2. UNCHANGED <<clock, dbVars, hold>> /\ todo' = [todo EXCEPT ![p] = Symbols]
    BY DEF StartScan
  <1>3. StoreOK' /\ Untouched(p)
    BY <1>2, UnchangedOK DEF Inv
  <1>4. ScansOK'
    <2>1. [pc |-> IF enabled THEN "expire" ELSE "score", now |-> clock,
           adjust |-> adjust, watchlist |-> enabled, expired |-> FALSE]
            \in [pc : {"idle", "expire", "score"}, now : Nat,
                 adjust : Adjusts \cup {0}, watchlist : BOOLEAN, expired : BOOLEAN]
      BY StoreAssumption DEF Inv, ScansOK
    <2> QED BY <1>1, <1>2, <2>1 DEF Inv, ScansOK
  <1>5. Frame(p)
    BY <1>1, <1>2 DEF Frame, Inv, ScansOK
  <1>6. HoldOK(p)'
    <2>1. HoldOK(p) /\ scan[p].pc = "idle"
      BY DEF Inv, StartScan
    <2> QED BY <1>2, <2>1 DEF HoldOK
  <1> QED BY <1>3, <1>4, <1>5, <1>6, StepKeepsInv

LEMMA ExpireStaleInv == ASSUME Inv, NEW p \in Scans, ExpireStale(p) PROVE Inv'
  <1>1. /\ scan[p].pc = "expire" /\ UNCHANGED <<clock, todo, hold>>
        /\ \/ scan' = [scan EXCEPT ![p].pc = "score", ![p].expired = TRUE]
           \/ scan' = [scan EXCEPT ![p].pc = "score"]
    BY DEF ExpireStale
  <1>2. StoreOK' /\ Untouched(p)
    <2>1. CASE CanWrite(p) /\ Publish(p, ExpiredRows(work, scan[p].now))
      <3>1. Sane(work) /\ work \in Rows
        BY DEF Inv, StoreOK, Sane
      <3>2. Sane(ExpiredRows(work, scan[p].now))
        BY <3>1, ExpiringSettles, SettlingKeepsSane
      <3>3. writer \in {p, NoScan}
        BY <2>1, ViewIsWork DEF Inv
      <3> QED BY <2>1, <3>2, <3>3, PublishOK DEF Inv
    <2>2. CASE Timeout(p)
      BY <2>2, TimeoutOK DEF Inv
    <2> QED BY <2>1, <2>2 DEF ExpireStale
  <1>3. ScansOK'
    BY <1>1 DEF Inv, ScansOK
  <1>4. Frame(p)
    BY <1>1 DEF Frame, Inv, ScansOK
  <1>5. HoldOK(p)'
    <2>1. HoldOK(p)
      BY DEF Inv
    <2> QED BY <1>1, <2>1 DEF HoldOK
  <1> QED BY <1>2, <1>3, <1>4, <1>5, StepKeepsInv

LEMMA SkipSymbolInv == ASSUME Inv, NEW p \in Scans, SkipSymbol(p) PROVE Inv'
  <1>1. UNCHANGED <<clock, dbVars, scan, hold>>
    BY DEF SkipSymbol
  <1>2. StoreOK' /\ Untouched(p)
    BY <1>1, UnchangedOK DEF Inv
  <1>3. ScansOK'
    <2>1. PICK symbol \in todo[p] : todo' = [todo EXCEPT ![p] = @ \ {symbol}]
      BY DEF SkipSymbol
    <2> QED BY <1>1, <2>1 DEF Inv, ScansOK
  <1>4. Frame(p)
    BY <1>1 DEF Frame
  <1>5. HoldOK(p)'
    <2>1. HoldOK(p) /\ Basis(p)' = Basis(p)
      BY <1>1 DEF Inv, Basis, dbVars
    <2>2. Sound(p) => Sound(p)'
      BY <1>1, <2>1 DEF Sound
    <2> QED BY <1>1, <2>1, <2>2 DEF HoldOK
  <1> QED BY <1>2, <1>3, <1>4, <1>5, StepKeepsInv

LEMMA RankOK ==
  ASSUME NEW score \in Scores, NEW adjust \in Adjusts \cup {0}
  PROVE  /\ EffectiveEmitFloor(adjust) \in Int
         /\ Rank(score, adjust) \in 0 .. 3
         /\ score >= EffectiveEmitFloor(adjust) <=> Rank(score, adjust) > 0
  <1>1. /\ adjust \in Int /\ score \in Nat
        /\ MinSignalScore \in Nat /\ Normal \in Nat
    BY StoreAssumption
  <1>2. EffectiveEmitFloor(adjust) \in Int
    BY <1>1 DEF EffectiveEmitFloor, Greatest, Least
  <1>3. /\ Rank(score, adjust) \in 0 .. 3
        /\ ~(score < EffectiveEmitFloor(adjust)) <=> Rank(score, adjust) > 0
    BY DEF Rank
  <1> QED BY <1>1, <1>2, <1>3

LEMMA DecisionSound ==
  ASSUME Inv, NEW p \in Scans, NEW symbol \in todo[p], NEW score \in Scores
  PROVE  LET d == Decision(p, symbol, score) IN
         /\ d \in Decisions
         /\ d.action \in {"INSERT", "PROMOTE"} <=> d.rank > 0
         /\ d.seen = ExistingMax(View(p), d.symbol, d.hour)
         /\ d.watch = GetWatching(View(p), d.symbol)
         /\ d.base = Committed(p)
  <1> DEFINE d == Decision(p, symbol, score)
             adjust == scan[p].adjust
             watch == GetWatching(View(p), symbol)
             seen == ExistingMax(View(p), symbol, clock)
             action == IF scan[p].watchlist
                         THEN DecideWatchAction(score, EffectiveEmitFloor(adjust), watch # None)
                         ELSE IF Rank(score, adjust) = 0 THEN "IGNORE" ELSE "INSERT"
  <1>1. adjust \in Adjusts \cup {0} /\ symbol \in Symbols /\ clock \in Nat
    BY DEF Inv, ScansOK
  <1>2. /\ EffectiveEmitFloor(adjust) \in Int
        /\ Rank(score, adjust) \in 0 .. 3
        /\ score >= EffectiveEmitFloor(adjust) <=> Rank(score, adjust) > 0
    BY <1>1, RankOK
  <1>3. Committed(p) \in Rows /\ View(p) \in Rows
    BY ViewIsRows DEF Inv
  <1>4. watch \in Nat /\ seen \in Nat
    BY <1>3, GetWatchingFinds, ExistingMaxIsRank
  <1>5. /\ action \in Actions
        /\ action \in {"INSERT", "PROMOTE"} <=> Rank(score, adjust) > 0
    <2>1. CASE scan[p].watchlist
      <3> DEFINE floor == EffectiveEmitFloor(adjust)
                 rank == Rank(score, adjust)
      <3>1. floor \in Int /\ score \in Int /\ FloorScore \in Int
        BY <1>2, StoreAssumption
      <3>2. action = DecideWatchAction(score, floor, watch # None)
        BY <2>1
      <3>3. score >= floor <=> rank > 0
        BY <1>2
      <3> HIDE DEF action, floor, rank, watch
      <3>4. /\ action \in Actions
            /\ action \in {"INSERT", "PROMOTE"} <=> score >= floor
        BY <3>1, <3>2 DEF DecideWatchAction, Actions, Least
      <3> QED BY <3>3, <3>4 DEF rank
    <2>2. CASE ~scan[p].watchlist
      BY <1>2, <2>2 DEF Actions
    <2> QED BY <2>1, <2>2
  <1>6. d = [action |-> action, symbol |-> symbol, hour |-> clock,
             rank |-> Rank(score, adjust), seen |-> seen, watch |-> watch,
             base |-> Committed(p)]
    BY DEF Decision
  <1> HIDE DEF action, seen, watch, adjust, d
  <1>7. d \in Decisions
    BY <1>1, <1>2, <1>3, <1>4, <1>5, <1>6 DEF Decisions
  <1>8. d.action \in {"INSERT", "PROMOTE"} <=> d.rank > 0
    BY <1>5, <1>6
  <1>9. d.seen = ExistingMax(View(p), d.symbol, d.hour)
    BY <1>6 DEF seen
  <1>10. d.watch = GetWatching(View(p), d.symbol) /\ d.base = Committed(p)
    BY <1>6 DEF watch
  <1> QED BY <1>7, <1>8, <1>9, <1>10 DEF d

LEMMA ScoreInv == ASSUME Inv, NEW p \in Scans, Score(p) PROVE Inv'
  <1>1. PICK symbol \in todo[p], score \in Scores :
          /\ Due(p, symbol)
          /\ todo' = [todo EXCEPT ![p] = @ \ {symbol}]
          /\ hold' = [hold EXCEPT ![p] = Decision(p, symbol, score)]
    BY DEF Score
  <1>2. UNCHANGED <<clock, dbVars, scan>>
    BY DEF Score
  <1>3. StoreOK' /\ Untouched(p)
    BY <1>2, UnchangedOK DEF Inv
  <1>4. ScansOK' /\ Frame(p)
    BY <1>1, <1>2 DEF Inv, ScansOK, Frame
  <1>5. scan'[p].pc = "score" /\ p \in DOMAIN hold
    BY <1>1, <1>2 DEF Due, Inv, ScansOK
  <1>6. HoldOK(p)'
    <2> DEFINE d == Decision(p, symbol, score)
    <2>1. hold'[p] = d
      BY <1>1, <1>5
    <2>2. /\ d \in Decisions
          /\ d.action \in {"INSERT", "PROMOTE"} <=> d.rank > 0
          /\ d.seen = ExistingMax(View(p), d.symbol, d.hour)
          /\ d.watch = GetWatching(View(p), d.symbol)
          /\ d.base = Committed(p)
      BY DecisionSound
    <2> HIDE DEF d
    <2>3. Basis(p)' = View(p)
      BY <1>2, <2>1, <2>2 DEF Basis, View, dbVars
    <2>4. Sound(p)'
      BY <2>1, <2>2, <2>3 DEF Sound
    <2> QED BY <1>5, <2>4 DEF HoldOK
  <1> QED BY <1>3, <1>4, <1>6, StepKeepsInv

LEMMA InsertSignalInv == ASSUME Inv, NEW p \in Scans, InsertSignal(p) PROVE Inv'
  <1> DEFINE h == hold[p]
  <1>1. Done(p) /\ Acts(p, "INSERT")
    BY DEF InsertSignal
  <1>2. h \in Decisions /\ h.rank > 0
    BY <1>1, ActsHolds, ActsSound DEF Sound, Actions
  <1>3. StoreOK /\ Sane(work)
    BY DEF Inv, StoreOK
  <1>4. StoreOK' /\ Untouched(p)
    <2>1. CASE UNCHANGED dbVars
      BY <1>3, <2>1, UnchangedOK
    <2>2. CASE CanWrite(p) /\ FailedInsert(p)
      <3>1. Len(db.signals) <= Len(work.signals) /\ writer \in {p, NoScan}
        BY <1>3, <2>2, ViewIsWork DEF StoreOK
      <3> QED BY <1>3, <2>2, <3>1, PendOK DEF FailedInsert
    <2>3. CASE CanWrite(p) /\ Publish(p, WithSignal(work, h, None))
      <3>1. Sane(WithSignal(work, h, None)) /\ writer \in {p, NoScan}
        BY <1>2, <1>3, <2>3, SignalKeepsSane, ViewIsWork
      <3> QED BY <1>3, <2>3, <3>1, PublishOK
    <2> QED BY <2>1, <2>2, <2>3 DEF InsertSignal
  <1> QED BY <1>1, <1>4, DoneKeepsInv

LEMMA UpsertWatchingInv == ASSUME Inv, NEW p \in Scans, UpsertWatching(p) PROVE Inv'
  <1> DEFINE h == hold[p]
             expires == scan[p].now + MaxWatchHours
  <1>1. Done(p) /\ Acts(p, "WATCH") /\ CanWrite(p)
    BY DEF UpsertWatching
  <1>2. h \in Decisions /\ h.symbol \in Symbols
    BY <1>1, ActsHolds, ActsSound DEF Actions, Decisions
  <1>3. StoreOK /\ Sane(work) /\ work \in Rows
    BY DEF Inv, StoreOK, Sane
  <1>4. expires \in Nat
    BY StoreAssumption DEF Inv, ScansOK
  <1>5. View(p) = work /\ writer \in {p, NoScan}
    BY <1>1, <1>3, ViewIsWork
  <1> HIDE DEF expires
  <1>6. StoreOK' /\ Untouched(p)
    <2>1. CASE Watching(View(p), h.symbol) = {} /\ Publish(p, WithWatch(work, h.symbol, expires))
      <3>1. Sane(WithWatch(work, h.symbol, expires))
        BY <1>2, <1>3, <1>4, <1>5, <2>1, WatchKeepsSane
      <3> QED BY <1>3, <1>5, <2>1, <3>1, PublishOK
    <2>2. CASE FailedInsert(p)
      <3>1. Len(db.signals) <= Len(work.signals)
        BY <1>3 DEF StoreOK
      <3> QED BY <1>3, <1>5, <2>2, <3>1, PendOK DEF FailedInsert
    <2>3. CASE Publish(p, [work EXCEPT !.watches[h.watch].expires = expires])
      <3>1. Sane([work EXCEPT !.watches[h.watch].expires = expires])
        BY <1>3, <1>4, RefreshSettles, SettlingKeepsSane
      <3> QED BY <1>3, <1>5, <2>3, <3>1, PublishOK
    <2> QED BY <2>1, <2>2, <2>3 DEF UpsertWatching, expires
  <1> QED BY <1>1, <1>6, DoneKeepsInv

LEMMA ExpireBelowFloorInv == ASSUME Inv, NEW p \in Scans, ExpireBelowFloor(p) PROVE Inv'
  <1>1. Done(p)
    BY DEF ExpireBelowFloor
  <1>2. StoreOK /\ Sane(work) /\ work \in Rows
    BY DEF Inv, StoreOK, Sane
  <1>3. StoreOK' /\ Untouched(p)
    <2>1. CASE UNCHANGED dbVars
      BY <1>2, <2>1, UnchangedOK
    <2>2. CASE CanWrite(p) /\ Publish(p, BelowFloor(work, hold[p].watch))
      <3>1. Sane(BelowFloor(work, hold[p].watch)) /\ writer \in {p, NoScan}
        BY <1>2, <2>2, BelowFloorSettles, SettlingKeepsSane, ViewIsWork
      <3> QED BY <1>2, <2>2, <3>1, PublishOK
    <2> QED BY <2>1, <2>2 DEF ExpireBelowFloor
  <1> QED BY <1>1, <1>3, DoneKeepsInv

(* The rows a promotion writes to are those its decision was made on.      *)
LEMMA PromotesBasis ==
  ASSUME Inv, NEW p \in Scans, Promote(p), ~Declined(hold[p])
  PROVE  Basis(p) = work /\ writer \in {p, NoScan}
  <1>1. CanWrite(p) /\ SnapshotHolds(p)
    BY DEF Promote, dbVars
  <1>2. StoreOK /\ writer \in {p, NoScan}
    BY <1>1, ViewIsWork DEF Inv
  <1> QED BY <1>1, <1>2 DEF SnapshotHolds, Basis, StoreOK

LEMMA PromoteInv == ASSUME Inv, NEW p \in Scans, Promote(p) PROVE Inv'
  <1> DEFINE h == hold[p]
             new == PromotedRows(work, h)
  <1>1. Done(p) /\ Acts(p, "PROMOTE")
    BY DEF Promote
  <1>2. Sound(p) /\ h \in Decisions /\ h.rank > 0
    BY <1>1, ActsHolds, ActsSound DEF Sound, Actions
  <1>3. StoreOK /\ Sane(work) /\ work \in Rows
    BY DEF Inv, StoreOK, Sane
  <1>4. StoreOK' /\ Untouched(p)
    <2>1. CASE Declined(h)
      BY <1>3, <2>1, UnchangedOK DEF Promote
    <2>2. CASE ~Declined(h)
      <3>1. Basis(p) = work /\ writer \in {p, NoScan}
        BY <2>2, PromotesBasis
      <3>2. Sane(new)
        BY <1>2, <1>3, <3>1, PromotionKeepsSane DEF Sound
      <3>3. Len(db.signals) <= Len(new.signals)
        <4>1. Len(new.signals) = Len(work.signals) + 1
          BY <1>3, PromotionAppends
        <4>2. Len(db.signals) \in Nat /\ Len(work.signals) \in Nat
          BY <1>3, RowsFields DEF StoreOK, Sane
        <4> HIDE DEF new
        <4> QED BY <1>3, <4>1, <4>2 DEF StoreOK
      <3>4. Pend(p, new) \/ Publish(p, new)
        BY <2>2 DEF Promote
      <3> HIDE DEF new
      <3> QED BY <1>3, <3>1, <3>2, <3>3, <3>4, PendOK, PublishOK
    <2> QED BY <2>1, <2>2
  <1> QED BY <1>1, <1>4, DoneKeepsInv

LEMMA IgnoreInv == ASSUME Inv, NEW p \in Scans, Ignore(p) PROVE Inv'
  <1>1. Done(p) /\ UNCHANGED dbVars
    BY DEF Ignore
  <1>2. StoreOK' /\ Untouched(p)
    BY <1>1, UnchangedOK DEF Inv
  <1> QED BY <1>1, <1>2, DoneKeepsInv

LEMMA AbandonInv == ASSUME Inv, NEW p \in Scans, Abandon(p) PROVE Inv'
  <1>1. Done(p) /\ (Timeout(p) \/ UNCHANGED dbVars)
    BY DEF Abandon
  <1>2. StoreOK' /\ Untouched(p)
    BY <1>1, TimeoutOK, UnchangedOK DEF Inv
  <1> QED BY <1>1, <1>2, DoneKeepsInv

LEMMA EndScanInv == ASSUME Inv, NEW p \in Scans, EndScan(p) PROVE Inv'
  <1>1. Ends(p) /\ UNCHANGED clock
    BY DEF EndScan
  <1>2. StoreOK /\ Sane(work)
    BY DEF Inv, StoreOK
  <1>3. StoreOK' /\ Untouched(p)
    <2>1. CASE writer = p
      BY <1>2, <2>1, PublishOK DEF EndScan
    <2>2. CASE writer # p
      BY <1>2, <2>2, UnpinOK, SameStoreOK DEF EndScan
    <2> QED BY <2>1, <2>2
  <1> QED BY <1>1, <1>3, EndKeepsInv

LEMMA CrashInv == ASSUME Inv, NEW p \in Scans, Crash(p) PROVE Inv'
  <1>1. Ends(p) /\ UNCHANGED clock
    BY DEF Crash
  <1>2. StoreOK /\ Sane(db)
    BY DEF Inv, StoreOK
  <1>3. StoreOK' /\ Untouched(p)
    <2>1. CASE writer = p
      BY <1>2, <2>1, PublishOK DEF Crash
    <2>2. CASE writer # p
      BY <1>2, <2>2, UnpinOK, SameStoreOK DEF Crash
    <2> QED BY <2>1, <2>2
  <1> QED BY <1>1, <1>3, EndKeepsInv

LEMMA NextInv == ASSUME Inv, [Next]_vars PROVE Inv'
  <1>1. CASE UNCHANGED vars
    <2>1. UNCHANGED <<dbVars, scan, todo, hold>> /\ clock' \in Nat
      BY <1>1 DEF vars, Inv, ScansOK
    <2> QED BY <2>1, StutterInv
  <1>2. CASE Tick
    BY <1>2, TickInv
  <1>3. ASSUME NEW p \in Scans,
               \/ StartScan(p) \/ ExpireStale(p) \/ SkipSymbol(p) \/ Score(p)
               \/ InsertSignal(p) \/ UpsertWatching(p) \/ ExpireBelowFloor(p) \/ Promote(p)
               \/ Ignore(p) \/ Abandon(p) \/ EndScan(p) \/ Crash(p)
        PROVE  Inv'
    BY <1>3, StartScanInv, ExpireStaleInv, SkipSymbolInv, ScoreInv, InsertSignalInv,
       UpsertWatchingInv, ExpireBelowFloorInv, PromoteInv, IgnoreInv, AbandonInv, EndScanInv,
       CrashInv
  <1> QED BY <1>1, <1>2, <1>3 DEF Next

(* However scans overlap, die or time out, every copy of the tables stays  *)
(* consistent and every decision keeps what it was made on.                *)
THEOREM Invariance == Spec => []Inv
  <1>1. Init => Inv
    BY InitInv
  <1>2. Inv /\ [Next]_vars => Inv'
    BY NextInv
  <1> QED BY <1>1, <1>2, PTL DEF Spec

(* Signals and watches name each other, one to one, and a symbol has one   *)
(* open watch at most (persistence.py, _insert_and_promote; watchlist/),   *)
(* in every overlap of scans.                                              *)
THEOREM WatchesStayPaired == Spec => []WatchesAgree
  <1>1. Inv => WatchesAgree
    BY DEF Inv, StoreOK, Sane, WatchesAgree
  <1> QED BY <1>1, Invariance, PTL

-----------------------------------------------------------------------------
(* Promotions.                                                             *)

PromotionStep == \A p \in Scans :
  /\ hold[p].action = "PROMOTE" /\ hold'[p] # hold[p]
  /\ Len(work'.signals) > Len(work.signals)
  => hold[p].rank > ExistingMax(work, hold[p].symbol, hold[p].hour)

(* Only a scan's own steps change what it holds.                           *)
LEMMA OwnHold ==
  ASSUME Inv, Next, NEW p \in Scans, hold[p].action = "PROMOTE", hold'[p] # hold[p]
  PROVE  Promote(p) \/ Abandon(p) \/ Crash(p)
  <1>1. hold[p] # NoHold /\ DOMAIN hold = Scans
    BY DEF NoHold, Inv, ScansOK
  <1>2. PICK q \in Scans :
          \/ Score(q) \/ InsertSignal(q) \/ UpsertWatching(q) \/ ExpireBelowFloor(q)
          \/ Promote(q) \/ Ignore(q) \/ Abandon(q) \/ EndScan(q) \/ Crash(q)
    BY DEF Next, Tick, StartScan, ExpireStale, SkipSymbol
  <1>3. \A r \in Scans \ {q} : hold'[r] = hold[r]
    BY <1>1, <1>2 DEF Score, InsertSignal, UpsertWatching, ExpireBelowFloor, Promote,
       Ignore, Abandon, EndScan, Crash, Done, Ends
  <1>4. q = p
    BY <1>3
  <1>5. ~Score(p)
    BY <1>1 DEF Score, Due
  <1>6. /\ ~InsertSignal(p) /\ ~UpsertWatching(p) /\ ~ExpireBelowFloor(p)
        /\ ~Ignore(p) /\ ~EndScan(p)
    BY <1>1 DEF InsertSignal, UpsertWatching, ExpireBelowFloor, Ignore, EndScan, Acts
  <1> QED BY <1>2, <1>4, <1>5, <1>6

LEMMA PromotionSteps == ASSUME Inv, [Next]_vars PROVE [PromotionStep]_vars
  <1> SUFFICES ASSUME Next, NEW p \in Scans, hold[p].action = "PROMOTE",
                      hold'[p] # hold[p], Len(work'.signals) > Len(work.signals)
               PROVE  hold[p].rank > ExistingMax(work, hold[p].symbol, hold[p].hour)
    BY DEF PromotionStep
  <1>1. StoreOK /\ Len(work.signals) \in Nat /\ Len(db.signals) \in Nat
    BY RowsFields DEF Inv, StoreOK, Sane
  <1>2. CASE Promote(p) /\ ~Declined(hold[p])
    <2>1. Basis(p) = work
      BY <1>2, PromotesBasis
    <2>2. Sound(p) /\ hold[p] \in Decisions
      BY ActsSound DEF NoHold
    <2>3. hold[p].seen \in Nat /\ hold[p].rank \in Nat
      BY <2>2 DEF Decisions
    <2> QED BY <1>2, <2>1, <2>2, <2>3 DEF Sound, Declined
  <1>3. CASE Promote(p) /\ Declined(hold[p])
    <2>1. work' = work
      BY <1>3 DEF Promote, dbVars
    <2> QED BY <1>1, <2>1
  <1>4. CASE Abandon(p)
    <2>1. work' = work
      BY <1>4 DEF Abandon, Timeout, dbVars
    <2> QED BY <1>1, <2>1
  <1>5. CASE Crash(p)
    <2>1. work' \in {work, db}
      BY <1>5 DEF Crash, Publish
    <2> QED BY <1>1, <2>1 DEF StoreOK
  <1> QED BY <1>2, <1>3, <1>4, <1>5, OwnHold

(* A promotion stores a signal only above every severity its candle then   *)
(* has, in every overlap of scans (persistence.py, insert_signal inside a  *)
(* savepoint).                                                             *)
THEOREM PromotionsAlwaysClimb == Spec => PromotionsClimb
  <1>1. Inv /\ [Next]_vars => [PromotionStep]_vars
    BY PromotionSteps
  <1>2. Spec => [][PromotionStep]_vars
    BY <1>1, Invariance, PTL DEF Spec
  <1> QED BY <1>2 DEF PromotionsClimb, PromotionStep

-----------------------------------------------------------------------------
(* One scan at a time: the severities of a candle climb.                   *)

OneScan == \A p, q \in Scans : p = q

Climbs(signals) ==
  \A i, j \in DOMAIN signals :
    /\ i < j
    /\ signals[i].symbol = signals[j].symbol
    /\ signals[i].hour = signals[j].hour
    => signals[i].rank < signals[j].rank

(* Nothing a scan reads is ever out of date.                               *)
Current(p) ==
  /\ Committed(p) = db
  /\ hold[p] # NoHold => Basis(p) = work

SoloInv ==
  /\ Climbs(db.signals) /\ Climbs(work.signals)
  /\ \A p \in Scans : Current(p)

LEMMA MaxIsGreatest ==
  ASSUME NEW T \in SUBSET (0 .. 3), NEW t \in T PROVE t <= Max(T \cup {0})
  <1> DEFINE U == T \cup {0}
  <1>1. Max(U) \in U
    BY MaxIsIn
  <1>2. \E x \in U : \A y \in U : x >= y
    <2>1. CASE 3 \in U
      BY <2>1
    <2>2. CASE 3 \notin U /\ 2 \in U
      BY <2>2
    <2>3. CASE 3 \notin U /\ 2 \notin U /\ 1 \in U
      BY <2>3
    <2>4. CASE 3 \notin U /\ 2 \notin U /\ 1 \notin U
      BY <2>4
    <2> QED BY <2>1, <2>2, <2>3, <2>4
  <1>3. t \in U /\ t \in Int /\ U \subseteq Int
    OBVIOUS
  <1> HIDE DEF U
  <1>4. \A y \in U : Max(U) >= y
    BY <1>2 DEF Max
  <1>5. Max(U) >= t /\ Max(U) \in Int
    BY <1>1, <1>3, <1>4
  <1> QED BY <1>3, <1>5 DEF U

LEMMA SignalClimbs ==
  ASSUME NEW rows \in Rows, Climbs(rows.signals), NEW h \in Decisions, NEW watch,
         h.rank > ExistingMax(rows, h.symbol, h.hour)
  PROVE  Climbs(WithSignal(rows, h, watch).signals)
  <1> DEFINE s == [symbol |-> h.symbol, hour |-> h.hour, rank |-> h.rank, watch |-> watch]
             n == Len(rows.signals)
             new == Append(rows.signals, s)
  <1>1. WithSignal(rows, h, watch).signals = new
    BY NewSignals DEF WithSignal
  <1>2. s.symbol = h.symbol /\ s.hour = h.hour /\ s.rank = h.rank /\ h.rank \in Nat
    BY DEF Decisions
  <1> HIDE DEF s
  <1>3. /\ n \in Nat /\ DOMAIN rows.signals = 1 .. n /\ DOMAIN new = 1 .. n + 1
        /\ new[n + 1] = s /\ \A i \in 1 .. n : new[i] = rows.signals[i]
    BY RowsFields
  <1> HIDE DEF new, n
  <1>4. ASSUME NEW i \in 1 .. n, rows.signals[i].symbol = s.symbol, rows.signals[i].hour = s.hour
        PROVE  rows.signals[i].rank < s.rank
    <2>1. \A j \in DOMAIN rows.signals : rows.signals[j].rank \in 0 .. 3
      <3>1. \A j \in DOMAIN rows.signals : rows.signals[j] \in Signal
        BY RowsFields
      <3> QED BY <3>1 DEF Signal
    <2>2. CandleRanks(rows, h.symbol, h.hour) \in SUBSET (0 .. 3)
      BY <2>1 DEF CandleRanks
    <2>3. rows.signals[i].rank \in CandleRanks(rows, h.symbol, h.hour)
      BY <1>2, <1>3, <1>4 DEF CandleRanks
    <2>4. rows.signals[i].rank <= ExistingMax(rows, h.symbol, h.hour)
      BY <2>2, <2>3, MaxIsGreatest DEF ExistingMax
    <2>5. rows.signals[i].rank \in Nat /\ ExistingMax(rows, h.symbol, h.hour) \in Nat
      BY <1>3, <2>1, ExistingMaxIsRank
    <2> QED BY <1>2, <2>4, <2>5
  <1>5. ASSUME NEW i \in 1 .. n + 1, NEW j \in 1 .. n + 1, i < j,
               new[i].symbol = new[j].symbol, new[i].hour = new[j].hour
        PROVE  new[i].rank < new[j].rank
    <2>1. i \in 1 .. n /\ new[i] = rows.signals[i]
      BY <1>3, <1>5
    <2>2. CASE j = n + 1
      BY <1>3, <1>4, <1>5, <2>1, <2>2
    <2>3. CASE j # n + 1
      <3>1. j \in 1 .. n /\ new[j] = rows.signals[j]
        BY <1>3, <2>3
      <3> QED BY <1>3, <1>5, <2>1, <3>1 DEF Climbs
    <2> QED BY <2>2, <2>3
  <1>6. Climbs(new)
    BY <1>3, <1>5 DEF Climbs
  <1> QED BY <1>1, <1>6

LEMMA PromotedSignals ==
  ASSUME NEW rows \in Rows, NEW h
  PROVE  PromotedRows(rows, h).signals = WithSignal(rows, h, h.watch).signals
  <1> DEFINE new == WithSignal(rows, h, h.watch)
             marked == [new EXCEPT !.watches[h.watch].status = "promoted",
                                   !.watches[h.watch].signal = Len(new.signals)]
  <1>1. PromotedRows(rows, h) \in {new, marked}
    BY DEF PromotedRows
  <1>2. marked.signals = new.signals
    <2> HIDE DEF new
    <2> QED OBVIOUS
  <1> HIDE DEF new, marked
  <1> QED BY <1>1, <1>2 DEF new

LEMMA SameSignals ==
  ASSUME NEW rows \in Rows, NEW t, NEW w, NEW expires
  PROVE  /\ ExpiredRows(rows, t).signals = rows.signals
         /\ BelowFloor(rows, w).signals = rows.signals
         /\ WithWatch(rows, w, expires).signals = rows.signals
         /\ [rows EXCEPT !.watches[w].expires = expires].signals = rows.signals
  BY DEF ExpiredRows, BelowFloor, WithWatch, Rows

LEMMA SoloInit == ASSUME Init PROVE SoloInv
  <1>1. db.signals = <<>> /\ work.signals = <<>>
    BY DEF Init, Empty
  <1>2. Climbs(<<>>)
    BY DEF Climbs
  <1>3. \A p \in Scans : Current(p)
    BY DEF Init, Current, Committed, Live
  <1> QED BY <1>1, <1>2, <1>3 DEF SoloInv

LEMMA SoloHolds == ASSUME OneScan, Inv, SoloInv, NEW p \in Scans
  PROVE  /\ Committed(p) = db /\ View(p) = work /\ writer \in {p, NoScan}
         /\ hold[p] # NoHold => Basis(p) = work
  <1>1. Committed(p) = db /\ (hold[p] # NoHold => Basis(p) = work)
    BY DEF SoloInv, Current
  <1>2. writer \in {p, NoScan} /\ (writer = NoScan => work = db)
    BY DEF Inv, StoreOK, OneScan
  <1> QED BY <1>1, <1>2 DEF View

(* The one scan p reads what there is, and has nothing in hand.            *)
LEMMA SoloStep ==
  ASSUME OneScan, NEW p \in Scans, hold'[p] = NoHold, Committed(p)' = db',
         Climbs(db'.signals), Climbs(work'.signals)
  PROVE  SoloInv'
  <1>1. \A q \in Scans : q = p
    BY DEF OneScan
  <1>2. Current(p)'
    BY DEF Current
  <1> QED BY <1>1, <1>2 DEF SoloInv, Climbs

LEMMA SoloUnpins ==
  ASSUME Inv, NEW p \in Scans, Unpin(p) PROVE Committed(p)' = db'
  BY DEF Unpin, Committed, Live, Inv, StoreOK

LEMMA SoloTimeout ==
  ASSUME Inv, NEW p \in Scans, Timeout(p), Committed(p) = db
  PROVE  db' = db /\ work' = work /\ Committed(p)' = db'
  BY DEF Timeout, Pinned, Committed, Inv, StoreOK

LEMMA SoloUntouched == ASSUME SoloInv, UNCHANGED <<dbVars, hold>> PROVE SoloInv'
  <1>1. UNCHANGED <<db, work, writer, snap, hold>>
    BY DEF dbVars
  <1>2. ASSUME NEW p \in Scans PROVE Current(p)'
    BY <1>1 DEF SoloInv, Current, Committed, Basis
  <1> QED BY <1>1, <1>2 DEF SoloInv, Climbs

LEMMA SoloExpireStale ==
  ASSUME OneScan, Inv, SoloInv, NEW p \in Scans, ExpireStale(p) PROVE SoloInv'
  <1>1. work \in Rows /\ Committed(p) = db /\ DOMAIN hold = Scans
    BY SoloHolds DEF Inv, StoreOK, Sane, ScansOK
  <1>2. hold'[p] = NoHold
    BY DEF ExpireStale, Inv, HoldOK
  <1>3. CASE Publish(p, ExpiredRows(work, scan[p].now))
    <2>1. /\ db' = ExpiredRows(work, scan[p].now) /\ work' = db'
          /\ Committed(p)' = db'
      BY <1>3, SoloUnpins DEF Publish
    <2>2. db'.signals = work.signals /\ work'.signals = work.signals
      BY <1>1, <2>1, SameSignals
    <2> QED BY <1>2, <2>1, <2>2, SoloStep DEF SoloInv
  <1>4. CASE Timeout(p)
    BY <1>1, <1>2, <1>4, SoloTimeout, SoloStep DEF SoloInv
  <1> QED BY <1>3, <1>4 DEF ExpireStale

LEMMA SoloScore ==
  ASSUME OneScan, Inv, SoloInv, NEW p \in Scans, Score(p) PROVE SoloInv'
  <1>1. PICK symbol \in todo[p], score \in Scores :
          hold' = [hold EXCEPT ![p] = Decision(p, symbol, score)]
    BY DEF Score
  <1>2. UNCHANGED <<db, work, writer, snap>>
    BY DEF Score, dbVars
  <1>3. /\ Committed(p) = db /\ writer \in {p, NoScan} /\ DOMAIN hold = Scans
        /\ (writer = NoScan => work = db) /\ p # NoScan
    BY SoloHolds, StoreAssumption DEF Inv, StoreOK, ScansOK
  <1>4. Decision(p, symbol, score).base = db
    BY <1>3 DEF Decision
  <1>5. hold'[p] # NoHold => hold'[p].base = db
    BY <1>1, <1>3, <1>4
  <1>6. Current(p)'
    BY <1>2, <1>3, <1>5 DEF Current, Committed, Basis
  <1> QED BY <1>2, <1>6 DEF SoloInv, OneScan, Climbs

(* What is stored of a decision: nothing, or a signal that climbs.         *)
Stored(h, rows) ==
  \/ rows.signals = work.signals
  \/ ~Declined(h) /\ rows.signals = WithSignal(work, h, None).signals
  \/ ~Declined(h) /\ rows.signals = WithSignal(work, h, h.watch).signals

LEMMA StoredClimbs ==
  ASSUME OneScan, Inv, SoloInv, NEW p \in Scans, hold[p] # NoHold,
         Stored(hold[p], work')
  PROVE  Climbs(work'.signals)
  <1> DEFINE h == hold[p]
  <1>1. Sound(p) /\ h \in Decisions /\ Basis(p) = work /\ work \in Rows
    BY ActsSound, SoloHolds DEF Inv, StoreOK, Sane
  <1>2. h.seen = ExistingMax(work, h.symbol, h.hour) /\ h.seen \in Nat /\ h.rank \in Nat
    BY <1>1 DEF Sound, Decisions
  <1>3. ~Declined(h) => h.rank > ExistingMax(work, h.symbol, h.hour)
    BY <1>2 DEF Declined
  <1> HIDE DEF h
  <1>4. ~Declined(h) => /\ Climbs(WithSignal(work, h, None).signals)
                        /\ Climbs(WithSignal(work, h, h.watch).signals)
    BY <1>1, <1>3, SignalClimbs DEF SoloInv
  <1> QED BY <1>4 DEF Stored, SoloInv, h

(* The steps that act on a decision.                                       *)
LEMMA SoloActs ==
  ASSUME OneScan, Inv, SoloInv, NEW p \in Scans, hold[p] # NoHold, Done(p),
         \/ UNCHANGED dbVars
         \/ Timeout(p)
         \/ Unpin(p) /\ db' \in {db, work'} /\ Stored(hold[p], work')
  PROVE  SoloInv'
  <1>1. hold'[p] = NoHold /\ Committed(p) = db
    BY SoloHolds DEF Done, Inv, ScansOK
  <1>2. CASE UNCHANGED dbVars
    <2>1. UNCHANGED <<db, work, snap>>
      BY <1>2 DEF dbVars
    <2> QED BY <1>1, <2>1, SoloStep DEF SoloInv, Committed
  <1>3. CASE Timeout(p)
    BY <1>1, <1>3, SoloTimeout, SoloStep DEF SoloInv
  <1>4. CASE Unpin(p) /\ db' \in {db, work'} /\ Stored(hold[p], work')
    <2>1. Climbs(work'.signals)
      BY <1>4, StoredClimbs
    <2>2. Climbs(db'.signals)
      BY <1>4, <2>1 DEF SoloInv
    <2> QED BY <1>1, <1>4, <2>1, <2>2, SoloUnpins, SoloStep
  <1> QED BY <1>2, <1>3, <1>4

LEMMA SoloInsert ==
  ASSUME OneScan, Inv, SoloInv, NEW p \in Scans, InsertSignal(p) PROVE SoloInv'
  <1>1. hold[p] # NoHold /\ Done(p)
    BY ActsHolds DEF InsertSignal, Actions
  <1>2. \/ UNCHANGED dbVars
        \/ Unpin(p) /\ db' \in {db, work'} /\ Stored(hold[p], work')
    <2>1. CASE FailedInsert(p)
      BY <2>1 DEF FailedInsert, Pend, Stored
    <2>2. CASE ~Declined(hold[p]) /\ Publish(p, WithSignal(work, hold[p], None))
      BY <2>2 DEF Publish, Stored
    <2> QED BY <2>1, <2>2 DEF InsertSignal
  <1> QED BY <1>1, <1>2, SoloActs

LEMMA SoloUpsert ==
  ASSUME OneScan, Inv, SoloInv, NEW p \in Scans, UpsertWatching(p) PROVE SoloInv'
  <1> DEFINE h == hold[p]
             expires == scan[p].now + MaxWatchHours
  <1>1. h # NoHold /\ Done(p) /\ work \in Rows
    BY ActsHolds DEF UpsertWatching, Actions, Inv, StoreOK, Sane
  <1>2. Unpin(p) /\ db' \in {db, work'} /\ work'.signals = work.signals
    <2>1. CASE FailedInsert(p)
      BY <2>1 DEF FailedInsert, Pend
    <2>2. CASE Publish(p, WithWatch(work, h.symbol, expires))
      <3>1. WithWatch(work, h.symbol, expires).signals = work.signals
        BY <1>1, SameSignals
      <3> QED BY <2>2, <3>1 DEF Publish
    <2>3. CASE Publish(p, [work EXCEPT !.watches[h.watch].expires = expires])
      <3>1. [work EXCEPT !.watches[h.watch].expires = expires].signals = work.signals
        BY <1>1, SameSignals
      <3> QED BY <2>3, <3>1 DEF Publish
    <2> QED BY <2>1, <2>2, <2>3 DEF UpsertWatching
  <1> QED BY <1>1, <1>2, SoloActs DEF Stored

LEMMA SoloExpireBelowFloor ==
  ASSUME OneScan, Inv, SoloInv, NEW p \in Scans, ExpireBelowFloor(p) PROVE SoloInv'
  <1>1. hold[p] # NoHold /\ Done(p) /\ work \in Rows
    BY ActsHolds DEF ExpireBelowFloor, Actions, Inv, StoreOK, Sane
  <1>2. \/ UNCHANGED dbVars
        \/ Unpin(p) /\ db' \in {db, work'} /\ work'.signals = work.signals
    BY <1>1, SameSignals DEF ExpireBelowFloor, Publish
  <1> QED BY <1>1, <1>2, SoloActs DEF Stored

LEMMA SoloPromote ==
  ASSUME OneScan, Inv, SoloInv, NEW p \in Scans, Promote(p) PROVE SoloInv'
  <1>1. hold[p] # NoHold /\ Done(p) /\ work \in Rows
    BY ActsHolds DEF Promote, Actions, Inv, StoreOK, Sane
  <1>2. \/ UNCHANGED dbVars
        \/ Unpin(p) /\ db' \in {db, work'} /\ Stored(hold[p], work')
    <2>1. CASE /\ ~Declined(hold[p])
               /\ \/ Pend(p, PromotedRows(work, hold[p]))
                  \/ Publish(p, PromotedRows(work, hold[p]))
      <3>1. Stored(hold[p], PromotedRows(work, hold[p]))
        BY <1>1, <2>1, PromotedSignals DEF Stored
      <3> QED BY <2>1, <3>1 DEF Pend, Publish, Stored
    <2> QED BY <2>1 DEF Promote
  <1> QED BY <1>1, <1>2, SoloActs

LEMMA SoloAbandon ==
  ASSUME OneScan, Inv, SoloInv, NEW p \in Scans, Ignore(p) \/ Abandon(p) PROVE SoloInv'
  <1>1. hold[p] # NoHold /\ Done(p) /\ (UNCHANGED dbVars \/ Timeout(p))
    BY ActsHolds DEF Ignore, Abandon, Actions
  <1> QED BY <1>1, SoloActs

LEMMA SoloEnds ==
  ASSUME OneScan, Inv, SoloInv, NEW p \in Scans, EndScan(p) \/ Crash(p) PROVE SoloInv'
  <1>1. hold'[p] = NoHold /\ Unpin(p)
    BY DEF EndScan, Crash, Ends, Publish, Inv, ScansOK
  <1>2. work' \in {work, db} /\ db' \in {work, db}
    BY DEF EndScan, Crash, Publish
  <1> QED BY <1>1, <1>2, SoloUnpins, SoloStep DEF SoloInv

LEMMA SoloNext == ASSUME OneScan, Inv, SoloInv, [Next]_vars PROVE SoloInv'
  <1>1. CASE UNCHANGED vars \/ Tick
    BY <1>1, SoloUntouched DEF vars, Tick
  <1>2. ASSUME NEW p \in Scans, StartScan(p) \/ SkipSymbol(p) PROVE SoloInv'
    BY <1>2, SoloUntouched DEF StartScan, SkipSymbol
  <1>3. ASSUME NEW p \in Scans,
               \/ ExpireStale(p) \/ Score(p) \/ InsertSignal(p) \/ UpsertWatching(p)
               \/ ExpireBelowFloor(p) \/ Promote(p) \/ Ignore(p) \/ Abandon(p)
               \/ EndScan(p) \/ Crash(p)
        PROVE  SoloInv'
    BY <1>3, SoloExpireStale, SoloScore, SoloInsert, SoloUpsert, SoloExpireBelowFloor,
       SoloPromote, SoloAbandon, SoloEnds
  <1> QED BY <1>1, <1>2, <1>3 DEF Next

(* With one scan at a time, through crashes and timeouts, the severities   *)
(* stored for one candle climb (persistence.py, rules 4 and 5), whichever  *)
(* of the two inserts stored them.                                         *)
THEOREM LadderIsKept == ASSUME OneScan PROVE Spec => []LadderClimbs
  <1>1. Init => SoloInv
    BY SoloInit
  <1>2. Inv /\ SoloInv /\ [Next]_vars => SoloInv'
    BY SoloNext
  <1>3. SoloInv => LadderClimbs
    BY DEF SoloInv, Climbs, LadderClimbs
  <1> QED BY <1>1, <1>2, <1>3, Invariance, PTL DEF Spec

-----------------------------------------------------------------------------
(* One scan at a time: what is accepted is stored.                         *)

AcceptedStep == \A p \in Scans :
  /\ hold[p] # NoHold /\ hold[p].rank > 0 /\ hold'[p] = NoHold
  /\ faults' = faults
  => ExistingMax(View(p)', hold[p].symbol, hold[p].hour) >= hold[p].rank

LEMMA RankShows ==
  ASSUME NEW rows \in Rows, NEW symbol, NEW hour, NEW rank \in CandleRanks(rows, symbol, hour)
  PROVE  ExistingMax(rows, symbol, hour) >= rank
  <1>1. \A j \in DOMAIN rows.signals : rows.signals[j] \in Signal
    BY RowsFields
  <1>2. CandleRanks(rows, symbol, hour) \in SUBSET (0 .. 3)
    BY <1>1 DEF CandleRanks, Signal
  <1>3. rank <= ExistingMax(rows, symbol, hour) /\ rank \in Nat
    BY <1>2, MaxIsGreatest DEF ExistingMax
  <1> QED BY <1>3, ExistingMaxIsRank

LEMMA StoredShows ==
  ASSUME NEW rows \in Rows, NEW h \in Decisions, NEW new \in Rows, NEW watch,
         h.rank > 0, new.signals = WithSignal(rows, h, watch).signals
  PROVE  ExistingMax(new, h.symbol, h.hour) >= h.rank
  <1> DEFINE s == [symbol |-> h.symbol, hour |-> h.hour, rank |-> h.rank, watch |-> watch]
             n == Len(rows.signals)
  <1>1. new.signals = Append(rows.signals, s)
    BY NewSignals DEF WithSignal
  <1>2. s.symbol = h.symbol /\ s.hour = h.hour /\ s.rank = h.rank
    OBVIOUS
  <1> HIDE DEF s
  <1>3. n + 1 \in DOMAIN new.signals /\ new.signals[n + 1] = s
    BY <1>1, RowsFields
  <1>4. h.rank \in CandleRanks(new, h.symbol, h.hour)
    BY <1>2, <1>3 DEF CandleRanks
  <1> QED BY <1>4, RankShows

LEMMA AcceptedSteps ==
  ASSUME OneScan, Inv, Inv', SoloInv, SoloInv', faults \in Nat, [Next]_vars
  PROVE  [AcceptedStep]_vars
  <1> SUFFICES ASSUME Next, NEW p \in Scans, hold[p] # NoHold, hold[p].rank > 0,
                      hold'[p] = NoHold, faults' = faults
               PROVE  ExistingMax(View(p)', hold[p].symbol, hold[p].hour) >= hold[p].rank
    BY DEF AcceptedStep
  <1> DEFINE h == hold[p]
  <1>1. /\ Sound(p) /\ h \in Decisions /\ work \in Rows /\ work' \in Rows
        /\ Basis(p) = work /\ Committed(p) = db /\ View(p) = work
        /\ writer \in {p, NoScan} /\ (writer = NoScan => work = db)
    BY ActsSound, SoloHolds DEF Inv, StoreOK, Sane
  <1>2. View(p)' = work'
    BY DEF SoloInv, Current, Inv, StoreOK, OneScan, View
  <1>3. h.seen = ExistingMax(work, h.symbol, h.hour) /\ h.seen \in Nat /\ h.rank \in Nat
    BY <1>1 DEF Sound, Decisions
  <1>4. h.action \in {"INSERT", "PROMOTE"} /\ ~Fault
    BY <1>1 DEF Sound, Fault
  <1>5. PICK q \in Scans :
          \/ Score(q) \/ InsertSignal(q) \/ UpsertWatching(q) \/ ExpireBelowFloor(q)
          \/ Promote(q) \/ Ignore(q) \/ Abandon(q) \/ EndScan(q) \/ Crash(q)
    BY DEF Next, Tick, StartScan, ExpireStale, SkipSymbol
  <1>6. InsertSignal(p) \/ Promote(p) \/ Abandon(p)
    <2>1. q = p
      BY DEF OneScan
    <2>2. ~Score(p) /\ ~EndScan(p)
      BY DEF Score, Due, EndScan
    <2>3. ~UpsertWatching(p) /\ ~ExpireBelowFloor(p) /\ ~Ignore(p) /\ ~Crash(p)
      BY <1>4 DEF UpsertWatching, ExpireBelowFloor, Ignore, Acts, Crash
    <2> QED BY <1>5, <2>1, <2>2, <2>3
  <1>7. CASE InsertSignal(p)
    <2>1. CASE Declined(h) /\ work' = work
      BY <1>2, <1>3, <2>1 DEF Declined
    <2>2. CASE h.rank \in CandleRanks(work, h.symbol, h.hour) /\ work' = work
      BY <1>1, <1>2, <1>3, <2>2, RankShows
    <2>3. CASE work' = WithSignal(work, h, None)
      BY <1>1, <1>2, <1>4, <2>3, StoredShows DEF Sound
    <2> QED BY <1>1, <1>7, <2>1, <2>2, <2>3 DEF InsertSignal, dbVars, FailedInsert, Pend, Publish
  <1>8. CASE Promote(p)
    <2>1. CASE Declined(h) /\ work' = work
      BY <1>2, <1>3, <2>1 DEF Declined
    <2>2. CASE work' = PromotedRows(work, h)
      <3>1. work'.signals = WithSignal(work, h, h.watch).signals
        BY <1>1, <2>2, PromotedSignals
      <3> QED BY <1>1, <1>2, <1>4, <3>1, StoredShows DEF Sound
    <2> QED BY <1>8, <2>1, <2>2 DEF Promote, dbVars, Pend, Publish
  <1>9. ~Abandon(p)
    <2>1. ~Timeout(p)
      BY <1>4 DEF Timeout
    <2>2. SnapshotHolds(p)
      BY <1>1 DEF SnapshotHolds, Basis
    <2> QED BY <1>1, <1>4, <2>1, <2>2 DEF Abandon
  <1> QED BY <1>6, <1>7, <1>8, <1>9

LEMMA FaultsCount == ASSUME faults \in Nat, [Next]_vars PROVE faults' \in Nat
  <1>1. faults' = faults \/ faults' = faults + 1
    BY DEF Next, vars, Tick, StartScan, ExpireStale, SkipSymbol, Score, InsertSignal,
       UpsertWatching, ExpireBelowFloor, Promote, Ignore, Abandon, EndScan, Crash, Timeout,
       Fault
  <1> QED BY <1>1

(* With one scan at a time, and whatever is decided of it, a score that    *)
(* clears the emit floor is let go only with a signal at least that severe *)
(* on its candle, or through a fault: no regime adjustment and no watch    *)
(* floor makes decide_watch_action ignore or expire it.                    *)
THEOREM AcceptedIsKept == ASSUME OneScan PROVE Spec => AcceptedIsStored
  <1> DEFINE Counted == faults \in Nat
  <1>1. Init => SoloInv /\ Counted
    BY SoloInit DEF Init
  <1>2. Inv /\ SoloInv /\ Counted /\ [Next]_vars => SoloInv' /\ Counted'
    BY SoloNext, FaultsCount
  <1>3. Inv /\ Inv' /\ SoloInv /\ SoloInv' /\ Counted /\ [Next]_vars => [AcceptedStep]_vars
    BY AcceptedSteps
  <1>4. Spec => [][AcceptedStep]_vars
    <2> HIDE DEF Counted
    <2> QED BY <1>1, <1>2, <1>3, Invariance, PTL DEF Spec
  <1> QED BY <1>4 DEF AcceptedIsStored, AcceptedStep

-----------------------------------------------------------------------------
(* One scan at a time: resolved watches stay, open ones are in time.       *)

Kept(old, new) ==
  \A w \in DOMAIN old.watches : old.watches[w].status # "watching"
    => w \in DOMAIN new.watches /\ new.watches[w] = old.watches[w]

Fresh(rows, t) ==
  \A w \in DOMAIN rows.watches :
    rows.watches[w].status = "watching" => t < rows.watches[w].expires

(* A scan that has expired what was stale finds open rows in time only.    *)
InTime(p) == scan[p].expired => Fresh(work, scan[p].now)

TimeInv == Kept(db, work) /\ \A p \in Scans : InTime(p)

TimeStep ==
  /\ \A w \in DOMAIN db.watches :
       db.watches[w].status # "watching" => db'.watches[w] = db.watches[w]
  /\ \A p \in Scans : Promote(p) /\ scan[p].expired =>
       \A w \in DOMAIN work.watches :
         /\ work.watches[w].status = "watching"
         /\ work'.watches[w].status = "promoted"
         => scan[p].now < work.watches[w].expires

(* How each write treats the watches.                                      *)
Heeds(old, new, t) == Kept(old, new) /\ (Fresh(old, t) => Fresh(new, t))

LEMMA SameWatchesHeed ==
  ASSUME NEW old, NEW new, new.watches = old.watches, NEW t PROVE Heeds(old, new, t)
  BY DEF Heeds, Kept, Fresh

LEMMA ExpiringHeeds ==
  ASSUME NEW rows \in Rows, NEW t \in Nat
  PROVE  Kept(rows, ExpiredRows(rows, t)) /\ Fresh(ExpiredRows(rows, t), t)
  <1> DEFINE Aged(w) == IF rows.watches[w].status = "watching" /\ rows.watches[w].expires <= t
                          THEN [rows.watches[w] EXCEPT !.status = "expired"]
                          ELSE rows.watches[w]
             ws == [w \in DOMAIN rows.watches |-> Aged(w)]
  <1>1. ExpiredRows(rows, t).watches = ws
    BY DEF ExpiredRows, Rows
  <1>2. \A v \in DOMAIN rows.watches :
          /\ rows.watches[v].status # "watching" => Aged(v) = rows.watches[v]
          /\ Aged(v).status = "watching" => t < Aged(v).expires
    <2>1. \A v \in DOMAIN rows.watches : rows.watches[v] \in Watch
      BY RowsFields
    <2> QED BY <2>1 DEF Watch
  <1> HIDE DEF Aged
  <1>3. DOMAIN ws = DOMAIN rows.watches /\ \A v \in DOMAIN rows.watches : ws[v] = Aged(v)
    OBVIOUS
  <1> HIDE DEF ws
  <1> QED BY <1>1, <1>2, <1>3 DEF Kept, Fresh

LEMMA WatchHeeds ==
  ASSUME NEW rows \in Rows, NEW symbol, NEW expires \in Nat, NEW t \in Nat, t < expires
  PROVE  Heeds(rows, WithWatch(rows, symbol, expires), t)
  <1> DEFINE w == [symbol |-> symbol, status |-> "watching", expires |-> expires,
                   signal |-> None]
             ws == Append(rows.watches, w)
  <1>1. WithWatch(rows, symbol, expires).watches = ws
    BY NewWatches DEF WithWatch
  <1>2. w.expires = expires
    OBVIOUS
  <1> HIDE DEF w
  <1>3. /\ Len(rows.watches) \in Nat
        /\ DOMAIN rows.watches = 1 .. Len(rows.watches)
        /\ DOMAIN ws = 1 .. Len(rows.watches) + 1
        /\ ws[Len(rows.watches) + 1] = w
        /\ \A v \in 1 .. Len(rows.watches) : ws[v] = rows.watches[v]
    BY RowsFields
  <1> HIDE DEF ws
  <1> QED BY <1>1, <1>2, <1>3 DEF Heeds, Kept, Fresh

(* An open row changed in its deadline or its status.                      *)
LEMMA ChangeHeeds ==
  ASSUME NEW old \in Rows, NEW new, NEW w \in DOMAIN old.watches, NEW t,
         old.watches[w].status = "watching",
         DOMAIN new.watches = DOMAIN old.watches,
         \A v \in DOMAIN old.watches : v # w => new.watches[v] = old.watches[v],
         new.watches[w].status # "watching" \/ t < new.watches[w].expires
  PROVE  Heeds(old, new, t)
  BY DEF Heeds, Kept, Fresh

LEMMA RefreshHeeds ==
  ASSUME NEW rows \in Rows, NEW w \in DOMAIN rows.watches, NEW expires \in Nat,
         rows.watches[w].status = "watching", NEW t \in Nat, t < expires
  PROVE  Heeds(rows, [rows EXCEPT !.watches[w].expires = expires], t)
  <1> DEFINE new == [rows EXCEPT !.watches[w].expires = expires]
  <1>1. new.watches = [rows.watches EXCEPT ![w].expires = expires]
    BY DEF Rows
  <1>2. rows.watches[w] \in Watch
    BY RowsFields
  <1> HIDE DEF new
  <1>3. /\ DOMAIN new.watches = DOMAIN rows.watches
        /\ \A v \in DOMAIN rows.watches : v # w => new.watches[v] = rows.watches[v]
        /\ new.watches[w].expires = expires
    BY <1>1, <1>2 DEF Watch
  <1> QED BY <1>3, ChangeHeeds DEF new

LEMMA BelowFloorHeeds ==
  ASSUME NEW rows \in Rows, NEW w \in DOMAIN rows.watches,
         rows.watches[w].status = "watching", NEW t
  PROVE  Heeds(rows, BelowFloor(rows, w), t)
  <1> DEFINE new == BelowFloor(rows, w)
  <1>1. new.watches = [rows.watches EXCEPT ![w].status = "expired"]
    BY DEF Rows, BelowFloor
  <1>2. rows.watches[w] \in Watch
    BY RowsFields
  <1> HIDE DEF new
  <1>3. /\ DOMAIN new.watches = DOMAIN rows.watches
        /\ \A v \in DOMAIN rows.watches : v # w => new.watches[v] = rows.watches[v]
        /\ new.watches[w].status = "expired"
    BY <1>1, <1>2 DEF Watch
  <1> QED BY <1>3, ChangeHeeds DEF new

LEMMA PromotionHeeds ==
  ASSUME NEW rows \in Rows, NEW h \in Decisions, h.watch = GetWatching(rows, h.symbol), NEW t
  PROVE  Heeds(rows, PromotedRows(rows, h), t)
  <1> DEFINE w == h.watch
             linked == WithSignal(rows, h, w)
  <1>1. linked.watches = rows.watches
    BY NewSignals DEF WithSignal
  <1>2. CASE w = None
    BY <1>1, <1>2, SameWatchesHeed DEF PromotedRows
  <1>3. CASE w # None
    <2> DEFINE n == Len(linked.signals)
               marked == [linked EXCEPT !.watches[w].status = "promoted"]
               new == [marked EXCEPT !.watches[w].signal = n]
    <2>1. PromotedRows(rows, h) = new
      <3>1. PromotedRows(rows, h) = [linked EXCEPT !.watches[w].status = "promoted",
                                                   !.watches[w].signal = n]
        BY <1>3 DEF PromotedRows
      <3> HIDE DEF linked
      <3> QED BY <3>1
    <2>2. /\ w \in DOMAIN rows.watches /\ rows.watches[w].status = "watching"
          /\ rows.watches[w] \in Watch
      BY <1>3, GetWatchingFinds, RowsFields DEF Watching
    <2>3. new.watches = [rows.watches EXCEPT ![w].status = "promoted", ![w].signal = n]
      <3>1. linked = [signals |-> linked.signals, watches |-> rows.watches]
        BY NewSignals DEF WithSignal
      <3> HIDE DEF linked, n
      <3> QED BY <3>1
    <2> HIDE DEF new, n, linked
    <2>4. /\ DOMAIN new.watches = DOMAIN rows.watches
          /\ \A v \in DOMAIN rows.watches : v # w => new.watches[v] = rows.watches[v]
          /\ new.watches[w].status = "promoted"
      BY <2>2, <2>3 DEF Watch
    <2> QED BY <2>1, <2>2, <2>4, ChangeHeeds
  <1> QED BY <1>2, <1>3

(* What is left to show of a step of the one scan p.                       *)
TimeGoal == TimeInv' /\ Kept(db, db')

LEMMA TimeFrame ==
  ASSUME OneScan, TimeInv, NEW p \in Scans, db' \in {db, work'},
         work' = db \/ Kept(work, work'), InTime(p)'
  PROVE  TimeGoal
  <1>1. Kept(db, work') /\ Kept(db, db')
    BY DEF TimeInv, Kept
  <1>2. Kept(db', work')
    BY <1>1 DEF Kept
  <1>3. \A q \in Scans : InTime(q)'
    BY DEF OneScan
  <1> QED BY <1>1, <1>2, <1>3 DEF TimeGoal, TimeInv

LEMMA TimeWrites ==
  ASSUME OneScan, TimeInv, NEW p \in Scans, scan' = scan,
         \/ UNCHANGED <<db, work>>
         \/ db' \in {db, work'} /\ Heeds(work, work', scan[p].now)
  PROVE  TimeGoal
  <1>1. Heeds(work, work, scan[p].now)
    BY DEF Heeds, Kept
  <1>2. db' \in {db, work'} /\ Heeds(work, work', scan[p].now)
    BY <1>1
  <1>3. InTime(p)'
    BY <1>2 DEF TimeInv, InTime, Heeds
  <1> QED BY <1>2, <1>3, TimeFrame DEF Heeds

LEMMA TimeUntouched == ASSUME TimeInv, UNCHANGED <<dbVars, scan>> PROVE TimeGoal
  <1>1. UNCHANGED <<db, work, scan>>
    BY DEF dbVars
  <1> QED BY <1>1 DEF TimeGoal, TimeInv, InTime, Kept, Fresh

LEMMA TimeExpireStale ==
  ASSUME OneScan, Inv, TimeInv, NEW p \in Scans, ExpireStale(p) PROVE TimeGoal
  <1>1. work \in Rows /\ scan[p].now \in Nat /\ DOMAIN scan = Scans
    BY DEF Inv, StoreOK, Sane, ScansOK
  <1>2. scan'[p].now = scan[p].now
    BY <1>1 DEF ExpireStale, Inv, ScansOK
  <1>3. CASE Publish(p, ExpiredRows(work, scan[p].now))
    <2>1. db' = work' /\ work' = ExpiredRows(work, scan[p].now)
      BY <1>3 DEF Publish
    <2>2. Kept(work, work') /\ Fresh(work', scan'[p].now)
      BY <1>1, <1>2, <2>1, ExpiringHeeds
    <2> QED BY <2>1, <2>2, TimeFrame DEF InTime
  <1>4. CASE Timeout(p) /\ scan' = [scan EXCEPT ![p].pc = "score"]
    <2>1. UNCHANGED <<db, work>> /\ scan'[p].expired = scan[p].expired
      BY <1>1, <1>4 DEF Timeout, Inv, ScansOK
    <2>2. InTime(p)'
      BY <1>2, <2>1 DEF TimeInv, InTime
    <2> QED BY <2>1, <2>2, TimeFrame DEF Kept
  <1> QED BY <1>3, <1>4 DEF ExpireStale

LEMMA TimeInsert ==
  ASSUME OneScan, Inv, TimeInv, NEW p \in Scans, InsertSignal(p) PROVE TimeGoal
  <1>1. work \in Rows /\ scan' = scan
    BY DEF Inv, StoreOK, Sane, InsertSignal, Done
  <1>2. WithSignal(work, hold[p], None).watches = work.watches
    BY <1>1, NewSignals DEF WithSignal
  <1>3. \/ UNCHANGED <<db, work>>
        \/ db' \in {db, work'} /\ work' = WithSignal(work, hold[p], None)
    BY DEF InsertSignal, dbVars, FailedInsert, Pend, Publish
  <1> QED BY <1>1, <1>2, <1>3, SameWatchesHeed, TimeWrites

(* The watch a decision found is an open row.                              *)
LEMMA HoldsOpenWatch ==
  ASSUME OneScan, Inv, SoloInv, NEW p \in Scans, hold[p] # NoHold, hold[p].watch # None
  PROVE  hold[p].watch \in DOMAIN work.watches /\ work.watches[hold[p].watch].status = "watching"
  <1>1. Sound(p) /\ Basis(p) = work /\ work \in Rows
    BY ActsSound, SoloHolds DEF Inv, StoreOK, Sane
  <1> QED BY <1>1, GetWatchingFinds DEF Sound, Watching

LEMMA TimeUpsert ==
  ASSUME OneScan, Inv, SoloInv, TimeInv, NEW p \in Scans, UpsertWatching(p) PROVE TimeGoal
  <1> DEFINE h == hold[p]
             t == scan[p].now
             expires == t + MaxWatchHours
  <1>1. h # NoHold /\ work \in Rows /\ scan' = scan
    BY ActsHolds DEF UpsertWatching, Actions, Inv, StoreOK, Sane, Done
  <1>2. t \in Nat /\ expires \in Nat /\ t < expires
    BY StoreAssumption DEF Inv, ScansOK
  <1> HIDE DEF expires
  <1>3. CASE FailedInsert(p)
    BY <1>1, <1>3, TimeWrites DEF FailedInsert, Pend
  <1>4. CASE Publish(p, WithWatch(work, h.symbol, expires))
    <2>1. db' = work' /\ work' = WithWatch(work, h.symbol, expires)
      BY <1>4 DEF Publish
    <2> QED BY <1>1, <1>2, <2>1, WatchHeeds, TimeWrites
  <1>5. CASE h.watch # None /\ Publish(p, [work EXCEPT !.watches[h.watch].expires = expires])
    <2>1. db' = work' /\ work' = [work EXCEPT !.watches[h.watch].expires = expires]
      BY <1>5 DEF Publish
    <2>2. h.watch \in DOMAIN work.watches /\ work.watches[h.watch].status = "watching"
      BY <1>1, <1>5, HoldsOpenWatch
    <2> QED BY <1>1, <1>2, <2>1, <2>2, RefreshHeeds, TimeWrites
  <1> QED BY <1>3, <1>4, <1>5 DEF UpsertWatching, expires

LEMMA TimeExpireBelowFloor ==
  ASSUME OneScan, Inv, SoloInv, TimeInv, NEW p \in Scans, ExpireBelowFloor(p) PROVE TimeGoal
  <1> DEFINE h == hold[p]
  <1>1. h # NoHold /\ work \in Rows /\ scan' = scan
    BY ActsHolds DEF ExpireBelowFloor, Actions, Inv, StoreOK, Sane, Done
  <1>2. CASE UNCHANGED dbVars
    BY <1>1, <1>2, TimeWrites DEF dbVars
  <1>3. CASE h.watch # None /\ Publish(p, BelowFloor(work, h.watch))
    <2>1. db' = work' /\ work' = BelowFloor(work, h.watch)
      BY <1>3 DEF Publish
    <2>2. h.watch \in DOMAIN work.watches /\ work.watches[h.watch].status = "watching"
      BY <1>1, <1>3, HoldsOpenWatch
    <2> QED BY <1>1, <2>1, <2>2, BelowFloorHeeds, TimeWrites
  <1> QED BY <1>2, <1>3 DEF ExpireBelowFloor

LEMMA TimePromote ==
  ASSUME OneScan, Inv, SoloInv, TimeInv, NEW p \in Scans, Promote(p) PROVE TimeGoal
  <1> DEFINE h == hold[p]
  <1>1. h # NoHold /\ scan' = scan
    BY ActsHolds DEF Promote, Actions, Done
  <1>2. Sound(p) /\ h \in Decisions /\ Basis(p) = work /\ work \in Rows
    BY <1>1, ActsSound, SoloHolds DEF Inv, StoreOK, Sane
  <1>3. CASE UNCHANGED dbVars
    BY <1>1, <1>3, TimeWrites DEF dbVars
  <1>4. CASE Pend(p, PromotedRows(work, h)) \/ Publish(p, PromotedRows(work, h))
    <2>1. db' \in {db, work'} /\ work' = PromotedRows(work, h)
      BY <1>4 DEF Pend, Publish
    <2> QED BY <1>1, <1>2, <2>1, PromotionHeeds, TimeWrites DEF Sound
  <1> QED BY <1>3, <1>4 DEF Promote

LEMMA TimeAbandon ==
  ASSUME OneScan, Inv, TimeInv, NEW p \in Scans, Ignore(p) \/ Abandon(p) PROVE TimeGoal
  <1>1. UNCHANGED <<db, work, scan>>
    BY DEF Ignore, Abandon, Timeout, dbVars, Done
  <1> QED BY <1>1, TimeWrites

LEMMA TimeEnds ==
  ASSUME OneScan, Inv, TimeInv, NEW p \in Scans, EndScan(p) \/ Crash(p) PROVE TimeGoal
  <1>1. ~scan'[p].expired
    BY DEF EndScan, Crash, Ends, Idle, Inv, ScansOK
  <1>2. db' \in {db, work'} /\ work' \in {work, db}
    BY DEF EndScan, Crash, Publish
  <1> QED BY <1>1, <1>2, TimeFrame DEF InTime, Kept

LEMMA TimeStart ==
  ASSUME OneScan, Inv, TimeInv, NEW p \in Scans, StartScan(p) PROVE TimeGoal
  <1>1. ~scan'[p].expired
    BY DEF StartScan, Inv, ScansOK
  <1>2. UNCHANGED <<db, work>>
    BY DEF StartScan, dbVars
  <1> QED BY <1>1, <1>2, TimeFrame DEF InTime, Kept

LEMMA TimeNext == ASSUME OneScan, Inv, SoloInv, TimeInv, [Next]_vars PROVE TimeGoal
  <1>1. CASE UNCHANGED vars \/ Tick
    BY <1>1, TimeUntouched DEF vars, Tick
  <1>2. ASSUME NEW p \in Scans, SkipSymbol(p) \/ Score(p) PROVE TimeGoal
    BY <1>2, TimeUntouched DEF SkipSymbol, Score
  <1>3. ASSUME NEW p \in Scans,
               \/ StartScan(p) \/ ExpireStale(p) \/ InsertSignal(p) \/ UpsertWatching(p)
               \/ ExpireBelowFloor(p) \/ Promote(p) \/ Ignore(p) \/ Abandon(p)
               \/ EndScan(p) \/ Crash(p)
        PROVE  TimeGoal
    BY <1>3, TimeStart, TimeExpireStale, TimeInsert, TimeUpsert, TimeExpireBelowFloor,
       TimePromote, TimeAbandon, TimeEnds
  <1> QED BY <1>1, <1>2, <1>3 DEF Next

(* With one scan at a time, whatever dies or times out, a watch is         *)
(* promoted only before its deadline by a scan whose expire_stale went     *)
(* through, and a resolved watch never changes (watchlist/store.py).       *)
THEOREM PromotedOnTime == ASSUME OneScan PROVE Spec => PromotedInTime
  <1>1. Init => SoloInv /\ TimeInv
    BY SoloInit DEF Init, TimeInv, InTime, Kept, Fresh, Idle
  <1>2. Inv /\ SoloInv /\ TimeInv /\ [Next]_vars => SoloInv' /\ TimeInv'
    BY SoloNext, TimeNext DEF TimeGoal
  <1>3. Inv /\ SoloInv /\ TimeInv /\ [Next]_vars => [TimeStep]_vars
    BY TimeNext DEF TimeGoal, TimeInv, InTime, TimeStep, Kept, Fresh
  <1>4. Spec => [][TimeStep]_vars
    BY <1>1, <1>2, <1>3, Invariance, PTL DEF Spec
  <1> QED BY <1>4 DEF PromotedInTime, TimeStep

=============================================================================
